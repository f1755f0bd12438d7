---------------------------- MODULE TxLayoutProof -----------------------------
(***************************************************************************)
(* Proofs about TxLayout, for lengths and counts of any size: what is      *)
(* signed is what the node computes from the payload (Verifiable), no      *)
(* field is cut (FieldsWhole), the inner transactions of an aggregate are  *)
(* found (InnerDelimited), and the bytes are as many as TxPayload says     *)
(* (PayloadSpec).                                                          *)
(***************************************************************************)
EXTENDS TxBuffersProof

LOCAL INSTANCE SequencesExt

(***************************************************************************)
(* What follows the header, for each of the schemas.                       *)
(***************************************************************************)
LEMMA AccountPropertiesBody ==
    ASSUME NEW n \in Nat, NEW k \in Nat
    PROVE  Sized(<<scalarAttribute(ByteSize), scalarAttribute(ByteSize),
                   tableArrayAttribute(typedValueSchema)>>,
                 Build(AccountPropertiesTransactionBuffer,
                       [propertyType |-> 1, modificationCount |-> n,
                        modifications |-> PropertyModifications(n, k)]),
                 Payload!accountPropertySchema(n, k))
<1> DEFINE m == n * (1 + k)
           b == AccountPropertiesTransactionBuffer
           values == [propertyType |-> 1, modificationCount |-> n,
                      modifications |-> PropertyModifications(n, k)]
           s == <<scalarAttribute(ByteSize), scalarAttribute(ByteSize),
                  tableArrayAttribute(typedValueSchema)>>
           t == Build(b, values)
           lens == <<1, 1, m>>
<1>f1. m \in Nat  OBVIOUS
<1>f2. Makes(tableArrayAttribute(typedValueSchema), ObjectSlot("modifications", PropertyModifications(n, k)), m)
  <2>1. "modifications" \in SlotNames  BY DEF SlotNames
  <2> QED  BY <2>1, TypedMakes
<1> HIDE DEF m
<1>1. t = [i \in 1..3 |-> SlotOf(b[i], values)]  BY BuildOf DEF AccountPropertiesTransactionBuffer
<1>2. /\ values["propertyType"] = 1 /\ values["modificationCount"] = n
      /\ values["modifications"] = PropertyModifications(n, k)
  OBVIOUS
<1>3. /\ "propertyType" \in SlotNames /\ "modificationCount" \in SlotNames
      /\ "modifications" \in SlotNames
  BY DEF SlotNames
<1> HIDE DEF values
<1>4. /\ t[1] = ByteSlot("propertyType", 1) /\ t[2] = ByteSlot("modificationCount", n)
      /\ t[3] = ObjectSlot("modifications", PropertyModifications(n, k))
  <2>1. /\ t[1] = SlotOf(Byte("propertyType"), values)
        /\ t[2] = SlotOf(Byte("modificationCount"), values)
        /\ t[3] = SlotOf(UOffsetT("modifications"), values)
    BY <1>1 DEF AccountPropertiesTransactionBuffer
  <2> QED  BY <1>2, <2>1, SlotKinds
<1>5. Len(lens) = 3 /\ IsList(s, 3) /\ IsList(lens, 3)  BY DEF IsList
<1>6. IsList(t, 3)  BY <1>1 DEF IsList
<1> HIDE DEF t
<1>7. /\ Makes(s[1], t[1], lens[1]) /\ Makes(s[2], t[2], lens[2])
      /\ Makes(s[3], t[3], lens[3])
  BY <1>3, <1>4, <1>f1, <1>f2, ScalarMakes, VectorMakes
<1>8. Total(lens) = Payload!accountPropertySchema(n, k)
  BY <1>5, <1>f1, <1>f2 DEF Total, Part, Payload!accountPropertySchema, Payload!ByteSize, m
<1> HIDE DEF s, lens
<1>9. \A i \in 1..Len(lens) : Makes(s[i], t[i], lens[i])
  <2>1. \A i \in 1..3 : i = 1 \/ i = 2 \/ i = 3  OBVIOUS
  <2> QED  BY <1>5, <1>7, <2>1
<1>10. Sized(s, t, Total(lens))
  <2>1. /\ Len(lens) \in Nat /\ Len(lens) <= 8 /\ IsList(s, Len(lens))
        /\ IsList(t, Len(lens)) /\ IsList(lens, Len(lens))
    BY <1>5, <1>6
  <2> QED  BY <1>9, <2>1, BodyOf DEF Sized
<1> QED  BY <1>8, <1>10 DEF s, t, values, m

(* aliasTransactionSchema.                                                 *)
LEMMA AliasBody ==
    ASSUME NEW k \in Nat
    PROVE  Sized(<<scalarAttribute(ByteSize), arrayAttribute(IntSize),
                   arrayAttribute(ByteSize)>>,
                 Build(AliasTransactionBuffer,
                       [actionType |-> 1, namespaceId |-> Uint32Vector,
                        aliasId |-> ByteVector(k)]),
                 Payload!aliasSchema(k))
<1> DEFINE b == AliasTransactionBuffer
           values == [actionType |-> 1, namespaceId |-> Uint32Vector,
                      aliasId |-> ByteVector(k)]
           s == <<scalarAttribute(ByteSize), arrayAttribute(IntSize),
                  arrayAttribute(ByteSize)>>
           t == Build(b, values)
           lens == <<1, 8, k>>
<1>1. t = [i \in 1..3 |-> SlotOf(b[i], values)]  BY BuildOf DEF AliasTransactionBuffer
<1>2. /\ values["actionType"] = 1 /\ values["namespaceId"] = Uint32Vector
      /\ values["aliasId"] = ByteVector(k)
  OBVIOUS
<1>3. /\ "actionType" \in SlotNames /\ "namespaceId" \in SlotNames
      /\ "aliasId" \in SlotNames
  BY DEF SlotNames
<1> HIDE DEF values
<1>4. /\ t[1] = ByteSlot("actionType", 1)
      /\ t[2] = ObjectSlot("namespaceId", Uint32Vector)
      /\ t[3] = ObjectSlot("aliasId", ByteVector(k))
  <2>1. /\ t[1] = SlotOf(Byte("actionType"), values)
        /\ t[2] = SlotOf(UOffsetT("namespaceId"), values)
        /\ t[3] = SlotOf(UOffsetT("aliasId"), values)
    BY <1>1 DEF AliasTransactionBuffer
  <2> QED  BY <1>2, <2>1, SlotKinds
<1>5. Len(lens) = 3 /\ IsList(s, 3) /\ IsList(lens, 3)  BY DEF IsList
<1>6. IsList(t, 3)  BY <1>1 DEF IsList
<1> HIDE DEF t
<1>7. /\ Makes(s[1], t[1], lens[1]) /\ Makes(s[2], t[2], lens[2])
      /\ Makes(s[3], t[3], lens[3])
  BY <1>3, <1>4, ScalarMakes, VectorMakes
<1>8. Total(lens) = Payload!aliasSchema(k)
  BY <1>5 DEF Total, Part, Payload!aliasSchema, Payload!BaseInt64Size
<1> HIDE DEF s, lens
<1>9. \A i \in 1..Len(lens) : Makes(s[i], t[i], lens[i])
  <2>1. \A i \in 1..3 : i = 1 \/ i = 2 \/ i = 3  OBVIOUS
  <2> QED  BY <1>5, <1>7, <2>1
<1>10. Sized(s, t, Total(lens))
  <2>1. /\ Len(lens) \in Nat /\ Len(lens) <= 8 /\ IsList(s, Len(lens))
        /\ IsList(t, Len(lens)) /\ IsList(lens, Len(lens))
    BY <1>5, <1>6
  <2> QED  BY <1>9, <2>1, BodyOf DEF Sized
<1> QED  BY <1>8, <1>10 DEF s, t, values

(* accountLinkTransactionSchema.                                           *)
LEMMA AccountLinkBody ==
    Sized(<<arrayAttribute(ByteSize), scalarAttribute(ByteSize)>>,
          Build(AccountLinkTransactionBuffer,
                [remoteAccountKey |-> Key, linkAction |-> 1]),
          Payload!accountLinkSchema)
<1> DEFINE b == AccountLinkTransactionBuffer
           values == [remoteAccountKey |-> Key, linkAction |-> 1]
           s == <<arrayAttribute(ByteSize), scalarAttribute(ByteSize)>>
           t == Build(b, values)
           lens == <<32, 1>>
<1>f1. Key = ByteVector(32)  BY DEF Key, Payload!KeySize
<1>f2. 32 \in Nat /\ 25 \in Nat  OBVIOUS
<1>1. t = [i \in 1..2 |-> SlotOf(b[i], values)]  BY BuildOf DEF AccountLinkTransactionBuffer
<1>2. values["remoteAccountKey"] = Key /\ values["linkAction"] = 1
  OBVIOUS
<1>3. "remoteAccountKey" \in SlotNames /\ "linkAction" \in SlotNames
  BY DEF SlotNames
<1> HIDE DEF values
<1>4. t[1] = ObjectSlot("remoteAccountKey", Key) /\ t[2] = ByteSlot("linkAction", 1)
  <2>1. /\ t[1] = SlotOf(UOffsetT("remoteAccountKey"), values)
        /\ t[2] = SlotOf(Byte("linkAction"), values)
    BY <1>1 DEF AccountLinkTransactionBuffer
  <2> QED  BY <1>2, <2>1, SlotKinds
<1>5. Len(lens) = 2 /\ IsList(s, 2) /\ IsList(lens, 2)  BY DEF IsList
<1>6. IsList(t, 2)  BY <1>1 DEF IsList
<1> HIDE DEF t
<1>7. Makes(s[1], t[1], lens[1]) /\ Makes(s[2], t[2], lens[2])
  BY <1>3, <1>4, <1>f1, <1>f2, ScalarMakes, VectorMakes
<1>8. Total(lens) = Payload!accountLinkSchema
  BY <1>5, <1>f1, <1>f2 DEF Total, Part, Payload!accountLinkSchema, Payload!KeySize
<1> HIDE DEF s, lens
<1>9. \A i \in 1..Len(lens) : Makes(s[i], t[i], lens[i])
  <2>1. \A i \in 1..2 : i = 1 \/ i = 2  OBVIOUS
  <2> QED  BY <1>5, <1>7, <2>1
<1>10. Sized(s, t, Total(lens))
  <2>1. /\ Len(lens) \in Nat /\ Len(lens) <= 8 /\ IsList(s, Len(lens))
        /\ IsList(t, Len(lens)) /\ IsList(lens, Len(lens))
    BY <1>5, <1>6
  <2> QED  BY <1>9, <2>1, BodyOf DEF Sized
<1> QED  BY <1>8, <1>10 DEF s, t, values

(* networkConfigTransactionSchema.                                         *)
LEMMA NetworkConfigBody ==
    ASSUME NEW config \in Nat, NEW entities \in Nat
    PROVE  Sized(<<arrayAttribute(IntSize), scalarAttribute(ShortSize),
                   scalarAttribute(ShortSize), arrayAttribute(ByteSize),
                   arrayAttribute(ByteSize)>>,
                 Build(NetworkConfigTransactionBuffer,
                       [applyHeightDelta |-> Uint32Vector, networkConfigSize |-> config,
                        networkConfig |-> ByteVector(config),
                        supportedEntityVersionsSize |-> entities,
                        supportedEntityVersions |-> ByteVector(entities)]),
                 Payload!networkConfigSchema(config, entities))
<1> DEFINE b == NetworkConfigTransactionBuffer
           values == [applyHeightDelta |-> Uint32Vector, networkConfigSize |-> config,
                      networkConfig |-> ByteVector(config),
                      supportedEntityVersionsSize |-> entities,
                      supportedEntityVersions |-> ByteVector(entities)]
           s == <<arrayAttribute(IntSize), scalarAttribute(ShortSize),
                  scalarAttribute(ShortSize), arrayAttribute(ByteSize),
                  arrayAttribute(ByteSize)>>
           t == Build(b, values)
           lens == <<8, Payload!ShortSize(config), Payload!ShortSize(entities), config,
                     entities>>
<1>f1. Payload!ShortSize(config) \in Nat /\ Payload!ShortSize(entities) \in Nat
  BY DEF Payload!ShortSize
<1>1. t = [i \in 1..5 |-> SlotOf(b[i], values)]  BY BuildOf DEF NetworkConfigTransactionBuffer
<1>2. /\ values["applyHeightDelta"] = Uint32Vector /\ values["networkConfigSize"] = config
      /\ values["supportedEntityVersionsSize"] = entities
      /\ values["networkConfig"] = ByteVector(config)
      /\ values["supportedEntityVersions"] = ByteVector(entities)
  OBVIOUS
<1>3. /\ "applyHeightDelta" \in SlotNames /\ "networkConfigSize" \in SlotNames
      /\ "supportedEntityVersionsSize" \in SlotNames /\ "networkConfig" \in SlotNames
      /\ "supportedEntityVersions" \in SlotNames
  BY DEF SlotNames
<1> HIDE DEF values
<1>4. /\ t[1] = ObjectSlot("applyHeightDelta", Uint32Vector)
      /\ t[2] = ShortSlot("networkConfigSize", config)
      /\ t[3] = ShortSlot("supportedEntityVersionsSize", entities)
      /\ t[4] = ObjectSlot("networkConfig", ByteVector(config))
      /\ t[5] = ObjectSlot("supportedEntityVersions", ByteVector(entities))
  <2>1. /\ t[1] = SlotOf(UOffsetT("applyHeightDelta"), values)
        /\ t[2] = SlotOf(Uint16("networkConfigSize"), values)
        /\ t[3] = SlotOf(Uint16("supportedEntityVersionsSize"), values)
        /\ t[4] = SlotOf(UOffsetT("networkConfig"), values)
        /\ t[5] = SlotOf(UOffsetT("supportedEntityVersions"), values)
    BY <1>1 DEF NetworkConfigTransactionBuffer
  <2> QED  BY <1>2, <2>1, SlotKinds
<1>5. Len(lens) = 5 /\ IsList(s, 5) /\ IsList(lens, 5)  BY DEF IsList
<1>6. IsList(t, 5)  BY <1>1 DEF IsList
<1> HIDE DEF t
<1>7. /\ Makes(s[1], t[1], lens[1]) /\ Makes(s[2], t[2], lens[2])
      /\ Makes(s[3], t[3], lens[3]) /\ Makes(s[4], t[4], lens[4])
      /\ Makes(s[5], t[5], lens[5])
  BY <1>3, <1>4, <1>f1, ScalarMakes, VectorMakes
<1>8. Total(lens) = Payload!networkConfigSchema(config, entities)
  BY <1>5, <1>f1 DEF Total, Part, Payload!networkConfigSchema, Payload!BaseInt64Size
<1> HIDE DEF s, lens
<1>9. \A i \in 1..Len(lens) : Makes(s[i], t[i], lens[i])
  <2>1. \A i \in 1..5 : i = 1 \/ i = 2 \/ i = 3 \/ i = 4 \/ i = 5  OBVIOUS
  <2> QED  BY <1>5, <1>7, <2>1
<1>10. Sized(s, t, Total(lens))
  <2>1. /\ Len(lens) \in Nat /\ Len(lens) <= 8 /\ IsList(s, Len(lens))
        /\ IsList(t, Len(lens)) /\ IsList(lens, Len(lens))
    BY <1>5, <1>6
  <2> QED  BY <1>9, <2>1, BodyOf DEF Sized
<1> QED  BY <1>8, <1>10 DEF s, t, values

(* blockchainUpgradeTransactionSchema.                                     *)
LEMMA BlockchainUpgradeBody ==
    Sized(<<arrayAttribute(IntSize), arrayAttribute(IntSize)>>,
          Build(BlockchainUpgradeTransactionBuffer,
                [upgradePeriod |-> Uint32Vector, newBlockChainVersion |-> Uint32Vector]),
          Payload!blockchainUpgradeSchema)
<1> DEFINE b == BlockchainUpgradeTransactionBuffer
           values == [upgradePeriod |-> Uint32Vector,
                      newBlockChainVersion |-> Uint32Vector]
           s == <<arrayAttribute(IntSize), arrayAttribute(IntSize)>>
           t == Build(b, values)
           lens == <<8, 8>>
<1>1. t = [i \in 1..2 |-> SlotOf(b[i], values)]  BY BuildOf DEF BlockchainUpgradeTransactionBuffer
<1>2. /\ values["upgradePeriod"] = Uint32Vector
      /\ values["newBlockChainVersion"] = Uint32Vector
  OBVIOUS
<1>3. "upgradePeriod" \in SlotNames /\ "newBlockChainVersion" \in SlotNames
  BY DEF SlotNames
<1> HIDE DEF values
<1>4. /\ t[1] = ObjectSlot("upgradePeriod", Uint32Vector)
      /\ t[2] = ObjectSlot("newBlockChainVersion", Uint32Vector)
  <2>1. /\ t[1] = SlotOf(UOffsetT("upgradePeriod"), values)
        /\ t[2] = SlotOf(UOffsetT("newBlockChainVersion"), values)
    BY <1>1 DEF BlockchainUpgradeTransactionBuffer
  <2> QED  BY <1>2, <2>1, SlotKinds
<1>5. Len(lens) = 2 /\ IsList(s, 2) /\ IsList(lens, 2)  BY DEF IsList
<1>6. IsList(t, 2)  BY <1>1 DEF IsList
<1> HIDE DEF t
<1>7. Makes(s[1], t[1], lens[1]) /\ Makes(s[2], t[2], lens[2])
  BY <1>3, <1>4, ScalarMakes, VectorMakes
<1>8. Total(lens) = Payload!blockchainUpgradeSchema
  BY <1>5 DEF Total, Part, Payload!blockchainUpgradeSchema, Payload!BaseInt64Size
<1> HIDE DEF s, lens
<1>9. \A i \in 1..Len(lens) : Makes(s[i], t[i], lens[i])
  <2>1. \A i \in 1..2 : i = 1 \/ i = 2  OBVIOUS
  <2> QED  BY <1>5, <1>7, <2>1
<1>10. Sized(s, t, Total(lens))
  <2>1. /\ Len(lens) \in Nat /\ Len(lens) <= 8 /\ IsList(s, Len(lens))
        /\ IsList(t, Len(lens)) /\ IsList(lens, Len(lens))
    BY <1>5, <1>6
  <2> QED  BY <1>9, <2>1, BodyOf DEF Sized
<1> QED  BY <1>8, <1>10 DEF s, t, values

(* modifyMetadataTransactionSchema.                                        *)
LEMMA ModifyMetadataBody ==
    ASSUME NEW id \in Nat, NEW n \in Nat, NEW key \in Nat, NEW value \in Nat
    PROVE  Sized(<<scalarAttribute(ByteSize), arrayAttribute(ByteSize),
                   tableArrayAttribute(modificationSchema)>>,
                 Build(ModifyMetadataTransactionBuffer,
                       [metadataType |-> 1, metadataId |-> ByteVector(id),
                        modifications |-> MetadataModifications(n, key, value)]),
                 Payload!modifyMetadataSchema(id, n, key, value))
<1> DEFINE m == n * (8 + key + value)
           b == ModifyMetadataTransactionBuffer
           values == [metadataType |-> 1, metadataId |-> ByteVector(id),
                      modifications |-> MetadataModifications(n, key, value)]
           s == <<scalarAttribute(ByteSize), arrayAttribute(ByteSize),
                  tableArrayAttribute(modificationSchema)>>
           t == Build(b, values)
           lens == <<1, id, m>>
<1>f1. m \in Nat  OBVIOUS
<1>f2. Makes(tableArrayAttribute(modificationSchema),
            ObjectSlot("modifications", MetadataModifications(n, key, value)), m)
  BY MetadataMakes
<1>f3. n * (4 + 1 + 1 + 2 + key + value) = m
  <2>1. 4 + 1 + 1 + 2 + key + value = 8 + key + value  OBVIOUS
  <2> QED  BY <2>1
<1> HIDE DEF m
<1>1. t = [i \in 1..3 |-> SlotOf(b[i], values)]  BY BuildOf DEF ModifyMetadataTransactionBuffer
<1>2. /\ values["metadataType"] = 1 /\ values["metadataId"] = ByteVector(id)
      /\ values["modifications"] = MetadataModifications(n, key, value)
  OBVIOUS
<1>3. /\ "metadataType" \in SlotNames /\ "metadataId" \in SlotNames
      /\ "modifications" \in SlotNames
  BY DEF SlotNames
<1> HIDE DEF values
<1>4. /\ t[1] = ByteSlot("metadataType", 1)
      /\ t[2] = ObjectSlot("metadataId", ByteVector(id))
      /\ t[3] = ObjectSlot("modifications", MetadataModifications(n, key, value))
  <2>1. /\ t[1] = SlotOf(Byte("metadataType"), values)
        /\ t[2] = SlotOf(UOffsetT("metadataId"), values)
        /\ t[3] = SlotOf(UOffsetT("modifications"), values)
    BY <1>1 DEF ModifyMetadataTransactionBuffer
  <2> QED  BY <1>2, <2>1, SlotKinds
<1>5. Len(lens) = 3 /\ IsList(s, 3) /\ IsList(lens, 3)  BY DEF IsList
<1>6. IsList(t, 3)  BY <1>1 DEF IsList
<1> HIDE DEF t
<1>7. /\ Makes(s[1], t[1], lens[1]) /\ Makes(s[2], t[2], lens[2])
      /\ Makes(s[3], t[3], lens[3])
  BY <1>3, <1>4, <1>f1, <1>f2, <1>f3, ScalarMakes, VectorMakes
<1>8. Total(lens) = Payload!modifyMetadataSchema(id, n, key, value)
  BY <1>5, <1>f1, <1>f2, <1>f3 DEF Total, Part, Payload!modifyMetadataSchema, Payload!ByteSize
<1> HIDE DEF s, lens
<1>9. \A i \in 1..Len(lens) : Makes(s[i], t[i], lens[i])
  <2>1. \A i \in 1..3 : i = 1 \/ i = 2 \/ i = 3  OBVIOUS
  <2> QED  BY <1>5, <1>7, <2>1
<1>10. Sized(s, t, Total(lens))
  <2>1. /\ Len(lens) \in Nat /\ Len(lens) <= 8 /\ IsList(s, Len(lens))
        /\ IsList(t, Len(lens)) /\ IsList(lens, Len(lens))
    BY <1>5, <1>6
  <2> QED  BY <1>9, <2>1, BodyOf DEF Sized
<1> QED  BY <1>8, <1>10 DEF s, t, values, m

(* mosaicDefinitionTransactionSchema.                                      *)
LEMMA MosaicDefinitionBody ==
    ASSUME NEW nonce \in Nat, NEW n \in Nat
    PROVE  Sized(<<scalarAttribute(IntSize), arrayAttribute(IntSize),
                   scalarAttribute(ByteSize), scalarAttribute(ByteSize),
                   scalarAttribute(ByteSize), tableArrayAttribute(propertySchema)>>,
                 Build(MosaicDefinitionTransactionBuffer,
                       [mosaicNonce |-> nonce, mosaicId |-> Uint32Vector, flags |-> 1,
                        divisibility |-> 1, numOptionalProperties |-> n,
                        optionalProperties |-> MosaicProperties(n)]),
                 Payload!mosaicDefinitionSchema(nonce, n))
<1> DEFINE b == MosaicDefinitionTransactionBuffer
           values == [mosaicNonce |-> nonce, mosaicId |-> Uint32Vector, flags |-> 1,
                      divisibility |-> 1, numOptionalProperties |-> n,
                      optionalProperties |-> MosaicProperties(n)]
           s == <<scalarAttribute(IntSize), arrayAttribute(IntSize),
                  scalarAttribute(ByteSize), scalarAttribute(ByteSize),
                  scalarAttribute(ByteSize), tableArrayAttribute(propertySchema)>>
           t == Build(b, values)
           lens == <<Payload!IntSize(nonce), 8, 1, 1, 1, n * 9>>
<1>f1. Payload!IntSize(nonce) \in Nat  BY DEF Payload!IntSize
<1>1. t = [i \in 1..6 |-> SlotOf(b[i], values)]  BY BuildOf DEF MosaicDefinitionTransactionBuffer
<1>2. /\ values["mosaicNonce"] = nonce /\ values["mosaicId"] = Uint32Vector
      /\ values["numOptionalProperties"] = n /\ values["flags"] = 1
      /\ values["divisibility"] = 1 /\ values["optionalProperties"] = MosaicProperties(n)
  OBVIOUS
<1>3. /\ "mosaicNonce" \in SlotNames /\ "mosaicId" \in SlotNames
      /\ "numOptionalProperties" \in SlotNames /\ "flags" \in SlotNames
      /\ "divisibility" \in SlotNames /\ "optionalProperties" \in SlotNames
  BY DEF SlotNames
<1> HIDE DEF values
<1>4. /\ t[1] = IntSlot("mosaicNonce", nonce)
      /\ t[2] = ObjectSlot("mosaicId", Uint32Vector)
      /\ t[3] = ByteSlot("numOptionalProperties", n) /\ t[4] = ByteSlot("flags", 1)
      /\ t[5] = ByteSlot("divisibility", 1)
      /\ t[6] = ObjectSlot("optionalProperties", MosaicProperties(n))
  <2>1. /\ t[1] = SlotOf(Uint32("mosaicNonce"), values)
        /\ t[2] = SlotOf(UOffsetT("mosaicId"), values)
        /\ t[3] = SlotOf(Byte("numOptionalProperties"), values)
        /\ t[4] = SlotOf(Byte("flags"), values)
        /\ t[5] = SlotOf(Byte("divisibility"), values)
        /\ t[6] = SlotOf(UOffsetT("optionalProperties"), values)
    BY <1>1 DEF MosaicDefinitionTransactionBuffer
  <2> QED  BY <1>2, <2>1, SlotKinds
<1>5. Len(lens) = 6 /\ IsList(s, 6) /\ IsList(lens, 6)  BY DEF IsList
<1>6. IsList(t, 6)  BY <1>1 DEF IsList
<1> HIDE DEF t
<1>7. /\ Makes(s[1], t[1], lens[1]) /\ Makes(s[2], t[2], lens[2])
      /\ Makes(s[3], t[3], lens[3]) /\ Makes(s[4], t[4], lens[4])
      /\ Makes(s[5], t[5], lens[5]) /\ Makes(s[6], t[6], lens[6])
  BY <1>3, <1>4, <1>f1, ScalarMakes, VectorMakes, OtherTablesMake
<1>8. Total(lens) = Payload!mosaicDefinitionSchema(nonce, n)
  BY <1>5, <1>f1 DEF Total, Part, Payload!mosaicDefinitionSchema, Payload!BaseInt64Size
<1> HIDE DEF s, lens
<1>9. \A i \in 1..Len(lens) : Makes(s[i], t[i], lens[i])
  <2>1. \A i \in 1..6 : i = 1 \/ i = 2 \/ i = 3 \/ i = 4 \/ i = 5 \/ i = 6  OBVIOUS
  <2> QED  BY <1>5, <1>7, <2>1
<1>10. Sized(s, t, Total(lens))
  <2>1. /\ Len(lens) \in Nat /\ Len(lens) <= 8 /\ IsList(s, Len(lens))
        /\ IsList(t, Len(lens)) /\ IsList(lens, Len(lens))
    BY <1>5, <1>6
  <2> QED  BY <1>9, <2>1, BodyOf DEF Sized
<1> QED  BY <1>8, <1>10 DEF s, t, values

(* mosaicSupplyChangeTransactionSchema.                                    *)
LEMMA MosaicSupplyChangeBody ==
    Sized(<<arrayAttribute(IntSize), scalarAttribute(ByteSize), arrayAttribute(IntSize)>>,
          Build(MosaicSupplyChangeTransactionBuffer,
                [mosaicId |-> Uint32Vector, direction |-> 1, delta |-> Uint32Vector]),
          Payload!mosaicSupplyChangeSchema)
<1> DEFINE b == MosaicSupplyChangeTransactionBuffer
           values == [mosaicId |-> Uint32Vector, direction |-> 1, delta |-> Uint32Vector]
           s == <<arrayAttribute(IntSize), scalarAttribute(ByteSize),
                  arrayAttribute(IntSize)>>
           t == Build(b, values)
           lens == <<8, 1, 8>>
<1>1. t = [i \in 1..3 |-> SlotOf(b[i], values)]  BY BuildOf DEF MosaicSupplyChangeTransactionBuffer
<1>2. /\ values["mosaicId"] = Uint32Vector /\ values["direction"] = 1
      /\ values["delta"] = Uint32Vector
  OBVIOUS
<1>3. "mosaicId" \in SlotNames /\ "direction" \in SlotNames /\ "delta" \in SlotNames
  BY DEF SlotNames
<1> HIDE DEF values
<1>4. /\ t[1] = ObjectSlot("mosaicId", Uint32Vector) /\ t[2] = ByteSlot("direction", 1)
      /\ t[3] = ObjectSlot("delta", Uint32Vector)
  <2>1. /\ t[1] = SlotOf(UOffsetT("mosaicId"), values)
        /\ t[2] = SlotOf(Byte("direction"), values)
        /\ t[3] = SlotOf(UOffsetT("delta"), values)
    BY <1>1 DEF MosaicSupplyChangeTransactionBuffer
  <2> QED  BY <1>2, <2>1, SlotKinds
<1>5. Len(lens) = 3 /\ IsList(s, 3) /\ IsList(lens, 3)  BY DEF IsList
<1>6. IsList(t, 3)  BY <1>1 DEF IsList
<1> HIDE DEF t
<1>7. /\ Makes(s[1], t[1], lens[1]) /\ Makes(s[2], t[2], lens[2])
      /\ Makes(s[3], t[3], lens[3])
  BY <1>3, <1>4, ScalarMakes, VectorMakes
<1>8. Total(lens) = Payload!mosaicSupplyChangeSchema
  BY <1>5 DEF Total, Part, Payload!mosaicSupplyChangeSchema, Payload!BaseInt64Size
<1> HIDE DEF s, lens
<1>9. \A i \in 1..Len(lens) : Makes(s[i], t[i], lens[i])
  <2>1. \A i \in 1..3 : i = 1 \/ i = 2 \/ i = 3  OBVIOUS
  <2> QED  BY <1>5, <1>7, <2>1
<1>10. Sized(s, t, Total(lens))
  <2>1. /\ Len(lens) \in Nat /\ Len(lens) <= 8 /\ IsList(s, Len(lens))
        /\ IsList(t, Len(lens)) /\ IsList(lens, Len(lens))
    BY <1>5, <1>6
  <2> QED  BY <1>9, <2>1, BodyOf DEF Sized
<1> QED  BY <1>8, <1>10 DEF s, t, values

(* transferTransactionSchema.                                              *)
LEMMA TransferBody ==
    ASSUME NEW n \in Nat, NEW payload \in Nat
    PROVE  Sized(<<arrayAttribute(ByteSize), scalarAttribute(ShortSize),
                   scalarAttribute(ByteSize), tableAttribute(typedValueSchema),
                   tableArrayAttribute(mosaicSchema)>>,
                 Build(TransferTransactionBuffer,
                       [recipient |-> Address, numMosaics |-> n,
                        messageSize |-> payload + 1, message |-> Message(payload),
                        mosaics |-> Mosaics(n)]),
                 Payload!transferSchema(n, payload + 1, payload))
<1> DEFINE size == payload + 1
           b == TransferTransactionBuffer
           values == [recipient |-> Address, numMosaics |-> n, messageSize |-> size,
                      message |-> Message(payload), mosaics |-> Mosaics(n)]
           s == <<arrayAttribute(ByteSize), scalarAttribute(ShortSize),
                  scalarAttribute(ByteSize), tableAttribute(typedValueSchema),
                  tableArrayAttribute(mosaicSchema)>>
           t == Build(b, values)
           lens == <<25, Payload!ShortSize(size), 1, 1 + payload, n * 16>>
<1>f1. Address = ByteVector(25)  BY DEF Address, Payload!AddressSize
<1>f2. 32 \in Nat /\ 25 \in Nat  OBVIOUS
<1>f3. size \in Nat  OBVIOUS
<1>f4. Payload!ShortSize(size) \in Nat  BY DEF Payload!ShortSize
<1> HIDE DEF size
<1>1. t = [i \in 1..5 |-> SlotOf(b[i], values)]  BY BuildOf DEF TransferTransactionBuffer
<1>2. /\ values["recipient"] = Address /\ values["messageSize"] = size
      /\ values["numMosaics"] = n /\ values["message"] = Message(payload)
      /\ values["mosaics"] = Mosaics(n)
  OBVIOUS
<1>3. /\ "recipient" \in SlotNames /\ "messageSize" \in SlotNames
      /\ "numMosaics" \in SlotNames /\ "message" \in SlotNames /\ "mosaics" \in SlotNames
  BY DEF SlotNames
<1> HIDE DEF values
<1>4. /\ t[1] = ObjectSlot("recipient", Address) /\ t[2] = ShortSlot("messageSize", size)
      /\ t[3] = ByteSlot("numMosaics", n)
      /\ t[4] = ObjectSlot("message", Message(payload))
      /\ t[5] = ObjectSlot("mosaics", Mosaics(n))
  <2>1. /\ t[1] = SlotOf(UOffsetT("recipient"), values)
        /\ t[2] = SlotOf(Uint16("messageSize"), values)
        /\ t[3] = SlotOf(Byte("numMosaics"), values)
        /\ t[4] = SlotOf(UOffsetT("message"), values)
        /\ t[5] = SlotOf(UOffsetT("mosaics"), values)
    BY <1>1 DEF TransferTransactionBuffer
  <2> QED  BY <1>2, <2>1, SlotKinds
<1>5. Len(lens) = 5 /\ IsList(s, 5) /\ IsList(lens, 5)  BY DEF IsList
<1>6. IsList(t, 5)  BY <1>1 DEF IsList
<1> HIDE DEF t
<1>7. /\ Makes(s[1], t[1], lens[1]) /\ Makes(s[2], t[2], lens[2])
      /\ Makes(s[3], t[3], lens[3]) /\ Makes(s[4], t[4], lens[4])
      /\ Makes(s[5], t[5], lens[5])
  <2>1. Makes(s[1], t[1], lens[1])  BY <1>3, <1>4, <1>f1, <1>f2, <1>f3, <1>f4, VectorMakes
  <2>2. Makes(s[2], t[2], lens[2])  BY <1>3, <1>4, <1>f1, <1>f2, <1>f3, <1>f4, ScalarMakes
  <2>3. Makes(s[3], t[3], lens[3])  BY <1>3, <1>4, <1>f1, <1>f2, <1>f3, <1>f4, ScalarMakes
  <2>4. Makes(s[4], t[4], lens[4])  BY <1>3, <1>4, <1>f1, <1>f2, <1>f3, <1>f4, TypedMakes
  <2>5. Makes(s[5], t[5], lens[5])  BY <1>3, <1>4, <1>f1, <1>f2, <1>f3, <1>f4, OtherTablesMake
  <2> QED  BY <2>1, <2>2, <2>3, <2>4, <2>5
<1>8. Total(lens) = Payload!transferSchema(n, payload + 1, payload)
  BY <1>5, <1>f1, <1>f2, <1>f3, <1>f4 DEF Total, Part, Payload!transferSchema, Payload!BaseInt64Size, Payload!AddressSize, Payload!ByteSize, size
<1> HIDE DEF s, lens
<1>9. \A i \in 1..Len(lens) : Makes(s[i], t[i], lens[i])
  <2>1. \A i \in 1..5 : i = 1 \/ i = 2 \/ i = 3 \/ i = 4 \/ i = 5  OBVIOUS
  <2> QED  BY <1>5, <1>7, <2>1
<1>10. Sized(s, t, Total(lens))
  <2>1. /\ Len(lens) \in Nat /\ Len(lens) <= 8 /\ IsList(s, Len(lens))
        /\ IsList(t, Len(lens)) /\ IsList(lens, Len(lens))
    BY <1>5, <1>6
  <2> QED  BY <1>9, <2>1, BodyOf DEF Sized
<1> QED  BY <1>8, <1>10 DEF s, t, values, size

(* modifyMultisigAccountTransactionSchema.                                 *)
LEMMA ModifyMultisigAccountBody ==
    ASSUME NEW n \in Nat
    PROVE  Sized(<<scalarAttribute(ByteSize), scalarAttribute(ByteSize),
                   scalarAttribute(ByteSize), tableArrayAttribute(typedValueSchema)>>,
                 Build(ModifyMultisigAccountTransactionBuffer,
                       [minRemovalDelta |-> 1, minApprovalDelta |-> 1,
                        numModifications |-> n, modifications |-> Members(n)]),
                 Payload!modifyMultisigAccountSchema(n))
<1> DEFINE b == ModifyMultisigAccountTransactionBuffer
           values == [minRemovalDelta |-> 1, minApprovalDelta |-> 1,
                      numModifications |-> n, modifications |-> Members(n)]
           s == <<scalarAttribute(ByteSize), scalarAttribute(ByteSize),
                  scalarAttribute(ByteSize), tableArrayAttribute(typedValueSchema)>>
           t == Build(b, values)
           lens == <<1, 1, 1, n * 33>>
<1>1. t = [i \in 1..4 |-> SlotOf(b[i], values)]  BY BuildOf DEF ModifyMultisigAccountTransactionBuffer
<1>2. /\ values["minRemovalDelta"] = 1 /\ values["minApprovalDelta"] = 1
      /\ values["numModifications"] = n /\ values["modifications"] = Members(n)
  OBVIOUS
<1>3. /\ "minRemovalDelta" \in SlotNames /\ "minApprovalDelta" \in SlotNames
      /\ "numModifications" \in SlotNames /\ "modifications" \in SlotNames
  BY DEF SlotNames
<1> HIDE DEF values
<1>4. /\ t[1] = ByteSlot("minRemovalDelta", 1) /\ t[2] = ByteSlot("minApprovalDelta", 1)
      /\ t[3] = ByteSlot("numModifications", n)
      /\ t[4] = ObjectSlot("modifications", Members(n))
  <2>1. /\ t[1] = SlotOf(Byte("minRemovalDelta"), values)
        /\ t[2] = SlotOf(Byte("minApprovalDelta"), values)
        /\ t[3] = SlotOf(Byte("numModifications"), values)
        /\ t[4] = SlotOf(UOffsetT("modifications"), values)
    BY <1>1 DEF ModifyMultisigAccountTransactionBuffer
  <2> QED  BY <1>2, <2>1, SlotKinds
<1>5. Len(lens) = 4 /\ IsList(s, 4) /\ IsList(lens, 4)  BY DEF IsList
<1>6. IsList(t, 4)  BY <1>1 DEF IsList
<1> HIDE DEF t
<1>7. /\ Makes(s[1], t[1], lens[1]) /\ Makes(s[2], t[2], lens[2])
      /\ Makes(s[3], t[3], lens[3]) /\ Makes(s[4], t[4], lens[4])
  BY <1>3, <1>4, ScalarMakes, VectorMakes, TypedMakes
<1>8. Total(lens) = Payload!modifyMultisigAccountSchema(n)
  BY <1>5 DEF Total, Part, Payload!modifyMultisigAccountSchema, Payload!ByteSize, Payload!KeySize
<1> HIDE DEF s, lens
<1>9. \A i \in 1..Len(lens) : Makes(s[i], t[i], lens[i])
  <2>1. \A i \in 1..4 : i = 1 \/ i = 2 \/ i = 3 \/ i = 4  OBVIOUS
  <2> QED  BY <1>5, <1>7, <2>1
<1>10. Sized(s, t, Total(lens))
  <2>1. /\ Len(lens) \in Nat /\ Len(lens) <= 8 /\ IsList(s, Len(lens))
        /\ IsList(t, Len(lens)) /\ IsList(lens, Len(lens))
    BY <1>5, <1>6
  <2> QED  BY <1>9, <2>1, BodyOf DEF Sized
<1> QED  BY <1>8, <1>10 DEF s, t, values

(* modifyContractTransactionSchema.                                        *)
LEMMA ModifyContractBody ==
    ASSUME NEW c \in Nat, NEW e \in Nat, NEW v \in Nat
    PROVE  Sized(<<arrayAttribute(IntSize), arrayAttribute(ByteSize),
                   scalarAttribute(ByteSize), scalarAttribute(ByteSize),
                   scalarAttribute(ByteSize), tableArrayAttribute(typedValueSchema),
                   tableArrayAttribute(typedValueSchema),
                   tableArrayAttribute(typedValueSchema)>>,
                 Build(ModifyContractTransactionBuffer,
                       [durationDelta |-> Uint32Vector, hash |-> Hash, numCustomers |-> c,
                        numExecutors |-> e, numVerifiers |-> v, customers |-> Members(c),
                        executors |-> Members(e), verifiers |-> Members(v)]),
                 Payload!modifyContractSchema(c, e, v))
<1> DEFINE b == ModifyContractTransactionBuffer
           values == [durationDelta |-> Uint32Vector, hash |-> Hash, numCustomers |-> c,
                      numExecutors |-> e, numVerifiers |-> v, customers |-> Members(c),
                      executors |-> Members(e), verifiers |-> Members(v)]
           s == <<arrayAttribute(IntSize), arrayAttribute(ByteSize),
                  scalarAttribute(ByteSize), scalarAttribute(ByteSize),
                  scalarAttribute(ByteSize), tableArrayAttribute(typedValueSchema),
                  tableArrayAttribute(typedValueSchema),
                  tableArrayAttribute(typedValueSchema)>>
           t == Build(b, values)
           lens == <<8, 32, 1, 1, 1, c * 33, e * 33, v * 33>>
<1>f1. Hash = ByteVector(32)  BY DEF Hash, Payload!Hash256
<1>f2. 32 \in Nat /\ 25 \in Nat  OBVIOUS
<1>1. t = [i \in 1..8 |-> SlotOf(b[i], values)]  BY BuildOf DEF ModifyContractTransactionBuffer
<1>2. /\ values["durationDelta"] = Uint32Vector /\ values["hash"] = Hash
      /\ values["numCustomers"] = c /\ values["numExecutors"] = e
      /\ values["numVerifiers"] = v /\ values["customers"] = Members(c)
      /\ values["executors"] = Members(e) /\ values["verifiers"] = Members(v)
  OBVIOUS
<1>3. /\ "durationDelta" \in SlotNames /\ "hash" \in SlotNames
      /\ "numCustomers" \in SlotNames /\ "numExecutors" \in SlotNames
      /\ "numVerifiers" \in SlotNames /\ "customers" \in SlotNames
      /\ "executors" \in SlotNames /\ "verifiers" \in SlotNames
  BY DEF SlotNames
<1> HIDE DEF values
<1>4. /\ t[1] = ObjectSlot("durationDelta", Uint32Vector)
      /\ t[2] = ObjectSlot("hash", Hash) /\ t[3] = ByteSlot("numCustomers", c)
      /\ t[4] = ByteSlot("numExecutors", e) /\ t[5] = ByteSlot("numVerifiers", v)
      /\ t[6] = ObjectSlot("customers", Members(c))
      /\ t[7] = ObjectSlot("executors", Members(e))
      /\ t[8] = ObjectSlot("verifiers", Members(v))
  <2>1. /\ t[1] = SlotOf(UOffsetT("durationDelta"), values)
        /\ t[2] = SlotOf(UOffsetT("hash"), values)
        /\ t[3] = SlotOf(Byte("numCustomers"), values)
        /\ t[4] = SlotOf(Byte("numExecutors"), values)
        /\ t[5] = SlotOf(Byte("numVerifiers"), values)
        /\ t[6] = SlotOf(UOffsetT("customers"), values)
        /\ t[7] = SlotOf(UOffsetT("executors"), values)
        /\ t[8] = SlotOf(UOffsetT("verifiers"), values)
    BY <1>1 DEF ModifyContractTransactionBuffer
  <2> QED  BY <1>2, <2>1, SlotKinds
<1>5. Len(lens) = 8 /\ IsList(s, 8) /\ IsList(lens, 8)  BY DEF IsList
<1>6. IsList(t, 8)  BY <1>1 DEF IsList
<1> HIDE DEF t
<1>7. /\ Makes(s[1], t[1], lens[1]) /\ Makes(s[2], t[2], lens[2])
      /\ Makes(s[3], t[3], lens[3]) /\ Makes(s[4], t[4], lens[4])
      /\ Makes(s[5], t[5], lens[5]) /\ Makes(s[6], t[6], lens[6])
      /\ Makes(s[7], t[7], lens[7]) /\ Makes(s[8], t[8], lens[8])
  <2>1. Makes(s[1], t[1], lens[1])  BY <1>3, <1>4, <1>f1, <1>f2, VectorMakes
  <2>2. Makes(s[2], t[2], lens[2])  BY <1>3, <1>4, <1>f1, <1>f2, VectorMakes
  <2>3. Makes(s[3], t[3], lens[3])  BY <1>3, <1>4, <1>f1, <1>f2, ScalarMakes
  <2>4. Makes(s[4], t[4], lens[4])  BY <1>3, <1>4, <1>f1, <1>f2, ScalarMakes
  <2>5. Makes(s[5], t[5], lens[5])  BY <1>3, <1>4, <1>f1, <1>f2, ScalarMakes
  <2>6. Makes(s[6], t[6], lens[6])  BY <1>3, <1>4, <1>f1, <1>f2, TypedMakes
  <2>7. Makes(s[7], t[7], lens[7])  BY <1>3, <1>4, <1>f1, <1>f2, TypedMakes
  <2>8. Makes(s[8], t[8], lens[8])  BY <1>3, <1>4, <1>f1, <1>f2, TypedMakes
  <2> QED  BY <2>1, <2>2, <2>3, <2>4, <2>5, <2>6, <2>7, <2>8
<1>8. Total(lens) = Payload!modifyContractSchema(c, e, v)
  BY <1>5, <1>f1, <1>f2 DEF Total, Part, Payload!modifyContractSchema, Payload!ByteSize, Payload!KeySize, Payload!BaseInt64Size, Payload!Hash256
<1> HIDE DEF s, lens
<1>9. \A i \in 1..Len(lens) : Makes(s[i], t[i], lens[i])
  <2>1. \A i \in 1..8 : i = 1 \/ i = 2 \/ i = 3 \/ i = 4 \/ i = 5 \/ i = 6 \/ i = 7 \/ i = 8  OBVIOUS
  <2> QED  BY <1>5, <1>7, <2>1
<1>10. Sized(s, t, Total(lens))
  <2>1. /\ Len(lens) \in Nat /\ Len(lens) <= 8 /\ IsList(s, Len(lens))
        /\ IsList(t, Len(lens)) /\ IsList(lens, Len(lens))
    BY <1>5, <1>6
  <2> QED  BY <1>9, <2>1, BodyOf DEF Sized
<1> QED  BY <1>8, <1>10 DEF s, t, values

(* registerNamespaceTransactionSchema.                                     *)
LEMMA RegisterNamespaceBody ==
    ASSUME NEW name \in Nat
    PROVE  Sized(<<scalarAttribute(ByteSize), arrayAttribute(IntSize),
                   arrayAttribute(IntSize), scalarAttribute(ByteSize),
                   arrayAttribute(ByteSize)>>,
                 Build(RegisterNamespaceTransactionBuffer,
                       [namespaceType |-> 1, durationParentId |-> Uint32Vector,
                        namespaceId |-> Uint32Vector, namespaceNameSize |-> name,
                        namespaceName |-> ByteVector(name)]),
                 Payload!registerNamespaceSchema(name))
<1> DEFINE b == RegisterNamespaceTransactionBuffer
           values == [namespaceType |-> 1, durationParentId |-> Uint32Vector,
                      namespaceId |-> Uint32Vector, namespaceNameSize |-> name,
                      namespaceName |-> ByteVector(name)]
           s == <<scalarAttribute(ByteSize), arrayAttribute(IntSize),
                  arrayAttribute(IntSize), scalarAttribute(ByteSize),
                  arrayAttribute(ByteSize)>>
           t == Build(b, values)
           lens == <<1, 8, 8, 1, name>>
<1>1. t = [i \in 1..5 |-> SlotOf(b[i], values)]  BY BuildOf DEF RegisterNamespaceTransactionBuffer
<1>2. /\ values["namespaceType"] = 1 /\ values["durationParentId"] = Uint32Vector
      /\ values["namespaceId"] = Uint32Vector /\ values["namespaceNameSize"] = name
      /\ values["namespaceName"] = ByteVector(name)
  OBVIOUS
<1>3. /\ "namespaceType" \in SlotNames /\ "durationParentId" \in SlotNames
      /\ "namespaceId" \in SlotNames /\ "namespaceNameSize" \in SlotNames
      /\ "namespaceName" \in SlotNames
  BY DEF SlotNames
<1> HIDE DEF values
<1>4. /\ t[1] = ByteSlot("namespaceType", 1)
      /\ t[2] = ObjectSlot("durationParentId", Uint32Vector)
      /\ t[3] = ObjectSlot("namespaceId", Uint32Vector)
      /\ t[4] = ByteSlot("namespaceNameSize", name)
      /\ t[5] = ObjectSlot("namespaceName", ByteVector(name))
  <2>1. /\ t[1] = SlotOf(Byte("namespaceType"), values)
        /\ t[2] = SlotOf(UOffsetT("durationParentId"), values)
        /\ t[3] = SlotOf(UOffsetT("namespaceId"), values)
        /\ t[4] = SlotOf(Byte("namespaceNameSize"), values)
        /\ t[5] = SlotOf(UOffsetT("namespaceName"), values)
    BY <1>1 DEF RegisterNamespaceTransactionBuffer
  <2> QED  BY <1>2, <2>1, SlotKinds
<1>5. Len(lens) = 5 /\ IsList(s, 5) /\ IsList(lens, 5)  BY DEF IsList
<1>6. IsList(t, 5)  BY <1>1 DEF IsList
<1> HIDE DEF t
<1>7. /\ Makes(s[1], t[1], lens[1]) /\ Makes(s[2], t[2], lens[2])
      /\ Makes(s[3], t[3], lens[3]) /\ Makes(s[4], t[4], lens[4])
      /\ Makes(s[5], t[5], lens[5])
  BY <1>3, <1>4, ScalarMakes, VectorMakes
<1>8. Total(lens) = Payload!registerNamespaceSchema(name)
  BY <1>5 DEF Total, Part, Payload!registerNamespaceSchema, Payload!ByteSize, Payload!BaseInt64Size
<1> HIDE DEF s, lens
<1>9. \A i \in 1..Len(lens) : Makes(s[i], t[i], lens[i])
  <2>1. \A i \in 1..5 : i = 1 \/ i = 2 \/ i = 3 \/ i = 4 \/ i = 5  OBVIOUS
  <2> QED  BY <1>5, <1>7, <2>1
<1>10. Sized(s, t, Total(lens))
  <2>1. /\ Len(lens) \in Nat /\ Len(lens) <= 8 /\ IsList(s, Len(lens))
        /\ IsList(t, Len(lens)) /\ IsList(lens, Len(lens))
    BY <1>5, <1>6
  <2> QED  BY <1>9, <2>1, BodyOf DEF Sized
<1> QED  BY <1>8, <1>10 DEF s, t, values

(* lockFundsTransactionSchema.                                             *)
LEMMA LockFundsBody ==
    Sized(<<arrayAttribute(IntSize), arrayAttribute(IntSize), arrayAttribute(IntSize),
            arrayAttribute(ByteSize)>>,
          Build(LockFundsTransactionBuffer,
                [mosaicId |-> Uint32Vector, mosaicAmount |-> Uint32Vector,
                 duration |-> Uint32Vector, hash |-> Hash]),
          Payload!lockFundsSchema)
<1> DEFINE b == LockFundsTransactionBuffer
           values == [mosaicId |-> Uint32Vector, mosaicAmount |-> Uint32Vector,
                      duration |-> Uint32Vector, hash |-> Hash]
           s == <<arrayAttribute(IntSize), arrayAttribute(IntSize),
                  arrayAttribute(IntSize), arrayAttribute(ByteSize)>>
           t == Build(b, values)
           lens == <<8, 8, 8, 32>>
<1>f1. Hash = ByteVector(32)  BY DEF Hash, Payload!Hash256
<1>f2. 32 \in Nat /\ 25 \in Nat  OBVIOUS
<1>1. t = [i \in 1..4 |-> SlotOf(b[i], values)]  BY BuildOf DEF LockFundsTransactionBuffer
<1>2. /\ values["mosaicId"] = Uint32Vector /\ values["mosaicAmount"] = Uint32Vector
      /\ values["duration"] = Uint32Vector /\ values["hash"] = Hash
  OBVIOUS
<1>3. /\ "mosaicId" \in SlotNames /\ "mosaicAmount" \in SlotNames
      /\ "duration" \in SlotNames /\ "hash" \in SlotNames
  BY DEF SlotNames
<1> HIDE DEF values
<1>4. /\ t[1] = ObjectSlot("mosaicId", Uint32Vector)
      /\ t[2] = ObjectSlot("mosaicAmount", Uint32Vector)
      /\ t[3] = ObjectSlot("duration", Uint32Vector) /\ t[4] = ObjectSlot("hash", Hash)
  <2>1. /\ t[1] = SlotOf(UOffsetT("mosaicId"), values)
        /\ t[2] = SlotOf(UOffsetT("mosaicAmount"), values)
        /\ t[3] = SlotOf(UOffsetT("duration"), values)
        /\ t[4] = SlotOf(UOffsetT("hash"), values)
    BY <1>1 DEF LockFundsTransactionBuffer
  <2> QED  BY <1>2, <2>1, SlotKinds
<1>5. Len(lens) = 4 /\ IsList(s, 4) /\ IsList(lens, 4)  BY DEF IsList
<1>6. IsList(t, 4)  BY <1>1 DEF IsList
<1> HIDE DEF t
<1>7. /\ Makes(s[1], t[1], lens[1]) /\ Makes(s[2], t[2], lens[2])
      /\ Makes(s[3], t[3], lens[3]) /\ Makes(s[4], t[4], lens[4])
  BY <1>3, <1>4, <1>f1, <1>f2, ScalarMakes, VectorMakes
<1>8. Total(lens) = Payload!lockFundsSchema
  BY <1>5, <1>f1, <1>f2 DEF Total, Part, Payload!lockFundsSchema, Payload!BaseInt64Size, Payload!Hash256
<1> HIDE DEF s, lens
<1>9. \A i \in 1..Len(lens) : Makes(s[i], t[i], lens[i])
  <2>1. \A i \in 1..4 : i = 1 \/ i = 2 \/ i = 3 \/ i = 4  OBVIOUS
  <2> QED  BY <1>5, <1>7, <2>1
<1>10. Sized(s, t, Total(lens))
  <2>1. /\ Len(lens) \in Nat /\ Len(lens) <= 8 /\ IsList(s, Len(lens))
        /\ IsList(t, Len(lens)) /\ IsList(lens, Len(lens))
    BY <1>5, <1>6
  <2> QED  BY <1>9, <2>1, BodyOf DEF Sized
<1> QED  BY <1>8, <1>10 DEF s, t, values

(* secretLockTransactionSchema.                                            *)
LEMMA SecretLockBody ==
    Sized(<<arrayAttribute(IntSize), arrayAttribute(IntSize), arrayAttribute(IntSize),
            scalarAttribute(ByteSize), arrayAttribute(ByteSize), arrayAttribute(ByteSize)>>,
          Build(SecretLockTransactionBuffer,
                [mosaicId |-> Uint32Vector, mosaicAmount |-> Uint32Vector,
                 duration |-> Uint32Vector, hashAlgorithm |-> 1, secret |-> Hash,
                 recipient |-> Address]),
          Payload!secretLockSchema)
<1> DEFINE b == SecretLockTransactionBuffer
           values == [mosaicId |-> Uint32Vector, mosaicAmount |-> Uint32Vector,
                      duration |-> Uint32Vector, hashAlgorithm |-> 1, secret |-> Hash,
                      recipient |-> Address]
           s == <<arrayAttribute(IntSize), arrayAttribute(IntSize),
                  arrayAttribute(IntSize), scalarAttribute(ByteSize),
                  arrayAttribute(ByteSize), arrayAttribute(ByteSize)>>
           t == Build(b, values)
           lens == <<8, 8, 8, 1, 32, 25>>
<1>f1. Hash = ByteVector(32)  BY DEF Hash, Payload!Hash256
<1>f2. Address = ByteVector(25)  BY DEF Address, Payload!AddressSize
<1>f3. 32 \in Nat /\ 25 \in Nat  OBVIOUS
<1>1. t = [i \in 1..6 |-> SlotOf(b[i], values)]  BY BuildOf DEF SecretLockTransactionBuffer
<1>2. /\ values["mosaicId"] = Uint32Vector /\ values["mosaicAmount"] = Uint32Vector
      /\ values["duration"] = Uint32Vector /\ values["hashAlgorithm"] = 1
      /\ values["secret"] = Hash /\ values["recipient"] = Address
  OBVIOUS
<1>3. /\ "mosaicId" \in SlotNames /\ "mosaicAmount" \in SlotNames
      /\ "duration" \in SlotNames /\ "hashAlgorithm" \in SlotNames
      /\ "secret" \in SlotNames /\ "recipient" \in SlotNames
  BY DEF SlotNames
<1> HIDE DEF values
<1>4. /\ t[1] = ObjectSlot("mosaicId", Uint32Vector)
      /\ t[2] = ObjectSlot("mosaicAmount", Uint32Vector)
      /\ t[3] = ObjectSlot("duration", Uint32Vector)
      /\ t[4] = ByteSlot("hashAlgorithm", 1) /\ t[5] = ObjectSlot("secret", Hash)
      /\ t[6] = ObjectSlot("recipient", Address)
  <2>1. /\ t[1] = SlotOf(UOffsetT("mosaicId"), values)
        /\ t[2] = SlotOf(UOffsetT("mosaicAmount"), values)
        /\ t[3] = SlotOf(UOffsetT("duration"), values)
        /\ t[4] = SlotOf(Byte("hashAlgorithm"), values)
        /\ t[5] = SlotOf(UOffsetT("secret"), values)
        /\ t[6] = SlotOf(UOffsetT("recipient"), values)
    BY <1>1 DEF SecretLockTransactionBuffer
  <2> QED  BY <1>2, <2>1, SlotKinds
<1>5. Len(lens) = 6 /\ IsList(s, 6) /\ IsList(lens, 6)  BY DEF IsList
<1>6. IsList(t, 6)  BY <1>1 DEF IsList
<1> HIDE DEF t
<1>7. /\ Makes(s[1], t[1], lens[1]) /\ Makes(s[2], t[2], lens[2])
      /\ Makes(s[3], t[3], lens[3]) /\ Makes(s[4], t[4], lens[4])
      /\ Makes(s[5], t[5], lens[5]) /\ Makes(s[6], t[6], lens[6])
  BY <1>3, <1>4, <1>f1, <1>f2, <1>f3, ScalarMakes, VectorMakes
<1>8. Total(lens) = Payload!secretLockSchema
  BY <1>5, <1>f1, <1>f2, <1>f3 DEF Total, Part, Payload!secretLockSchema, Payload!BaseInt64Size, Payload!Hash256, Payload!AddressSize
<1> HIDE DEF s, lens
<1>9. \A i \in 1..Len(lens) : Makes(s[i], t[i], lens[i])
  <2>1. \A i \in 1..6 : i = 1 \/ i = 2 \/ i = 3 \/ i = 4 \/ i = 5 \/ i = 6  OBVIOUS
  <2> QED  BY <1>5, <1>7, <2>1
<1>10. Sized(s, t, Total(lens))
  <2>1. /\ Len(lens) \in Nat /\ Len(lens) <= 8 /\ IsList(s, Len(lens))
        /\ IsList(t, Len(lens)) /\ IsList(lens, Len(lens))
    BY <1>5, <1>6
  <2> QED  BY <1>9, <2>1, BodyOf DEF Sized
<1> QED  BY <1>8, <1>10 DEF s, t, values

(* secretProofTransactionSchema.                                           *)
LEMMA SecretProofBody ==
    ASSUME NEW proof \in Nat
    PROVE  Sized(<<scalarAttribute(ByteSize), arrayAttribute(ByteSize),
                   arrayAttribute(ByteSize), scalarAttribute(ShortSize),
                   arrayAttribute(ByteSize)>>,
                 Build(SecretProofTransactionBuffer,
                       [hashAlgorithm |-> 1, secret |-> Hash, recipient |-> Address,
                        proofSize |-> proof, proof |-> ByteVector(proof)]),
                 Payload!secretProofSchema(proof))
<1> DEFINE b == SecretProofTransactionBuffer
           values == [hashAlgorithm |-> 1, secret |-> Hash, recipient |-> Address,
                      proofSize |-> proof, proof |-> ByteVector(proof)]
           s == <<scalarAttribute(ByteSize), arrayAttribute(ByteSize),
                  arrayAttribute(ByteSize), scalarAttribute(ShortSize),
                  arrayAttribute(ByteSize)>>
           t == Build(b, values)
           lens == <<1, 32, 25, Payload!ShortSize(proof), proof>>
<1>f1. Hash = ByteVector(32)  BY DEF Hash, Payload!Hash256
<1>f2. Address = ByteVector(25)  BY DEF Address, Payload!AddressSize
<1>f3. 32 \in Nat /\ 25 \in Nat  OBVIOUS
<1>f4. Payload!ShortSize(proof) \in Nat  BY DEF Payload!ShortSize
<1>1. t = [i \in 1..5 |-> SlotOf(b[i], values)]  BY BuildOf DEF SecretProofTransactionBuffer
<1>2. /\ values["hashAlgorithm"] = 1 /\ values["secret"] = Hash
      /\ values["recipient"] = Address /\ values["proofSize"] = proof
      /\ values["proof"] = ByteVector(proof)
  OBVIOUS
<1>3. /\ "hashAlgorithm" \in SlotNames /\ "secret" \in SlotNames
      /\ "recipient" \in SlotNames /\ "proofSize" \in SlotNames /\ "proof" \in SlotNames
  BY DEF SlotNames
<1> HIDE DEF values
<1>4. /\ t[1] = ByteSlot("hashAlgorithm", 1) /\ t[2] = ObjectSlot("secret", Hash)
      /\ t[3] = ObjectSlot("recipient", Address) /\ t[4] = ShortSlot("proofSize", proof)
      /\ t[5] = ObjectSlot("proof", ByteVector(proof))
  <2>1. /\ t[1] = SlotOf(Byte("hashAlgorithm"), values)
        /\ t[2] = SlotOf(UOffsetT("secret"), values)
        /\ t[3] = SlotOf(UOffsetT("recipient"), values)
        /\ t[4] = SlotOf(Uint16("proofSize"), values)
        /\ t[5] = SlotOf(UOffsetT("proof"), values)
    BY <1>1 DEF SecretProofTransactionBuffer
  <2> QED  BY <1>2, <2>1, SlotKinds
<1>5. Len(lens) = 5 /\ IsList(s, 5) /\ IsList(lens, 5)  BY DEF IsList
<1>6. IsList(t, 5)  BY <1>1 DEF IsList
<1> HIDE DEF t
<1>7. /\ Makes(s[1], t[1], lens[1]) /\ Makes(s[2], t[2], lens[2])
      /\ Makes(s[3], t[3], lens[3]) /\ Makes(s[4], t[4], lens[4])
      /\ Makes(s[5], t[5], lens[5])
  BY <1>3, <1>4, <1>f1, <1>f2, <1>f3, <1>f4, ScalarMakes, VectorMakes
<1>8. Total(lens) = Payload!secretProofSchema(proof)
  BY <1>5, <1>f1, <1>f2, <1>f3, <1>f4 DEF Total, Part, Payload!secretProofSchema, Payload!Hash256, Payload!AddressSize
<1> HIDE DEF s, lens
<1>9. \A i \in 1..Len(lens) : Makes(s[i], t[i], lens[i])
  <2>1. \A i \in 1..5 : i = 1 \/ i = 2 \/ i = 3 \/ i = 4 \/ i = 5  OBVIOUS
  <2> QED  BY <1>5, <1>7, <2>1
<1>10. Sized(s, t, Total(lens))
  <2>1. /\ Len(lens) \in Nat /\ Len(lens) <= 8 /\ IsList(s, Len(lens))
        /\ IsList(t, Len(lens)) /\ IsList(lens, Len(lens))
    BY <1>5, <1>6
  <2> QED  BY <1>9, <2>1, BodyOf DEF Sized
<1> QED  BY <1>8, <1>10 DEF s, t, values

(* The sizes of TxPayload.                                                 *)
LEMMA PayloadSizes ==
    /\ Payload!TransactionHeaderSize = 122 /\ Payload!BaseInt64Size = 8
    /\ Payload!KeySize = 32 /\ Payload!Hash256 = 32 /\ Payload!AddressSize = 25
    /\ Payload!SizeSize = 4 /\ Payload!OmittedSize = 80 /\ Payload!CosignatureSize = 96
    /\ 25 \in Nat /\ 8 \in Nat /\ 2 \in Nat
BY DEF Payload!TransactionHeaderSize, Payload!BaseInt64Size, Payload!KeySize, Payload!Hash256,
       Payload!AddressSize, Payload!SizeSize, Payload!SignerSize, Payload!SignatureSize,
       Payload!OmittedSize, Payload!CosignatureSize

(***************************************************************************)
(* Every type of transaction.                                              *)
(***************************************************************************)
LEMMA AccountPropertiesAddressTransactionFaithful ==
    ASSUME NEW n \in Nat
    PROVE  Faithful(AccountPropertiesAddressTransaction(n),
                    Payload!AccountPropertiesAddressTransaction(n))
<1> DEFINE type == Payload!AccountPropertiesAddressTransaction(n)
           s == <<scalarAttribute(ByteSize), scalarAttribute(ByteSize),
                  tableArrayAttribute(typedValueSchema)>>
           values == [propertyType |-> 1, modificationCount |-> n,
                      modifications |-> PropertyModifications(n, 25)]
<1>1. /\ type.bytes = 122 + Payload!accountPropertySchema(n, 25)
      /\ type.size \in Nat /\ type.size >= 122 /\ type.kind \in {"plain", "versioning"}
  BY PayloadSizes DEF Payload!AccountPropertiesAddressTransaction, Payload!Tx
<1>2. Sized(s, Build(AccountPropertiesTransactionBuffer, values), Payload!accountPropertySchema(n, 25))
  BY AccountPropertiesBody, PayloadSizes
<1>3. AccountPropertiesAddressTransaction(n)
          = generateBytes(type, AccountPropertiesTransactionBuffer, headerSchema \o s, values)
  BY DEF AccountPropertiesAddressTransaction, AccountProperties, accountPropertyTransactionSchema,
         PropertyModifications, Address, Payload!AddressSize
<1> HIDE DEF type, s, values
<1>4. Faithful(generateBytes(type, AccountPropertiesTransactionBuffer, headerSchema \o s, values), type)
  BY <1>1, <1>2, Generated DEF Sized
<1> QED  BY <1>3, <1>4 DEF type

(* Account properties: mosaics.                                            *)
LEMMA AccountPropertiesMosaicTransactionFaithful ==
    ASSUME NEW n \in Nat
    PROVE  Faithful(AccountPropertiesMosaicTransaction(n),
                    Payload!AccountPropertiesMosaicTransaction(n))
<1> DEFINE type == Payload!AccountPropertiesMosaicTransaction(n)
           s == <<scalarAttribute(ByteSize), scalarAttribute(ByteSize),
                  tableArrayAttribute(typedValueSchema)>>
           values == [propertyType |-> 1, modificationCount |-> n,
                      modifications |-> PropertyModifications(n, 8)]
<1>1. /\ type.bytes = 122 + Payload!accountPropertySchema(n, 8)
      /\ type.size \in Nat /\ type.size >= 122 /\ type.kind \in {"plain", "versioning"}
  BY PayloadSizes DEF Payload!AccountPropertiesMosaicTransaction, Payload!Tx
<1>2. Sized(s, Build(AccountPropertiesTransactionBuffer, values), Payload!accountPropertySchema(n, 8))
  BY AccountPropertiesBody, PayloadSizes
<1>3. AccountPropertiesMosaicTransaction(n)
          = generateBytes(type, AccountPropertiesTransactionBuffer, headerSchema \o s, values)
  BY DEF AccountPropertiesMosaicTransaction, AccountProperties, accountPropertyTransactionSchema,
         PropertyModifications
<1> HIDE DEF type, s, values
<1>4. Faithful(generateBytes(type, AccountPropertiesTransactionBuffer, headerSchema \o s, values), type)
  BY <1>1, <1>2, Generated DEF Sized
<1> QED  BY <1>3, <1>4 DEF type

(* Account properties: transaction types.                                  *)
LEMMA AccountPropertiesEntityTypeTransactionFaithful ==
    ASSUME NEW n \in Nat
    PROVE  Faithful(AccountPropertiesEntityTypeTransaction(n),
                    Payload!AccountPropertiesEntityTypeTransaction(n))
<1> DEFINE type == Payload!AccountPropertiesEntityTypeTransaction(n)
           s == <<scalarAttribute(ByteSize), scalarAttribute(ByteSize),
                  tableArrayAttribute(typedValueSchema)>>
           values == [propertyType |-> 1, modificationCount |-> n,
                      modifications |-> PropertyModifications(n, 2)]
<1>1. /\ type.bytes = 122 + Payload!accountPropertySchema(n, 2)
      /\ type.size \in Nat /\ type.size >= 122 /\ type.kind \in {"plain", "versioning"}
  BY PayloadSizes DEF Payload!AccountPropertiesEntityTypeTransaction, Payload!Tx
<1>2. Sized(s, Build(AccountPropertiesTransactionBuffer, values), Payload!accountPropertySchema(n, 2))
  BY AccountPropertiesBody, PayloadSizes
<1>3. AccountPropertiesEntityTypeTransaction(n)
          = generateBytes(type, AccountPropertiesTransactionBuffer, headerSchema \o s, values)
  BY DEF AccountPropertiesEntityTypeTransaction, AccountProperties, accountPropertyTransactionSchema,
         PropertyModifications
<1> HIDE DEF type, s, values
<1>4. Faithful(generateBytes(type, AccountPropertiesTransactionBuffer, headerSchema \o s, values), type)
  BY <1>1, <1>2, Generated DEF Sized
<1> QED  BY <1>3, <1>4 DEF type

(* An alias for an address.                                                *)
LEMMA AddressAliasTransactionFaithful ==
    Faithful(AddressAliasTransaction, Payload!AddressAliasTransaction)
<1> DEFINE type == Payload!AddressAliasTransaction
           s == <<scalarAttribute(ByteSize), arrayAttribute(IntSize),
                  arrayAttribute(ByteSize)>>
           values == [actionType |-> 1, namespaceId |-> Uint32Vector,
                      aliasId |-> ByteVector(25)]
<1>1. /\ type.bytes = 122 + Payload!aliasSchema(25)
      /\ type.size \in Nat /\ type.size >= 122 /\ type.kind \in {"plain", "versioning"}
  BY PayloadSizes DEF Payload!AddressAliasTransaction, Payload!AliasTransactionSize, Payload!Tx
<1>2. Sized(s, Build(AliasTransactionBuffer, values), Payload!aliasSchema(25))
  BY AliasBody
<1>3. AddressAliasTransaction
          = generateBytes(type, AliasTransactionBuffer, headerSchema \o s, values)
  BY DEF AddressAliasTransaction, AliasTransaction, aliasTransactionSchema, Address, Payload!AddressSize
<1> HIDE DEF type, s, values
<1>4. Faithful(generateBytes(type, AliasTransactionBuffer, headerSchema \o s, values), type)
  BY <1>1, <1>2, Generated DEF Sized
<1> QED  BY <1>3, <1>4 DEF type

(* An alias for a mosaic.                                                  *)
LEMMA MosaicAliasTransactionFaithful ==
    Faithful(MosaicAliasTransaction, Payload!MosaicAliasTransaction)
<1> DEFINE type == Payload!MosaicAliasTransaction
           s == <<scalarAttribute(ByteSize), arrayAttribute(IntSize),
                  arrayAttribute(ByteSize)>>
           values == [actionType |-> 1, namespaceId |-> Uint32Vector,
                      aliasId |-> ByteVector(8)]
<1>1. /\ type.bytes = 122 + Payload!aliasSchema(8)
      /\ type.size \in Nat /\ type.size >= 122 /\ type.kind \in {"plain", "versioning"}
  BY PayloadSizes DEF Payload!MosaicAliasTransaction, Payload!AliasTransactionSize, Payload!Tx
<1>2. Sized(s, Build(AliasTransactionBuffer, values), Payload!aliasSchema(8))
  BY AliasBody
<1>3. MosaicAliasTransaction
          = generateBytes(type, AliasTransactionBuffer, headerSchema \o s, values)
  BY DEF MosaicAliasTransaction, AliasTransaction, aliasTransactionSchema
<1> HIDE DEF type, s, values
<1>4. Faithful(generateBytes(type, AliasTransactionBuffer, headerSchema \o s, values), type)
  BY <1>1, <1>2, Generated DEF Sized
<1> QED  BY <1>3, <1>4 DEF type

(* A link to a remote account.                                             *)
LEMMA AccountLinkTransactionFaithful ==
    Faithful(AccountLinkTransaction, Payload!AccountLinkTransaction)
<1> DEFINE type == Payload!AccountLinkTransaction
           s == <<arrayAttribute(ByteSize), scalarAttribute(ByteSize)>>
           values == [remoteAccountKey |-> Key, linkAction |-> 1]
<1>1. /\ type.bytes = 122 + Payload!accountLinkSchema
      /\ type.size \in Nat /\ type.size >= 122 /\ type.kind \in {"plain", "versioning"}
  BY PayloadSizes DEF Payload!AccountLinkTransaction, Payload!Tx
<1>2. Sized(s, Build(AccountLinkTransactionBuffer, values), Payload!accountLinkSchema)
  BY AccountLinkBody
<1>3. AccountLinkTransaction
          = generateBytes(type, AccountLinkTransactionBuffer, headerSchema \o s, values)
  BY DEF AccountLinkTransaction, accountLinkTransactionSchema
<1> HIDE DEF type, s, values
<1>4. Faithful(generateBytes(type, AccountLinkTransactionBuffer, headerSchema \o s, values), type)
  BY <1>1, <1>2, Generated DEF Sized
<1> QED  BY <1>3, <1>4 DEF type

(* A network configuration.                                                *)
LEMMA NetworkConfigTransactionFaithful ==
    ASSUME NEW config \in Nat, NEW entities \in Nat
    PROVE  Faithful(NetworkConfigTransaction(config, entities),
                    Payload!NetworkConfigTransaction(config, entities))
<1> DEFINE type == Payload!NetworkConfigTransaction(config, entities)
           s == <<arrayAttribute(IntSize), scalarAttribute(ShortSize),
                  scalarAttribute(ShortSize), arrayAttribute(ByteSize),
                  arrayAttribute(ByteSize)>>
           values == [applyHeightDelta |-> Uint32Vector, networkConfigSize |-> config,
                      networkConfig |-> ByteVector(config),
                      supportedEntityVersionsSize |-> entities,
                      supportedEntityVersions |-> ByteVector(entities)]
<1>1. /\ type.bytes = 122 + Payload!networkConfigSchema(config, entities)
      /\ type.size \in Nat /\ type.size >= 122 /\ type.kind \in {"plain", "versioning"}
  BY PayloadSizes DEF Payload!NetworkConfigTransaction, Payload!Versioning
<1>2. Sized(s, Build(NetworkConfigTransactionBuffer, values), Payload!networkConfigSchema(config, entities))
  BY NetworkConfigBody
<1>3. NetworkConfigTransaction(config, entities)
          = generateBytes(type, NetworkConfigTransactionBuffer, headerSchema \o s, values)
  BY DEF NetworkConfigTransaction, networkConfigTransactionSchema
<1> HIDE DEF type, s, values
<1>4. Faithful(generateBytes(type, NetworkConfigTransactionBuffer, headerSchema \o s, values), type)
  BY <1>1, <1>2, Generated DEF Sized
<1> QED  BY <1>3, <1>4 DEF type

(* An upgrade of the chain.                                                *)
LEMMA BlockchainUpgradeTransactionFaithful ==
    Faithful(BlockchainUpgradeTransaction, Payload!BlockchainUpgradeTransaction)
<1> DEFINE type == Payload!BlockchainUpgradeTransaction
           s == <<arrayAttribute(IntSize), arrayAttribute(IntSize)>>
           values == [upgradePeriod |-> Uint32Vector,
                      newBlockChainVersion |-> Uint32Vector]
<1>1. /\ type.bytes = 122 + Payload!blockchainUpgradeSchema
      /\ type.size \in Nat /\ type.size >= 122 /\ type.kind \in {"plain", "versioning"}
  BY PayloadSizes DEF Payload!BlockchainUpgradeTransaction, Payload!Versioning
<1>2. Sized(s, Build(BlockchainUpgradeTransactionBuffer, values), Payload!blockchainUpgradeSchema)
  BY BlockchainUpgradeBody
<1>3. BlockchainUpgradeTransaction
          = generateBytes(type, BlockchainUpgradeTransactionBuffer, headerSchema \o s, values)
  BY DEF BlockchainUpgradeTransaction, blockchainUpgradeTransactionSchema
<1> HIDE DEF type, s, values
<1>4. Faithful(generateBytes(type, BlockchainUpgradeTransactionBuffer, headerSchema \o s, values), type)
  BY <1>1, <1>2, Generated DEF Sized
<1> QED  BY <1>3, <1>4 DEF type

(* Metadata of an address, a mosaic or a namespace.                        *)
LEMMA ModifyMetadataTransactionFaithful ==
    ASSUME NEW id \in Nat, NEW n \in Nat, NEW key \in Nat, NEW value \in Nat
    PROVE  Faithful(ModifyMetadataTransaction(id, n, key, value),
                    Payload!ModifyMetadataTransaction(id, n, key, value))
<1> DEFINE type == Payload!ModifyMetadataTransaction(id, n, key, value)
           s == <<scalarAttribute(ByteSize), arrayAttribute(ByteSize),
                  tableArrayAttribute(modificationSchema)>>
           values == [metadataType |-> 1, metadataId |-> ByteVector(id),
                      modifications |-> MetadataModifications(n, key, value)]
<1>1. /\ type.bytes = 122 + Payload!modifyMetadataSchema(id, n, key, value)
      /\ type.size \in Nat /\ type.size >= 122 /\ type.kind \in {"plain", "versioning"}
  BY PayloadSizes DEF Payload!ModifyMetadataTransaction, Payload!Tx, Payload!MetadataModificationsSize
<1>2. Sized(s, Build(ModifyMetadataTransactionBuffer, values), Payload!modifyMetadataSchema(id, n, key, value))
  BY ModifyMetadataBody
<1>3. ModifyMetadataTransaction(id, n, key, value)
          = generateBytes(type, ModifyMetadataTransactionBuffer, headerSchema \o s, values)
  BY DEF ModifyMetadataTransaction, modifyMetadataTransactionSchema, modificationSchema
<1> HIDE DEF type, s, values
<1>4. Faithful(generateBytes(type, ModifyMetadataTransactionBuffer, headerSchema \o s, values), type)
  BY <1>1, <1>2, Generated DEF Sized
<1> QED  BY <1>3, <1>4 DEF type

(* The definition of a mosaic.                                             *)
LEMMA MosaicDefinitionTransactionFaithful ==
    ASSUME NEW nonce \in Nat, NEW n \in Nat
    PROVE  Faithful(MosaicDefinitionTransaction(nonce, n),
                    Payload!MosaicDefinitionTransaction(nonce, n))
<1> DEFINE type == Payload!MosaicDefinitionTransaction(nonce, n)
           s == <<scalarAttribute(IntSize), arrayAttribute(IntSize),
                  scalarAttribute(ByteSize), scalarAttribute(ByteSize),
                  scalarAttribute(ByteSize), tableArrayAttribute(propertySchema)>>
           values == [mosaicNonce |-> nonce, mosaicId |-> Uint32Vector, flags |-> 1,
                      divisibility |-> 1, numOptionalProperties |-> n,
                      optionalProperties |-> MosaicProperties(n)]
<1>1. /\ type.bytes = 122 + Payload!mosaicDefinitionSchema(nonce, n)
      /\ type.size \in Nat /\ type.size >= 122 /\ type.kind \in {"plain", "versioning"}
  BY PayloadSizes DEF Payload!MosaicDefinitionTransaction, Payload!Tx
<1>2. Sized(s, Build(MosaicDefinitionTransactionBuffer, values), Payload!mosaicDefinitionSchema(nonce, n))
  BY MosaicDefinitionBody
<1>3. MosaicDefinitionTransaction(nonce, n)
          = generateBytes(type, MosaicDefinitionTransactionBuffer, headerSchema \o s, values)
  BY DEF MosaicDefinitionTransaction, mosaicDefinitionTransactionSchema, propertySchema
<1> HIDE DEF type, s, values
<1>4. Faithful(generateBytes(type, MosaicDefinitionTransactionBuffer, headerSchema \o s, values), type)
  BY <1>1, <1>2, Generated DEF Sized
<1> QED  BY <1>3, <1>4 DEF type

(* A change of a mosaic's supply.                                          *)
LEMMA MosaicSupplyChangeTransactionFaithful ==
    Faithful(MosaicSupplyChangeTransaction, Payload!MosaicSupplyChangeTransaction)
<1> DEFINE type == Payload!MosaicSupplyChangeTransaction
           s == <<arrayAttribute(IntSize), scalarAttribute(ByteSize),
                  arrayAttribute(IntSize)>>
           values == [mosaicId |-> Uint32Vector, direction |-> 1, delta |-> Uint32Vector]
<1>1. /\ type.bytes = 122 + Payload!mosaicSupplyChangeSchema
      /\ type.size \in Nat /\ type.size >= 122 /\ type.kind \in {"plain", "versioning"}
  BY PayloadSizes DEF Payload!MosaicSupplyChangeTransaction, Payload!Tx
<1>2. Sized(s, Build(MosaicSupplyChangeTransactionBuffer, values), Payload!mosaicSupplyChangeSchema)
  BY MosaicSupplyChangeBody
<1>3. MosaicSupplyChangeTransaction
          = generateBytes(type, MosaicSupplyChangeTransactionBuffer, headerSchema \o s, values)
  BY DEF MosaicSupplyChangeTransaction, mosaicSupplyChangeTransactionSchema
<1> HIDE DEF type, s, values
<1>4. Faithful(generateBytes(type, MosaicSupplyChangeTransactionBuffer, headerSchema \o s, values), type)
  BY <1>1, <1>2, Generated DEF Sized
<1> QED  BY <1>3, <1>4 DEF type

(* A transfer.                                                             *)
LEMMA TransferTransactionFaithful ==
    ASSUME NEW n \in Nat, NEW payload \in Nat
    PROVE  Faithful(TransferTransaction(n, payload),
                    Payload!TransferTransaction(n, payload))
<1> DEFINE type == Payload!TransferTransaction(n, payload)
           s == <<arrayAttribute(ByteSize), scalarAttribute(ShortSize),
                  scalarAttribute(ByteSize), tableAttribute(typedValueSchema),
                  tableArrayAttribute(mosaicSchema)>>
           values == [recipient |-> Address, numMosaics |-> n, messageSize |-> payload + 1,
                      message |-> Message(payload), mosaics |-> Mosaics(n)]
<1>1. /\ type.bytes = 122 + Payload!transferSchema(n, payload + 1, payload)
      /\ type.size \in Nat /\ type.size >= 122 /\ type.kind \in {"plain", "versioning"}
  BY PayloadSizes DEF Payload!TransferTransaction, Payload!Tx
<1>2. Sized(s, Build(TransferTransactionBuffer, values), Payload!transferSchema(n, payload + 1, payload))
  BY TransferBody
<1>3. TransferTransaction(n, payload)
          = generateBytes(type, TransferTransactionBuffer, headerSchema \o s, values)
  BY DEF TransferTransaction, transferTransactionSchema, mosaicSchema, Transfer, Message, Mosaics
<1> HIDE DEF type, s, values
<1>4. Faithful(generateBytes(type, TransferTransactionBuffer, headerSchema \o s, values), type)
  BY <1>1, <1>2, Generated DEF Sized
<1> QED  BY <1>3, <1>4 DEF type

(* A change of a multisig account.                                         *)
LEMMA ModifyMultisigAccountTransactionFaithful ==
    ASSUME NEW n \in Nat
    PROVE  Faithful(ModifyMultisigAccountTransaction(n),
                    Payload!ModifyMultisigAccountTransaction(n))
<1> DEFINE type == Payload!ModifyMultisigAccountTransaction(n)
           s == <<scalarAttribute(ByteSize), scalarAttribute(ByteSize),
                  scalarAttribute(ByteSize), tableArrayAttribute(typedValueSchema)>>
           values == [minRemovalDelta |-> 1, minApprovalDelta |-> 1,
                      numModifications |-> n, modifications |-> Members(n)]
<1>1. /\ type.bytes = 122 + Payload!modifyMultisigAccountSchema(n)
      /\ type.size \in Nat /\ type.size >= 122 /\ type.kind \in {"plain", "versioning"}
  BY PayloadSizes DEF Payload!ModifyMultisigAccountTransaction, Payload!Tx
<1>2. Sized(s, Build(ModifyMultisigAccountTransactionBuffer, values), Payload!modifyMultisigAccountSchema(n))
  BY ModifyMultisigAccountBody
<1>3. ModifyMultisigAccountTransaction(n)
          = generateBytes(type, ModifyMultisigAccountTransactionBuffer, headerSchema \o s, values)
  BY DEF ModifyMultisigAccountTransaction, modifyMultisigAccountTransactionSchema
<1> HIDE DEF type, s, values
<1>4. Faithful(generateBytes(type, ModifyMultisigAccountTransactionBuffer, headerSchema \o s, values), type)
  BY <1>1, <1>2, Generated DEF Sized
<1> QED  BY <1>3, <1>4 DEF type

(* A change of a contract.                                                 *)
LEMMA ModifyContractTransactionFaithful ==
    ASSUME NEW c \in Nat, NEW e \in Nat, NEW v \in Nat
    PROVE  Faithful(ModifyContractTransaction(c, e, v),
                    Payload!ModifyContractTransaction(c, e, v))
<1> DEFINE type == Payload!ModifyContractTransaction(c, e, v)
           s == <<arrayAttribute(IntSize), arrayAttribute(ByteSize),
                  scalarAttribute(ByteSize), scalarAttribute(ByteSize),
                  scalarAttribute(ByteSize), tableArrayAttribute(typedValueSchema),
                  tableArrayAttribute(typedValueSchema),
                  tableArrayAttribute(typedValueSchema)>>
           values == [durationDelta |-> Uint32Vector, hash |-> Hash, numCustomers |-> c,
                      numExecutors |-> e, numVerifiers |-> v, customers |-> Members(c),
                      executors |-> Members(e), verifiers |-> Members(v)]
<1>1. /\ type.bytes = 122 + Payload!modifyContractSchema(c, e, v)
      /\ type.size \in Nat /\ type.size >= 122 /\ type.kind \in {"plain", "versioning"}
  BY PayloadSizes DEF Payload!ModifyContractTransaction, Payload!Tx
<1>2. Sized(s, Build(ModifyContractTransactionBuffer, values), Payload!modifyContractSchema(c, e, v))
  BY ModifyContractBody
<1>3. ModifyContractTransaction(c, e, v)
          = generateBytes(type, ModifyContractTransactionBuffer, headerSchema \o s, values)
  BY DEF ModifyContractTransaction, modifyContractTransactionSchema
<1> HIDE DEF type, s, values
<1>4. Faithful(generateBytes(type, ModifyContractTransactionBuffer, headerSchema \o s, values), type)
  BY <1>1, <1>2, Generated DEF Sized
<1> QED  BY <1>3, <1>4 DEF type

(* A namespace's registration.                                             *)
LEMMA RegisterNamespaceTransactionFaithful ==
    ASSUME NEW name \in Nat
    PROVE  Faithful(RegisterNamespaceTransaction(name),
                    Payload!RegisterNamespaceTransaction(name))
<1> DEFINE type == Payload!RegisterNamespaceTransaction(name)
           s == <<scalarAttribute(ByteSize), arrayAttribute(IntSize),
                  arrayAttribute(IntSize), scalarAttribute(ByteSize),
                  arrayAttribute(ByteSize)>>
           values == [namespaceType |-> 1, durationParentId |-> Uint32Vector,
                      namespaceId |-> Uint32Vector, namespaceNameSize |-> name,
                      namespaceName |-> ByteVector(name)]
<1>1. /\ type.bytes = 122 + Payload!registerNamespaceSchema(name)
      /\ type.size \in Nat /\ type.size >= 122 /\ type.kind \in {"plain", "versioning"}
  BY PayloadSizes DEF Payload!RegisterNamespaceTransaction, Payload!Tx
<1>2. Sized(s, Build(RegisterNamespaceTransactionBuffer, values), Payload!registerNamespaceSchema(name))
  BY RegisterNamespaceBody
<1>3. RegisterNamespaceTransaction(name)
          = generateBytes(type, RegisterNamespaceTransactionBuffer, headerSchema \o s, values)
  BY DEF RegisterNamespaceTransaction, registerNamespaceTransactionSchema
<1> HIDE DEF type, s, values
<1>4. Faithful(generateBytes(type, RegisterNamespaceTransactionBuffer, headerSchema \o s, values), type)
  BY <1>1, <1>2, Generated DEF Sized
<1> QED  BY <1>3, <1>4 DEF type

(* A lock of funds.                                                        *)
LEMMA LockFundsTransactionFaithful ==
    Faithful(LockFundsTransaction, Payload!LockFundsTransaction)
<1> DEFINE type == Payload!LockFundsTransaction
           s == <<arrayAttribute(IntSize), arrayAttribute(IntSize),
                  arrayAttribute(IntSize), arrayAttribute(ByteSize)>>
           values == [mosaicId |-> Uint32Vector, mosaicAmount |-> Uint32Vector,
                      duration |-> Uint32Vector, hash |-> Hash]
<1>1. /\ type.bytes = 122 + Payload!lockFundsSchema
      /\ type.size \in Nat /\ type.size >= 122 /\ type.kind \in {"plain", "versioning"}
  BY PayloadSizes DEF Payload!LockFundsTransaction, Payload!Tx
<1>2. Sized(s, Build(LockFundsTransactionBuffer, values), Payload!lockFundsSchema)
  BY LockFundsBody
<1>3. LockFundsTransaction
          = generateBytes(type, LockFundsTransactionBuffer, headerSchema \o s, values)
  BY DEF LockFundsTransaction, lockFundsTransactionSchema
<1> HIDE DEF type, s, values
<1>4. Faithful(generateBytes(type, LockFundsTransactionBuffer, headerSchema \o s, values), type)
  BY <1>1, <1>2, Generated DEF Sized
<1> QED  BY <1>3, <1>4 DEF type

(* A secret lock.                                                          *)
LEMMA SecretLockTransactionFaithful ==
    Faithful(SecretLockTransaction, Payload!SecretLockTransaction)
<1> DEFINE type == Payload!SecretLockTransaction
           s == <<arrayAttribute(IntSize), arrayAttribute(IntSize),
                  arrayAttribute(IntSize), scalarAttribute(ByteSize),
                  arrayAttribute(ByteSize), arrayAttribute(ByteSize)>>
           values == [mosaicId |-> Uint32Vector, mosaicAmount |-> Uint32Vector,
                      duration |-> Uint32Vector, hashAlgorithm |-> 1, secret |-> Hash,
                      recipient |-> Address]
<1>1. /\ type.bytes = 122 + Payload!secretLockSchema
      /\ type.size \in Nat /\ type.size >= 122 /\ type.kind \in {"plain", "versioning"}
  BY PayloadSizes DEF Payload!SecretLockTransaction, Payload!Tx
<1>2. Sized(s, Build(SecretLockTransactionBuffer, values), Payload!secretLockSchema)
  BY SecretLockBody
<1>3. SecretLockTransaction
          = generateBytes(type, SecretLockTransactionBuffer, headerSchema \o s, values)
  BY DEF SecretLockTransaction, secretLockTransactionSchema
<1> HIDE DEF type, s, values
<1>4. Faithful(generateBytes(type, SecretLockTransactionBuffer, headerSchema \o s, values), type)
  BY <1>1, <1>2, Generated DEF Sized
<1> QED  BY <1>3, <1>4 DEF type

(* The proof of a secret.                                                  *)
LEMMA SecretProofTransactionFaithful ==
    ASSUME NEW proof \in Nat
    PROVE  Faithful(SecretProofTransaction(proof), Payload!SecretProofTransaction(proof))
<1> DEFINE type == Payload!SecretProofTransaction(proof)
           s == <<scalarAttribute(ByteSize), arrayAttribute(ByteSize),
                  arrayAttribute(ByteSize), scalarAttribute(ShortSize),
                  arrayAttribute(ByteSize)>>
           values == [hashAlgorithm |-> 1, secret |-> Hash, recipient |-> Address,
                      proofSize |-> proof, proof |-> ByteVector(proof)]
<1>1. /\ type.bytes = 122 + Payload!secretProofSchema(proof)
      /\ type.size \in Nat /\ type.size >= 122 /\ type.kind \in {"plain", "versioning"}
  BY PayloadSizes DEF Payload!SecretProofTransaction, Payload!Tx
<1>2. Sized(s, Build(SecretProofTransactionBuffer, values), Payload!secretProofSchema(proof))
  BY SecretProofBody
<1>3. SecretProofTransaction(proof)
          = generateBytes(type, SecretProofTransactionBuffer, headerSchema \o s, values)
  BY DEF SecretProofTransaction, secretProofTransactionSchema
<1> HIDE DEF type, s, values
<1>4. Faithful(generateBytes(type, SecretProofTransactionBuffer, headerSchema \o s, values), type)
  BY <1>1, <1>2, Generated DEF Sized
<1> QED  BY <1>3, <1>4 DEF type

(* What TxPayload knows of a transaction.                                  *)
Abstract(t) == [kind |-> t.kind, bytes |-> Length(t.bytes), size |-> t.size]

Standing(t) == /\ Faithful(t, Abstract(t)) /\ Abstract(t) \in Payload!Transactions

(* A transaction faithful to a type of TxPayload stands for it.            *)
LEMMA FaithfulStands ==
    ASSUME NEW t, NEW type \in Payload!Transactions, Faithful(t, type),
           type = [kind |-> type.kind, bytes |-> type.bytes, size |-> type.size]
    PROVE  Standing(t)
<1>1. type = Abstract(t)  BY DEF Faithful, Abstract
<1> QED  BY <1>1 DEF Standing

(* Every transaction stands for one of TxPayload's.                        *)
LEMMA AllStand ==
    ASSUME NEW t \in Transactions
    PROVE  Standing(t)
<1> DEFINE Record(type) == type = [kind |-> type.kind, bytes |-> type.bytes, size |-> type.size]
<1>1. \A body, size : Record(Payload!Tx(body, size)) /\ Record(Payload!Versioning(body, size))
  BY DEF Payload!Tx, Payload!Versioning
<1>2. ASSUME NEW type \in Payload!Transactions, Faithful(t, type),
             \E body, size : type \in {Payload!Tx(body, size), Payload!Versioning(body, size)}
      PROVE  Standing(t)
  <2>1. Record(type)  BY <1>1, <1>2
  <2> QED  BY <1>2, <2>1, FaithfulStands
<1> HIDE DEF Record
<1>3. CASE t = AddressAliasTransaction
  <2>1. Payload!AddressAliasTransaction \in Payload!Transactions  BY DEF Payload!Transactions
  <2> QED  BY <1>2, <1>3, <2>1, AddressAliasTransactionFaithful DEF Payload!AddressAliasTransaction
<1>4. CASE t = MosaicAliasTransaction
  <2>1. Payload!MosaicAliasTransaction \in Payload!Transactions  BY DEF Payload!Transactions
  <2> QED  BY <1>2, <1>4, <2>1, MosaicAliasTransactionFaithful DEF Payload!MosaicAliasTransaction
<1>5. CASE t = AccountLinkTransaction
  <2>1. Payload!AccountLinkTransaction \in Payload!Transactions  BY DEF Payload!Transactions
  <2> QED  BY <1>2, <1>5, <2>1, AccountLinkTransactionFaithful DEF Payload!AccountLinkTransaction
<1>6. CASE t = BlockchainUpgradeTransaction
  <2>1. Payload!BlockchainUpgradeTransaction \in Payload!Transactions  BY DEF Payload!Transactions
  <2> QED  BY <1>2, <1>6, <2>1, BlockchainUpgradeTransactionFaithful DEF Payload!BlockchainUpgradeTransaction
<1>7. CASE t = MosaicSupplyChangeTransaction
  <2>1. Payload!MosaicSupplyChangeTransaction \in Payload!Transactions  BY DEF Payload!Transactions
  <2> QED  BY <1>2, <1>7, <2>1, MosaicSupplyChangeTransactionFaithful DEF Payload!MosaicSupplyChangeTransaction
<1>8. CASE t = LockFundsTransaction
  <2>1. Payload!LockFundsTransaction \in Payload!Transactions  BY DEF Payload!Transactions
  <2> QED  BY <1>2, <1>8, <2>1, LockFundsTransactionFaithful DEF Payload!LockFundsTransaction
<1>9. CASE t = SecretLockTransaction
  <2>1. Payload!SecretLockTransaction \in Payload!Transactions  BY DEF Payload!Transactions
  <2> QED  BY <1>2, <1>9, <2>1, SecretLockTransactionFaithful DEF Payload!SecretLockTransaction
<1>10. CASE \E n \in Counts \ {0} : t = AccountPropertiesAddressTransaction(n)
  <2>1. PICK n \in Counts \ {0} : t = AccountPropertiesAddressTransaction(n)
    BY <1>10
  <2>2. n \in Nat  BY LayoutConstants
  <2>3. Payload!AccountPropertiesAddressTransaction(n) \in Payload!Transactions
    BY DEF Payload!Transactions
  <2>4. Faithful(t, Payload!AccountPropertiesAddressTransaction(n))
    BY <2>1, <2>2, AccountPropertiesAddressTransactionFaithful
  <2> QED  BY <1>2, <2>3, <2>4 DEF Payload!AccountPropertiesAddressTransaction
<1>11. CASE \E n \in Counts \ {0} : t = AccountPropertiesMosaicTransaction(n)
  <2>1. PICK n \in Counts \ {0} : t = AccountPropertiesMosaicTransaction(n)
    BY <1>11
  <2>2. n \in Nat  BY LayoutConstants
  <2>3. Payload!AccountPropertiesMosaicTransaction(n) \in Payload!Transactions
    BY DEF Payload!Transactions
  <2>4. Faithful(t, Payload!AccountPropertiesMosaicTransaction(n))
    BY <2>1, <2>2, AccountPropertiesMosaicTransactionFaithful
  <2> QED  BY <1>2, <2>3, <2>4 DEF Payload!AccountPropertiesMosaicTransaction
<1>12. CASE \E n \in Counts \ {0} : t = AccountPropertiesEntityTypeTransaction(n)
  <2>1. PICK n \in Counts \ {0} : t = AccountPropertiesEntityTypeTransaction(n)
    BY <1>12
  <2>2. n \in Nat  BY LayoutConstants
  <2>3. Payload!AccountPropertiesEntityTypeTransaction(n) \in Payload!Transactions
    BY DEF Payload!Transactions
  <2>4. Faithful(t, Payload!AccountPropertiesEntityTypeTransaction(n))
    BY <2>1, <2>2, AccountPropertiesEntityTypeTransactionFaithful
  <2> QED  BY <1>2, <2>3, <2>4 DEF Payload!AccountPropertiesEntityTypeTransaction
<1>13. CASE \E c \in Blobs, e \in Blobs \ {0} : t = NetworkConfigTransaction(c, e)
  <2>1. PICK c \in Blobs, e \in Blobs \ {0} : t = NetworkConfigTransaction(c, e)
    BY <1>13
  <2>2. c \in Nat /\ e \in Nat  BY LayoutConstants
  <2>3. Payload!NetworkConfigTransaction(c, e) \in Payload!Transactions
    BY DEF Payload!Transactions
  <2>4. Faithful(t, Payload!NetworkConfigTransaction(c, e))
    BY <2>1, <2>2, NetworkConfigTransactionFaithful
  <2> QED  BY <1>2, <2>3, <2>4 DEF Payload!NetworkConfigTransaction
<1>14. CASE \E id \in {Payload!AddressSize, Payload!BaseInt64Size}, n \in Counts \ {0},
                    key \in Texts \ {0}, value \in Texts :
                 t = ModifyMetadataTransaction(id, n, key, value)
  <2>1. PICK id \in {Payload!AddressSize, Payload!BaseInt64Size}, n \in Counts \ {0},
                    key \in Texts \ {0}, value \in Texts : t = ModifyMetadataTransaction(id, n, key, value)
    BY <1>14
  <2>2. id \in Nat /\ n \in Nat /\ key \in Nat /\ value \in Nat  BY LayoutConstants, PayloadSizes
  <2>3. Payload!ModifyMetadataTransaction(id, n, key, value) \in Payload!Transactions
    BY DEF Payload!Transactions
  <2>4. Faithful(t, Payload!ModifyMetadataTransaction(id, n, key, value))
    BY <2>1, <2>2, ModifyMetadataTransactionFaithful
  <2> QED  BY <1>2, <2>3, <2>4 DEF Payload!ModifyMetadataTransaction
<1>15. CASE \E nonce \in Nonces, n \in Counts :
                 t = MosaicDefinitionTransaction(nonce, n)
  <2>1. PICK nonce \in Nonces, n \in Counts : t = MosaicDefinitionTransaction(nonce, n)
    BY <1>15
  <2>2. nonce \in Nat /\ n \in Nat  BY LayoutConstants
  <2>3. Payload!MosaicDefinitionTransaction(nonce, n) \in Payload!Transactions
    BY DEF Payload!Transactions
  <2>4. Faithful(t, Payload!MosaicDefinitionTransaction(nonce, n))
    BY <2>1, <2>2, MosaicDefinitionTransactionFaithful
  <2> QED  BY <1>2, <2>3, <2>4 DEF Payload!MosaicDefinitionTransaction
<1>16. CASE \E n \in Counts, payload \in Texts : t = TransferTransaction(n, payload)
  <2>1. PICK n \in Counts, payload \in Texts : t = TransferTransaction(n, payload)
    BY <1>16
  <2>2. n \in Nat /\ payload \in Nat  BY LayoutConstants
  <2>3. Payload!TransferTransaction(n, payload) \in Payload!Transactions
    BY DEF Payload!Transactions
  <2>4. Faithful(t, Payload!TransferTransaction(n, payload))
    BY <2>1, <2>2, TransferTransactionFaithful
  <2> QED  BY <1>2, <2>3, <2>4 DEF Payload!TransferTransaction
<1>17. CASE \E n \in Counts : t = ModifyMultisigAccountTransaction(n)
  <2>1. PICK n \in Counts : t = ModifyMultisigAccountTransaction(n)
    BY <1>17
  <2>2. n \in Nat  BY LayoutConstants
  <2>3. Payload!ModifyMultisigAccountTransaction(n) \in Payload!Transactions
    BY DEF Payload!Transactions
  <2>4. Faithful(t, Payload!ModifyMultisigAccountTransaction(n))
    BY <2>1, <2>2, ModifyMultisigAccountTransactionFaithful
  <2> QED  BY <1>2, <2>3, <2>4 DEF Payload!ModifyMultisigAccountTransaction
<1>18. CASE \E c \in Counts \ {0}, e \in Counts \ {0},
                    v \in Counts \ {0} :
                 t = ModifyContractTransaction(c, e, v)
  <2>1. PICK c \in Counts \ {0}, e \in Counts \ {0},
                    v \in Counts \ {0} : t = ModifyContractTransaction(c, e, v)
    BY <1>18
  <2>2. c \in Nat /\ e \in Nat /\ v \in Nat  BY LayoutConstants
  <2>3. Payload!ModifyContractTransaction(c, e, v) \in Payload!Transactions
    BY DEF Payload!Transactions
  <2>4. Faithful(t, Payload!ModifyContractTransaction(c, e, v))
    BY <2>1, <2>2, ModifyContractTransactionFaithful
  <2> QED  BY <1>2, <2>3, <2>4 DEF Payload!ModifyContractTransaction
<1>19. CASE \E name \in Texts \ {0} : t = RegisterNamespaceTransaction(name)
  <2>1. PICK name \in Texts \ {0} : t = RegisterNamespaceTransaction(name)
    BY <1>19
  <2>2. name \in Nat  BY LayoutConstants
  <2>3. Payload!RegisterNamespaceTransaction(name) \in Payload!Transactions
    BY DEF Payload!Transactions
  <2>4. Faithful(t, Payload!RegisterNamespaceTransaction(name))
    BY <2>1, <2>2, RegisterNamespaceTransactionFaithful
  <2> QED  BY <1>2, <2>3, <2>4 DEF Payload!RegisterNamespaceTransaction
<1>20. CASE \E proof \in Blobs : t = SecretProofTransaction(proof)
  <2>1. PICK proof \in Blobs : t = SecretProofTransaction(proof)
    BY <1>20
  <2>2. proof \in Nat  BY LayoutConstants
  <2>3. Payload!SecretProofTransaction(proof) \in Payload!Transactions
    BY DEF Payload!Transactions
  <2>4. Faithful(t, Payload!SecretProofTransaction(proof))
    BY <2>1, <2>2, SecretProofTransactionFaithful
  <2> QED  BY <1>2, <2>3, <2>4 DEF Payload!SecretProofTransaction
<1> QED
  BY <1>3, <1>4, <1>5, <1>6, <1>7, <1>8, <1>9, <1>10, <1>11, <1>12,
     <1>13, <1>14, <1>15, <1>16, <1>17, <1>18, <1>19, <1>20
  DEF Transactions

(***************************************************************************)
(* Aggregates.                                                             *)
(***************************************************************************)

(* transactionsSize.                                                       *)
CountField(n) == <<Segment("transactionsSize", Payload!IntSize(n), n, <<>>)>>

(* It is whole, and one byte when it is zero.                              *)
LEMMA CountFieldOf ==
    ASSUME NEW n \in Nat
    PROVE  /\ CountField(n) \in Seq(Entire) /\ Length(CountField(n)) = Payload!IntSize(n)
           /\ Segment("transactionsSize", Payload!IntSize(n), n, <<>>) \in Entire
           /\ Payload!IntSize(n) \in Nat /\ Payload!IntSize(n) > 0
<1> DEFINE k == Payload!IntSize(n)
           s == Segment("transactionsSize", k, n, <<>>)
<1>1. k \in Nat /\ k > 0  BY DEF Payload!IntSize
<1>2. "transactionsSize" \in FieldNames /\ "transactionsSize" \notin {"signature", "signer"}
  BY DEF FieldNames, SlotNames
<1>3. <<>> \in Seq(Leaf)  OBVIOUS
<1> HIDE DEF k
<1>4. s \in Seg /\ s.n = k /\ s.whole = k /\ s.from = 0 /\ s.field = "transactionsSize"
      /\ Length(<<s>>) = k
  <2>1. s.n = k /\ s.whole = k /\ s.from = 0 /\ s.field = "transactionsSize"  BY DEF Segment
  <2>2. s \in Seg /\ Length(<<s>>) = k  BY <1>1, <1>2, <1>3, SegmentLength
  <2> QED  BY <2>1, <2>2
<1> HIDE DEF s
<1>5. s \in Entire  BY <1>1, <1>2, <1>4 DEF Entire, Solid
<1>6. <<s>> \in Seq(Entire)  BY <1>5
<1> QED  BY <1>1, <1>4, <1>5, <1>6 DEF CountField, s, k

(* A length is a number.                                                   *)
LEMMA BytesLength ==
    ASSUME NEW b \in Bytes
    PROVE  Length(b) \in Nat
<1>1. b \in Seq(Solid)  BY DEF Bytes
<1>2. b \in Seq(Seg)  BY <1>1, SolidSeq
<1> QED  BY <1>2, LengthJoin

(* The table has what the schema expects,                                 *)
LEMMA AggregateFits ==
    ASSUME NEW bytes \in Seq(Entire)
    PROVE  Fits(<<scalarAttribute(IntSize), arrayAttribute(ByteSize)>>,
                Build(AggregateTransactionBuffer,
                      [transactionsSize |-> Length(bytes),
                       transactions |-> BytesVector(bytes)]))
<1> DEFINE n == Length(bytes)
           b == AggregateTransactionBuffer
           values == [transactionsSize |-> n, transactions |-> BytesVector(bytes)]
           s == <<scalarAttribute(IntSize), arrayAttribute(ByteSize)>>
           t == Build(b, values)
<1>1. n \in Nat  BY EntireBytes, BytesLength
<1>2. BytesVector(bytes) = Object(n, n, bytes, <<>>)  BY DEF BytesVector
<1> HIDE DEF n
<1>3. t = [i \in 1..2 |-> SlotOf(b[i], values)]  BY BuildOf DEF AggregateTransactionBuffer
<1>4. values["transactionsSize"] = n /\ values["transactions"] = BytesVector(bytes)  OBVIOUS
<1> HIDE DEF values
<1>5. /\ t[1] = IntSlot("transactionsSize", n)
      /\ t[2] = ObjectSlot("transactions", BytesVector(bytes))
  <2>1. /\ t[1] = SlotOf(Uint32("transactionsSize"), values)
        /\ t[2] = SlotOf(UOffsetT("transactions"), values)
    BY <1>3 DEF AggregateTransactionBuffer
  <2> QED  BY <1>4, <2>1, SlotKinds
<1>6. IsList(t, 2) /\ IsList(s, 2)  BY <1>3 DEF IsList
<1> HIDE DEF t
<1>7. t[1] \in Slots
  <2>1. "transactionsSize" \in SlotNames  BY DEF SlotNames
  <2> QED  BY <1>1, <1>5, <2>1, EmptyObject DEF IntSlot, Slots
<1>8. t[2] \in Slots
  <2>1. "transactions" \in SlotNames  BY DEF SlotNames
  <2>2. <<>> \in Seq(FlatSlot)  OBVIOUS
  <2>3. BytesVector(bytes) \in Objects  BY <1>1, <1>2, <2>2 DEF Object, Objects
  <2> QED  BY <1>5, <2>1, <2>3 DEF ObjectSlot, Slots
<1>9. s[1] \in Attributes /\ s[2] \in Attributes
  BY FlatAttributes DEF IntSize, ByteSize
<1>10. s[1].kind = "scalar" /\ s[2].kind = "array"
  BY DEF scalarAttribute, arrayAttribute, Attribute
<1> HIDE DEF s
<1>11. \A i \in 1..2 : i = 1 \/ i = 2  OBVIOUS
<1>12. s \in Seq(Attributes) /\ Len(s) = 2
  <2>1. \A i \in 1..2 : s[i] \in Attributes  BY <1>9, <1>11
  <2> QED  BY <1>6, <2>1, ListOf DEF IsList
<1>13. t \in Seq(Slots) /\ Len(t) = 2
  <2>1. \A i \in 1..2 : t[i] \in Slots  BY <1>7, <1>8, <1>11
  <2> QED  BY <1>6, <2>1, ListOf DEF IsList
<1>14. \A i \in 1..2 : s[i].kind \notin {"table", "tableArray"}  BY <1>10, <1>11
<1>15. Fits(s, t)  BY <1>12, <1>13, <1>14 DEF Fits
<1> QED  BY <1>15 DEF s, t, values, n

(* and the bytes.                                                          *)
LEMMA AggregateBody ==
    ASSUME NEW bytes \in Seq(Entire)
    PROVE  Body(<<scalarAttribute(IntSize), arrayAttribute(ByteSize)>>,
                Build(AggregateTransactionBuffer,
                      [transactionsSize |-> Length(bytes), transactions |-> BytesVector(bytes)]))
               = Cat(CountField(Length(bytes)), bytes)
<1> DEFINE n == Length(bytes)
           b == AggregateTransactionBuffer
           values == [transactionsSize |-> n, transactions |-> BytesVector(bytes)]
           s == <<scalarAttribute(IntSize), arrayAttribute(ByteSize)>>
           t == Build(b, values)
           x == CountField(n)
           y == IF bytes = <<>> THEN <<Segment("transactions", 0, 0, <<>>)>> ELSE bytes
           P == Pieces(s, t)
<1>1. n \in Nat  BY EntireBytes, BytesLength
<1>2. BytesVector(bytes) = Object(n, n, bytes, <<>>)  BY DEF BytesVector
<1>3. bytes = <<>> => n = 0  BY LengthOne
<1> HIDE DEF n
<1>4. t = [i \in 1..2 |-> SlotOf(b[i], values)]  BY BuildOf DEF AggregateTransactionBuffer
<1>5. values["transactionsSize"] = n /\ values["transactions"] = BytesVector(bytes)  OBVIOUS
<1> HIDE DEF values
<1>6. /\ t[1] = IntSlot("transactionsSize", n)
      /\ t[2] = ObjectSlot("transactions", BytesVector(bytes))
  <2>1. /\ t[1] = SlotOf(Uint32("transactionsSize"), values)
        /\ t[2] = SlotOf(UOffsetT("transactions"), values)
    BY <1>4 DEF AggregateTransactionBuffer
  <2> QED  BY <1>5, <2>1, SlotKinds
<1> HIDE DEF t
<1>7. P = <<Piece(scalarAttribute(4), t[1]), Piece(arrayAttribute(1), t[2])>>
  <2>1. Len(s) = 2 /\ s[1] = scalarAttribute(4) /\ s[2] = arrayAttribute(1)
    BY DEF IntSize, ByteSize
  <2> HIDE DEF s
  <2>2. P = [i \in 1..2 |-> Piece(s[i], t[i])]  BY <2>1 DEF Pieces
  <2>3. P = <<Piece(s[1], t[1]), Piece(s[2], t[2])>>  BY <2>2
  <2> QED  BY <2>1, <2>3
<1>8. \A k, slot : /\ Piece(scalarAttribute(k), slot) = findParam(slot, k)
                   /\ Piece(arrayAttribute(k), slot) = findVector(slot, k)
  BY DEF Piece, serializeAttribute, scalarAttribute, arrayAttribute, Attribute
<1>9. findParam(t[1], 4) = x
  BY <1>6 DEF findParam, IntSlot, CountField, Payload!IntSize
<1>10. findVector(t[2], 1) = y
  <2>1. /\ t[2].object.content = bytes /\ t[2].object.elements = n /\ t[2].object.v = n
        /\ t[2].name = "transactions"
    BY <1>2, <1>6 DEF ObjectSlot, Object
  <2>2. 0 * 1 = 0  OBVIOUS
  <2> QED  BY <1>3, <2>1, <2>2 DEF findVector
<1>11. P = <<x, y>>  BY <1>7, <1>8, <1>9, <1>10
<1> HIDE DEF P, s
<1>12. x \in Seq(Entire)  BY <1>1, CountFieldOf
<1>13. y \in Seq(Seg) /\ Nonempty(y) = bytes
  <2>1. CASE bytes = <<>>
    <3>1. y = <<Segment("transactions", 0, 0, <<>>)>>  BY <2>1
    <3>2. "transactions" \in FieldNames /\ <<>> \in Seq(Leaf) /\ 0 \in Nat
      BY DEF FieldNames, SlotNames
    <3>3. /\ Segment("transactions", 0, 0, <<>>) \in Seg
          /\ Segment("transactions", 0, 0, <<>>).n = 0
      BY <3>2, SegmentLength DEF Segment
    <3>4. Nonempty(<<Segment("transactions", 0, 0, <<>>)>>) = <<>>  BY <3>3, NonemptyOne
    <3>5. <<Segment("transactions", 0, 0, <<>>)>> \in Seq(Seg)  BY <3>3
    <3> QED  BY <2>1, <3>1, <3>4, <3>5
  <2>2. CASE bytes # <<>>
    <3>1. y = bytes  BY <2>2
    <3>2. bytes \in Seq(Solid)  BY EntireBytes DEF Bytes
    <3>3. bytes \in Seq(Seg) /\ \A i \in 1..Len(bytes) : bytes[i].n > 0  BY <3>2, SolidSeq
    <3>4. Nonempty(bytes) = bytes  BY <3>3, NonemptyBytes
    <3> QED  BY <3>1, <3>3, <3>4
  <2> QED  BY <2>1, <2>2
<1> HIDE DEF x, y
<1>14. x \in Seq(Seg) /\ Nonempty(x) = x
  <2>1. x \in Seq(Solid)  BY <1>12, EntireBytes DEF Bytes
  <2>2. x \in Seq(Seg) /\ \A i \in 1..Len(x) : x[i].n > 0  BY <2>1, SolidSeq
  <2> QED  BY <2>2, NonemptyBytes
<1>15. FlattenSeq(P) = x \o y
  <2> DEFINE S == Seq(Seg)
  <2>1. x \in S /\ y \in S  BY <1>13, <1>14
  <2> HIDE DEF S
  <2>2. <<x>> \in Seq(S) /\ <<y>> \in Seq(S)  BY <2>1
  <2>3. P = <<x>> \o <<y>>  BY <1>11, <2>1, PairSplit
  <2>4. FlattenSeq(<<x>>) = x /\ FlattenSeq(<<y>>) = y  BY <2>1, FlatOne DEF S
  <2>5. FlattenSeq(<<x>> \o <<y>>) = FlattenSeq(<<x>>) \o FlattenSeq(<<y>>)
    BY <2>2, FlatJoin DEF S
  <2> QED  BY <2>3, <2>4, <2>5
<1>16. Nonempty(x \o y) = x \o bytes
  <2>1. Seg \subseteq Seg /\ x \in Seq(Seg) /\ y \in Seq(Seg)  BY <1>13, <1>14
  <2>2. Nonempty(x \o y) = Nonempty(x) \o Nonempty(y)  BY <2>1, NonemptyJoin
  <2> QED  BY <1>13, <1>14, <2>2
<1>17. Body(s, t) = Cat(x, bytes)  BY <1>15, <1>16 DEF Body, P, Cat
<1> QED  BY <1>17 DEF s, t, values, x, n

(* Whole segments remain whole when lists are put together.                *)
LEMMA EntireCat ==
    ASSUME NEW x \in Seq(Entire), NEW y \in Seq(Entire)
    PROVE  Cat(x, y) \in Seq(Entire)
BY DEF Cat

(* The header of what is signed is whole.                                  *)
LEMMA EntireFields ==
    ASSUME NEW size \in Nat
    PROVE  /\ SizeField(size) \in Seq(Entire) /\ SignatureField(1) \in Seq(Entire)
           /\ SignerField(1) \in Seq(Entire) /\ KindFields \in Seq(Entire)
           /\ FeeFields \in Seq(Entire) /\ Cosignature \in Seq(Entire)
<1>1. ASSUME NEW field \in HeaderNames, NEW n \in Nat, n > 0, NEW v \in Nat,
             field \in {"signature", "signer"} => v # 0
      PROVE  Written(field, n, v) \in Entire
  <2>1. field \in FieldNames  BY DEF FieldNames
  <2>2. /\ Written(field, n, v) \in Solid
        /\ Written(field, n, v).n = n /\ Written(field, n, v).v = v
        /\ Written(field, n, v).from = 0 /\ Written(field, n, v).whole = n
        /\ Written(field, n, v).field = field
    BY <1>1, <2>1, Written1
  <2> QED  BY <1>1, <2>2 DEF Entire
<1>2. /\ "size" \in HeaderNames /\ "signature" \in HeaderNames /\ "signer" \in HeaderNames
      /\ "version" \in HeaderNames /\ "type" \in HeaderNames /\ "maxFee" \in HeaderNames
      /\ "deadline" \in HeaderNames /\ "cosigner" \in HeaderNames
      /\ "cosignature" \in HeaderNames
  BY DEF HeaderNames
<1>3. /\ SizeSize = 4 /\ SignatureSize = 64 /\ SignerSize = 32 /\ VersionSize = 4
      /\ TypeSize = 2 /\ MaxFeeSize = 8 /\ DeadLineSize = 8
  BY DEF SizeSize, SignatureSize, SignerSize, VersionSize, TypeSize, MaxFeeSize, DeadLineSize
<1>4. Written("size", SizeSize, size) \in Entire  BY <1>1, <1>2, <1>3
<1>5. Written("signature", SignatureSize, 1) \in Entire /\ Written("signer", SignerSize, 1) \in Entire
  BY <1>1, <1>2, <1>3
<1>6. Written("version", VersionSize, 1) \in Entire /\ Written("type", TypeSize, 1) \in Entire
  BY <1>1, <1>2, <1>3
<1>7. Written("maxFee", MaxFeeSize, 1) \in Entire /\ Written("deadline", DeadLineSize, 1) \in Entire
  BY <1>1, <1>2, <1>3
<1>8. /\ Written("cosigner", SignerSize, 1) \in Entire
      /\ Written("cosignature", SignatureSize, 1) \in Entire
  BY <1>1, <1>2, <1>3
<1>9. SizeField(size) \in Seq(Entire)  BY <1>4 DEF SizeField
<1>10. SignatureField(1) \in Seq(Entire) /\ SignerField(1) \in Seq(Entire)
  BY <1>5 DEF SignatureField, SignerField
<1>11. KindFields \in Seq(Entire)  BY <1>6, PairSplit DEF KindFields
<1>12. FeeFields \in Seq(Entire)  BY <1>7, PairSplit DEF FeeFields
<1>13. Cosignature \in Seq(Entire)  BY <1>8, PairSplit DEF Cosignature
<1> QED  BY <1>9, <1>10, <1>11, <1>12, <1>13

(* A signed payload is whole when what follows its header is.              *)
LEMMA EntireFramed ==
    ASSUME NEW size \in Nat, NEW rest \in Seq(Entire)
    PROVE  Framed(size, 1, 1, rest) \in Seq(Entire)
<1> DEFINE a == Cat(FeeFields, rest)
           b == Cat(KindFields, a)
           c == Cat(SignerField(1), b)
           d == Cat(SignatureField(1), c)
<1>1. /\ SizeField(size) \in Seq(Entire) /\ SignatureField(1) \in Seq(Entire)
      /\ SignerField(1) \in Seq(Entire) /\ KindFields \in Seq(Entire)
      /\ FeeFields \in Seq(Entire)
  BY EntireFields
<1>2. a \in Seq(Entire)  BY <1>1, EntireCat
<1> HIDE DEF a
<1>3. b \in Seq(Entire)  BY <1>1, <1>2, EntireCat
<1> HIDE DEF b
<1>4. c \in Seq(Entire)  BY <1>1, <1>3, EntireCat
<1> HIDE DEF c
<1>5. d \in Seq(Entire)  BY <1>1, <1>4, EntireCat
<1> HIDE DEF d
<1>6. Cat(SizeField(size), d) \in Seq(Entire)  BY <1>1, <1>5, EntireCat
<1> QED  BY <1>6 DEF Framed, a, b, c, d

(***************************************************************************)
(* Inner transactions.                                                     *)
(***************************************************************************)

(* What is in an inner transaction behind its size.                        *)
InnerTail(rest) == Cat(SignerField(1), Cat(KindFields, rest))

(* What follows the size of an inner transaction.                          *)
LEMMA InnerTailOf ==
    ASSUME NEW rest \in Seq(Entire)
    PROVE  InnerTail(rest) \in Seq(Entire) /\ Length(InnerTail(rest)) = 38 + Length(rest)
<1> DEFINE a == Cat(KindFields, rest)
<1>1. SignerField(1) \in Seq(Entire) /\ KindFields \in Seq(Entire)
  <2>1. 0 \in Nat  OBVIOUS
  <2> QED  BY <2>1, EntireFields
<1>2. a \in Seq(Entire)  BY <1>1, EntireCat
<1>3. Length(a) = 6 + Length(rest) /\ Length(rest) \in Nat
  <2>1. KindFields \in Bytes /\ rest \in Bytes  BY <1>1, EntireBytes
  <2>2. Length(KindFields) = 6
    <3>1. 0 \in Nat  OBVIOUS
    <3> QED  BY <3>1, FieldLists
  <2> QED  BY <2>1, <2>2, CatBytes
<1> HIDE DEF a
<1>4. Cat(SignerField(1), a) \in Seq(Entire)  BY <1>1, <1>2, EntireCat
<1>5. Length(Cat(SignerField(1), a)) = 32 + Length(a)
  <2>1. SignerField(1) \in Bytes /\ a \in Bytes  BY <1>1, <1>2, EntireBytes
  <2>2. Length(SignerField(1)) = 32
    <3>1. 1 \in Nat  OBVIOUS
    <3> QED  BY <3>1, FieldLists
  <2> QED  BY <2>1, <2>2, CatBytes
<1> QED  BY <1>3, <1>4, <1>5 DEF InnerTail, a

(* toAggregateTransactionBytes takes out signature, fee and deadline.      *)
LEMMA ToAggregateBytes ==
    ASSUME NEW size \in Nat, NEW rest \in Seq(Entire)
    PROVE  /\ toAggregateTransactionBytes(Framed(size, 0, 0, rest))
                  = Cat(SizeField(42 + Length(rest)), InnerTail(rest))
           /\ Length(Cat(SizeField(42 + Length(rest)), InnerTail(rest))) = 42 + Length(rest)
           /\ Cat(SizeField(42 + Length(rest)), InnerTail(rest)) \in Seq(Entire)
           /\ Length(rest) \in Nat
<1> DEFINE b == Framed(size, 0, 0, rest)
           n == 42 + Length(rest)
<1>1. rest \in Bytes  BY EntireBytes
<1>2. /\ Length(b) = 122 + Length(rest) /\ Length(rest) \in Nat
      /\ Slice(b, 100, 106) = KindFields /\ Slice(b, 122, Length(b)) = rest
  <2>1. 0 \in Nat  OBVIOUS
  <2> QED  BY <1>1, <2>1, FramedParts
<1>3. /\ SizeSize = 4 /\ SignatureSize = 64 /\ SignerSize = 32 /\ VersionSize = 4
      /\ TypeSize = 2 /\ MaxFeeSize = 8 /\ DeadLineSize = 8
  BY DEF SizeSize, SignatureSize, SignerSize, VersionSize, TypeSize, MaxFeeSize, DeadLineSize
<1>4. SignedFrom = 100 /\ TransactionHeaderSize = 122
  BY <1>3, PayloadSizes DEF SignedFrom, TransactionHeaderSize
<1> HIDE DEF b
<1>5. toAggregateTransactionBytes(b)
          = <<Written("size", 4, Length(b) - 64 - 8 - 8)>> \o SignerField(1)
                \o Slice(b, 100, 100 + 4 + 2) \o Slice(b, 122, Length(b))
  BY <1>3, <1>4 DEF toAggregateTransactionBytes, SignerField
<1>6. Length(b) - 64 - 8 - 8 = n /\ 100 + 4 + 2 = 106 /\ n \in Nat  BY <1>2
<1> HIDE DEF n
<1>7. SizeField(n) = <<Written("size", 4, n)>>  BY <1>3 DEF SizeField
<1>8. toAggregateTransactionBytes(b) = Cat(Cat(Cat(SizeField(n), SignerField(1)), KindFields), rest)
  BY <1>2, <1>5, <1>6, <1>7 DEF Cat
<1>9. /\ SizeField(n) \in Bytes /\ SignerField(1) \in Bytes /\ KindFields \in Bytes
      /\ Length(SizeField(n)) = 4
  <2>1. 1 \in Nat /\ 0 \in Nat  OBVIOUS
  <2> QED  BY <1>6, <2>1, FieldLists
<1>10. Cat(Cat(Cat(SizeField(n), SignerField(1)), KindFields), rest)
           = Cat(SizeField(n), InnerTail(rest))
  <2>1. Cat(SizeField(n), SignerField(1)) \in Bytes /\ Cat(KindFields, rest) \in Bytes
    BY <1>1, <1>9, CatBytes
  <2>2. Cat(Cat(Cat(SizeField(n), SignerField(1)), KindFields), rest)
            = Cat(Cat(SizeField(n), SignerField(1)), Cat(KindFields, rest))
    BY <1>1, <1>9, <2>1, CatAssociative
  <2>3. Cat(Cat(SizeField(n), SignerField(1)), Cat(KindFields, rest))
            = Cat(SizeField(n), Cat(SignerField(1), Cat(KindFields, rest)))
    BY <1>9, <2>1, CatAssociative
  <2> QED  BY <2>2, <2>3 DEF InnerTail
<1>11. InnerTail(rest) \in Seq(Entire) /\ Length(InnerTail(rest)) = 38 + Length(rest)
  BY InnerTailOf
<1>12. Length(Cat(SizeField(n), InnerTail(rest))) = n
  <2>1. InnerTail(rest) \in Bytes  BY <1>11, EntireBytes
  <2>2. Length(Cat(SizeField(n), InnerTail(rest))) = 4 + Length(InnerTail(rest))
    BY <1>9, <2>1, CatBytes
  <2> QED  BY <1>2, <1>11, <2>2 DEF n
<1>13. Cat(SizeField(n), InnerTail(rest)) \in Seq(Entire)
  <2>1. SizeField(n) \in Seq(Entire)  BY <1>6, EntireFields
  <2> QED  BY <1>11, <2>1, EntireCat
<1> QED  BY <1>2, <1>8, <1>10, <1>12, <1>13 DEF b, n

(* To whom a segment belongs changes nothing else of it.                   *)
LEMMA OwnedOf ==
    ASSUME NEW b \in Seq(Entire), NEW i \in Nat
    PROVE  /\ Owned(b, i) \in Seq(Entire) /\ Len(Owned(b, i)) = Len(b)
           /\ Length(Owned(b, i)) = Length(b) /\ Length(b) \in Nat
           /\ \A k \in 1..Len(b) : /\ Owned(b, i)[k].field = b[k].field
                                   /\ Owned(b, i)[k].v = b[k].v
                                   /\ Owned(b, i)[k].owner = i
<1> DEFINE n == Len(b)
           c == Owned(b, i)
           X == Starts(b)
           Y == Starts(c)
<1>1. n \in Nat /\ \A k \in 1..n : b[k] \in Entire  OBVIOUS
<1>2. c = [k \in 1..n |-> [b[k] EXCEPT !.owner = i]]  BY DEF Owned
<1>3. ASSUME NEW s \in Entire
      PROVE  LET o == [s EXCEPT !.owner = i] IN
             /\ o \in Entire /\ o.field = s.field /\ o.v = s.v /\ o.owner = i /\ o.n = s.n
  BY DEF Entire, Solid, Seg
<1>4. \A k \in 1..n : /\ c[k] \in Entire /\ c[k].field = b[k].field /\ c[k].v = b[k].v
                     /\ c[k].owner = i /\ c[k].n = b[k].n
  <2> TAKE k \in 1..n
  <2>1. c[k] = [b[k] EXCEPT !.owner = i]  BY <1>2
  <2> QED  BY <1>1, <1>3, <2>1
<1>5. c \in Seq(Entire) /\ Len(c) = n
  <2>1. c = [k \in 1..n |-> c[k]]  BY <1>2
  <2> HIDE DEF c, n
  <2> QED  BY <1>1, <1>4, <2>1, ListOf
<1>6. b \in Seq(Seg) /\ c \in Seq(Seg)
  <2>1. Entire \subseteq Seg  BY DEF Entire, Solid
  <2> HIDE DEF c
  <2> QED  BY <1>5, <2>1, SeqWider
<1>7. /\ X \in [1..n + 1 -> Nat] /\ X[1] = 0 /\ \A k \in 1..n : X[k + 1] = X[k] + b[k].n
      /\ Y[1] = 0 /\ \A k \in 1..n : Y[k + 1] = Y[k] + c[k].n
  <2> HIDE DEF c
  <2> QED  BY <1>5, <1>6, StartsOf
<1>8. Length(c) = Y[n + 1] /\ Length(b) = X[n + 1]
  <2> HIDE DEF c
  <2> QED  BY <1>5, LengthOf
<1> HIDE DEF n, c, X, Y
<1>9. X[n + 1] = Y[n + 1]
  <2> DEFINE A == {k \in 0..n : X[k + 1] = Y[k + 1]}
  <2>1. 0 \in A
    <3>1. 0 \in 0..n /\ 0 + 1 = 1  BY <1>1
    <3> QED  BY <1>7, <3>1
  <2>2. ASSUME NEW k \in 1..n, k - 1 \in A PROVE k \in A
    <3>1. k \in 0..n /\ (k - 1) + 1 = k  BY <1>1
    <3>2. X[k] = Y[k]  BY <2>2, <3>1
    <3>3. X[k + 1] = X[k] + b[k].n /\ Y[k + 1] = Y[k] + c[k].n /\ b[k].n = c[k].n
      BY <1>4, <1>7
    <3> QED  BY <3>1, <3>2, <3>3
  <2>3. n \in A
    <3> HIDE DEF A
    <3>1. 0..n \subseteq A  BY <1>1, <2>1, <2>2, Induct
    <3>2. n \in 0..n  BY <1>1
    <3> QED  BY <3>1, <3>2
  <2> QED  BY <2>3
<1>10. Length(b) \in Nat
  <2>1. n + 1 \in 1..n + 1  BY <1>1
  <2> QED  BY <1>7, <1>8, <2>1
<1> QED  BY <1>4, <1>5, <1>8, <1>9, <1>10 DEF n, c

(* To whom two lists belong.                                               *)
LEMMA OwnedCat ==
    ASSUME NEW x \in Seq(Entire), NEW y \in Seq(Entire), NEW i \in Nat
    PROVE  Owned(Cat(x, y), i) = Cat(Owned(x, i), Owned(y, i))
<1> DEFINE n == Len(x)
           m == Len(y)
           w == x \o y
           a == Owned(x, i)
           b == Owned(y, i)
           z == a \o b
<1>1. /\ n \in Nat /\ m \in Nat /\ Len(w) = n + m /\ w \in Seq(Entire)
      /\ \A k \in 1..n : w[k] = x[k]
      /\ \A k \in 1..m : w[n + k] = y[k]
  BY JoinParts
<1>2. /\ a \in Seq(Entire) /\ Len(a) = n /\ b \in Seq(Entire) /\ Len(b) = m  BY OwnedOf
<1>3. /\ \A k \in 1..n : a[k] = [x[k] EXCEPT !.owner = i]
      /\ \A k \in 1..m : b[k] = [y[k] EXCEPT !.owner = i]
  BY DEF Owned
<1> HIDE DEF a, b
<1>4. /\ z \in Seq(Entire) /\ Len(z) = n + m
      /\ \A k \in 1..n : z[k] = a[k]
      /\ \A k \in 1..m : z[n + k] = b[k]
  <2>1. /\ z \in Seq(Entire) /\ Len(z) = Len(a) + Len(b)
        /\ \A k \in 1..Len(a) : z[k] = a[k]
        /\ \A k \in 1..Len(b) : z[Len(a) + k] = b[k]
    <3>1. a \in Seq(Entire) /\ b \in Seq(Entire)  BY <1>2
    <3> QED  BY <3>1, JoinParts
  <2> QED  BY <1>2, <2>1
<1>5. Owned(w, i) = [k \in 1..n + m |-> [w[k] EXCEPT !.owner = i]]  BY <1>1 DEF Owned
<1> HIDE DEF n, m, w, z
<1>6. ASSUME NEW k \in 1..n + m PROVE [w[k] EXCEPT !.owner = i] = z[k]
  <2>1. CASE k <= n
    <3>1. k \in 1..n  BY <1>1, <2>1
    <3> QED  BY <1>1, <1>3, <1>4, <3>1
  <2>2. CASE k > n
    <3>1. k - n \in 1..m /\ n + (k - n) = k  BY <1>1, <2>2
    <3>2. w[n + (k - n)] = y[k - n] /\ z[n + (k - n)] = b[k - n]  BY <1>1, <1>4, <3>1
    <3> QED  BY <1>3, <3>1, <3>2
  <2> QED  BY <1>1, <2>1, <2>2
<1>7. z = [k \in 1..n + m |-> z[k]]  BY <1>4
<1>8. Owned(w, i) = [k \in 1..n + m |-> z[k]]  BY <1>5, <1>6
<1>9. Owned(w, i) = z  BY <1>7, <1>8
<1> QED  BY <1>9 DEF w, z, a, b, Cat

(***************************************************************************)
(* The size fields of inner transactions.                                  *)
(***************************************************************************)
Marked(b) == {i \in 1..Len(b) : b[i].field = "size" /\ b[i].owner > 0}

(* Where they are, and where they say that the next one is.                *)
Begins(b) == {Starts(b)[i] : i \in Marked(b)}
Ends(b) == {Starts(b)[i] + b[i].v : i \in Marked(b)}

Shifted(n, A) == {n + k : k \in A}

(* The size fields of two lists: those of the second are as far behind as  *)
(* the first is long.                                                      *)
LEMMA MarksJoin ==
    ASSUME NEW x \in Bytes, NEW y \in Bytes
    PROVE  /\ Begins(Cat(x, y)) = Begins(x) \cup Shifted(Length(x), Begins(y))
           /\ Ends(Cat(x, y)) = Ends(x) \cup Shifted(Length(x), Ends(y))
<1> DEFINE n == Len(x)
           m == Len(y)
           L == Length(x)
           w == Cat(x, y)
           X == Starts(x)
           Y == Starts(y)
           W == Starts(w)
<1>1. x \in Seq(Seg) /\ y \in Seq(Seg)
  BY SolidSeq DEF Bytes
<1>2. /\ n \in Nat /\ m \in Nat /\ Len(w) = n + m
      /\ \A k \in 1..n : w[k] = x[k] /\ x[k] \in Seg
      /\ \A k \in 1..m : w[n + k] = y[k] /\ y[k] \in Seg
  BY <1>1, JoinParts DEF Cat
<1>3. /\ \A k \in 1..n + 1 : W[k] = X[k]
      /\ \A k \in 1..m + 1 : W[n + k] = L + Y[k]
  BY <1>1, StartsJoin DEF Cat
<1>4. L \in Nat /\ \A k \in 1..m : Y[k] \in Nat /\ y[k].v \in Nat
  <2>1. L \in Nat  BY <1>1, LengthJoin
  <2>2. Y \in [1..m + 1 -> Nat]  BY <1>1, StartsOf
  <2>3. \A k \in 1..m : k \in 1..m + 1  BY <1>2
  <2> HIDE DEF m, L, Y
  <2> QED  BY <1>2, <2>1, <2>2, <2>3, SegParts
<1> HIDE DEF w, L, X, Y, W, n, m
<1>5. /\ \A k \in 1..n : W[k] = X[k]
      /\ \A k \in 1..m : W[n + k] = L + Y[k] /\ W[n + k] + y[k].v = L + (Y[k] + y[k].v)
  <2>1. ASSUME NEW k \in 1..n PROVE W[k] = X[k]
    <3>1. k \in 1..n + 1  BY <1>2
    <3> QED  BY <1>3, <3>1
  <2>2. ASSUME NEW k \in 1..m PROVE W[n + k] = L + Y[k] /\ W[n + k] + y[k].v = L + (Y[k] + y[k].v)
    <3>1. k \in 1..m + 1  BY <1>2
    <3>2. W[n + k] = L + Y[k]  BY <1>3, <3>1
    <3> QED  BY <1>4, <3>2
  <2> QED  BY <2>1, <2>2
<1>6. /\ Marked(x) = {i \in 1..n : x[i].field = "size" /\ x[i].owner > 0}
      /\ Marked(y) = {i \in 1..m : y[i].field = "size" /\ y[i].owner > 0}
      /\ Marked(w) = {i \in 1..n + m : w[i].field = "size" /\ w[i].owner > 0}
  BY <1>2 DEF Marked, n, m
<1>7. ASSUME NEW i \in Marked(w)
      PROVE  (i \in Marked(x) /\ w[i] = x[i])
             \/ (i - n \in Marked(y) /\ i - n \in 1..m /\ n + (i - n) = i /\ w[i] = y[i - n])
  <2>1. i \in 1..n + m /\ w[i].field = "size" /\ w[i].owner > 0  BY <1>6
  <2>2. CASE i <= n
    <3>1. i \in 1..n  BY <1>2, <2>1, <2>2
    <3> QED  BY <1>2, <1>6, <2>1, <3>1
  <2>3. CASE i > n
    <3>1. i - n \in 1..m /\ n + (i - n) = i  BY <1>2, <2>1, <2>3
    <3>2. w[n + (i - n)] = y[i - n]  BY <1>2, <3>1
    <3> QED  BY <1>6, <2>1, <3>1, <3>2
  <2> QED  BY <1>2, <2>1, <2>2, <2>3
<1>8. ASSUME NEW i \in Marked(x) PROVE i \in Marked(w) /\ i \in 1..n /\ w[i] = x[i]
  <2>1. i \in 1..n /\ x[i].field = "size" /\ x[i].owner > 0  BY <1>6
  <2>2. i \in 1..n + m  BY <1>2, <2>1
  <2> QED  BY <1>2, <1>6, <2>1, <2>2
<1>9. ASSUME NEW i \in Marked(y) PROVE n + i \in Marked(w) /\ i \in 1..m /\ w[n + i] = y[i]
  <2>1. i \in 1..m /\ y[i].field = "size" /\ y[i].owner > 0  BY <1>6
  <2>2. n + i \in 1..n + m  BY <1>2, <2>1
  <2> QED  BY <1>2, <1>6, <2>1, <2>2
<1>10. Begins(w) = Begins(x) \cup Shifted(L, Begins(y))
  <2> DEFINE R == Begins(x) \cup Shifted(L, Begins(y))
  <2>1. ASSUME NEW i \in Marked(w) PROVE W[i] \in R
    <3>1. CASE i \in Marked(x)
      <4>1. X[i] \in Begins(x)  BY <3>1 DEF Begins, X
      <4> QED  BY <1>5, <1>8, <3>1, <4>1
    <3>2. CASE i - n \in Marked(y) /\ i - n \in 1..m /\ n + (i - n) = i
      <4>1. Y[i - n] \in Begins(y)  BY <3>2 DEF Begins, Y
      <4>2. W[n + (i - n)] = L + Y[i - n]  BY <1>5, <3>2
      <4> QED  BY <3>2, <4>1, <4>2 DEF Shifted
    <3> QED  BY <1>7, <3>1, <3>2
  <2>2. ASSUME NEW i \in Marked(x) PROVE X[i] \in Begins(w)
    <3>1. X[i] = W[i]  BY <1>5, <1>8
    <3> QED  BY <1>8, <3>1 DEF Begins, W
  <2>3. ASSUME NEW i \in Marked(y) PROVE L + Y[i] \in Begins(w)
    <3>1. L + Y[i] = W[n + i]  BY <1>5, <1>9
    <3> QED  BY <1>9, <3>1 DEF Begins, W
  <2>4. Begins(w) \subseteq R
    <3>1. \A e \in Begins(w) : \E i \in Marked(w) : e = W[i]  BY DEF Begins, W
    <3> QED  BY <2>1, <3>1
  <2>5. Begins(x) \subseteq Begins(w)
    <3>1. \A e \in Begins(x) : \E i \in Marked(x) : e = X[i]  BY DEF Begins, X
    <3> QED  BY <2>2, <3>1
  <2>6. Shifted(L, Begins(y)) \subseteq Begins(w)
    <3>1. \A e \in Shifted(L, Begins(y)) : \E i \in Marked(y) : e = L + Y[i]
      BY DEF Begins, Y, Shifted
    <3> QED  BY <2>3, <3>1
  <2> QED  BY <2>4, <2>5, <2>6
<1>11. Ends(w) = Ends(x) \cup Shifted(L, Ends(y))
  <2> DEFINE R == Ends(x) \cup Shifted(L, Ends(y))
  <2>1. ASSUME NEW i \in Marked(w) PROVE W[i] + w[i].v \in R
    <3>1. CASE i \in Marked(x)
      <4>1. X[i] + x[i].v \in Ends(x)  BY <3>1 DEF Ends, X
      <4>2. W[i] = X[i] /\ w[i] = x[i]  BY <1>5, <1>8, <3>1
      <4> QED  BY <4>1, <4>2
    <3>2. CASE i - n \in Marked(y) /\ i - n \in 1..m /\ n + (i - n) = i /\ w[i] = y[i - n]
      <4>1. Y[i - n] + y[i - n].v \in Ends(y)  BY <3>2 DEF Ends, Y
      <4>2. W[n + (i - n)] + y[i - n].v = L + (Y[i - n] + y[i - n].v)  BY <1>5, <3>2
      <4>3. W[i] + w[i].v = L + (Y[i - n] + y[i - n].v)  BY <3>2, <4>2
      <4> QED  BY <4>1, <4>3 DEF Shifted
    <3>3. i \in Marked(x) \/ (i - n \in Marked(y) /\ i - n \in 1..m /\ n + (i - n) = i
                                /\ w[i] = y[i - n])
      BY <1>7
    <3> QED  BY <3>1, <3>2, <3>3
  <2>2. ASSUME NEW i \in Marked(x) PROVE X[i] + x[i].v \in Ends(w)
    <3>1. X[i] = W[i] /\ w[i] = x[i]  BY <1>5, <1>8
    <3>2. W[i] + w[i].v \in Ends(w)  BY <1>8 DEF Ends, W
    <3> QED  BY <3>1, <3>2
  <2>3. ASSUME NEW i \in Marked(y) PROVE L + (Y[i] + y[i].v) \in Ends(w)
    <3>1. L + (Y[i] + y[i].v) = W[n + i] + y[i].v /\ w[n + i] = y[i]  BY <1>5, <1>9
    <3>2. W[n + i] + w[n + i].v \in Ends(w)  BY <1>9 DEF Ends, W
    <3> QED  BY <3>1, <3>2
  <2>4. Ends(w) \subseteq R
    <3>1. \A e \in Ends(w) : \E i \in Marked(w) : e = W[i] + w[i].v  BY DEF Ends, W
    <3> QED  BY <2>1, <3>1
  <2>5. Ends(x) \subseteq Ends(w)
    <3>1. \A e \in Ends(x) : \E i \in Marked(x) : e = X[i] + x[i].v  BY DEF Ends, X
    <3> QED  BY <2>2, <3>1
  <2>6. Shifted(L, Ends(y)) \subseteq Ends(w)
    <3>1. \A e \in Shifted(L, Ends(y)) : \E i \in Marked(y) : e = L + (Y[i] + y[i].v)
      BY DEF Ends, Y, Shifted
    <3> QED  BY <2>3, <3>1
  <2> QED  BY <2>4, <2>5, <2>6
<1> QED  BY <1>10, <1>11 DEF w, L

(* From size field to size field one comes from the beginning to the end.  *)
Delimited(b) == Begins(b) \cup {Length(b)} = {0} \cup Ends(b)

Contained == {b \in Seq(Entire) : Delimited(b)}

(* A list without sizes of inner transactions.                             *)
LEMMA Unmarked ==
    ASSUME NEW b, \A i \in 1..Len(b) : b[i].field = "size" => ~(b[i].owner > 0)
    PROVE  Begins(b) = {} /\ Ends(b) = {}
<1>1. Marked(b) = {}  BY DEF Marked
<1> QED  BY <1>1 DEF Begins, Ends

(* Nothing is delimited.                                                   *)
LEMMA NothingContained == <<>> \in Contained
<1>1. <<>> \in Seq(Entire) /\ Len(<<>>) = 0  OBVIOUS
<1>2. \A i \in 1..Len(<<>>) : <<>>[i].field = "size" => ~(<<>>[i].owner > 0)  BY <1>1
<1>3. Begins(<<>>) = {} /\ Ends(<<>>) = {}  BY <1>2, Unmarked
<1>4. Length(<<>>) = 0  BY LengthOne
<1> QED  BY <1>1, <1>3, <1>4 DEF Contained, Delimited

(* Where one list of inner transactions ends the other begins.             *)
LEMMA ContainedJoin ==
    ASSUME NEW x \in Contained, NEW y \in Contained
    PROVE  Cat(x, y) \in Contained
<1>1. x \in Seq(Entire) /\ y \in Seq(Entire)  BY DEF Contained
<1>2. x \in Bytes /\ y \in Bytes  BY <1>1, EntireBytes
<1>3. /\ Length(x) \in Nat /\ Length(y) \in Nat
      /\ Length(Cat(x, y)) = Length(x) + Length(y)
  BY <1>2, CatBytes
<1>4. Cat(x, y) \in Seq(Entire)  BY <1>1, EntireCat
<1> DEFINE L == Length(x)
           M == Length(y)
           Bx == Begins(x)
           Ex == Ends(x)
           By == Begins(y)
           Ey == Ends(y)
<1>5. Begins(Cat(x, y)) = Bx \cup Shifted(L, By) /\ Ends(Cat(x, y)) = Ex \cup Shifted(L, Ey)
  BY <1>2, MarksJoin
<1>6. Bx \cup {L} = {0} \cup Ex /\ By \cup {M} = {0} \cup Ey  BY DEF Contained, Delimited
<1> HIDE DEF L, M, Bx, Ex, By, Ey
<1>7. \A A, B : Shifted(L, A \cup B) = Shifted(L, A) \cup Shifted(L, B)  BY DEF Shifted
<1>8. Shifted(L, {M}) = {L + M} /\ Shifted(L, {0}) = {L}
  <2>1. L + 0 = L  BY <1>3 DEF L
  <2> QED  BY <2>1 DEF Shifted
<1>9. Shifted(L, By) \cup {L + M} = {L} \cup Shifted(L, Ey)
  <2>1. Shifted(L, By \cup {M}) = Shifted(L, {0} \cup Ey)  BY <1>6
  <2> QED  BY <1>7, <1>8, <2>1
<1>10. (Bx \cup Shifted(L, By)) \cup {L + M} = {0} \cup (Ex \cup Shifted(L, Ey))
  <2>1. (Bx \cup Shifted(L, By)) \cup {L + M} = Bx \cup {L} \cup Shifted(L, Ey)  BY <1>9
  <2>2. Bx \cup {L} \cup Shifted(L, Ey) = {0} \cup Ex \cup Shifted(L, Ey)  BY <1>6
  <2> QED  BY <2>1, <2>2
<1>11. Begins(Cat(x, y)) \cup {Length(Cat(x, y))} = {0} \cup Ends(Cat(x, y))
  BY <1>3, <1>5, <1>10 DEF L, M
<1> QED  BY <1>4, <1>11 DEF Contained, Delimited

(* Put together one after the other they remain so.                        *)
LEMMA ContainedFlat ==
    ASSUME NEW P \in Seq(Contained)
    PROVE  FlattenSeq(P) \in Contained
<1> DEFINE n == Len(P)
           A == {k \in 0..n : UpTo(P, k) \in Contained}
<1>1. n \in Nat /\ \A k \in 1..n : P[k] \in Contained  OBVIOUS
<1>2. /\ \A k \in 1..n : UpTo(P, k) = UpTo(P, k - 1) \o P[k]
      /\ UpTo(P, 0) = <<>> /\ FlattenSeq(P) = UpTo(P, n)
  <2>1. Contained \subseteq Seq(Entire)  BY DEF Contained
  <2>2. P \in Seq(Seq(Entire))  BY <2>1, SeqWider
  <2> QED  BY <2>2, FlatOf
<1> HIDE DEF n
<1>3. 0 \in A  BY <1>1, <1>2, NothingContained
<1>4. ASSUME NEW k \in 1..n, k - 1 \in A PROVE k \in A
  <2>1. UpTo(P, k - 1) \in Contained /\ P[k] \in Contained /\ k \in 0..n  BY <1>1, <1>4
  <2>2. Cat(UpTo(P, k - 1), P[k]) \in Contained  BY <2>1, ContainedJoin
  <2>3. UpTo(P, k) \in Contained  BY <1>2, <2>2 DEF Cat
  <2> QED  BY <2>1, <2>3
<1> HIDE DEF A
<1>5. 0..n \subseteq A  BY <1>1, <1>3, <1>4, Induct
<1>6. n \in A  BY <1>1, <1>5
<1> QED  BY <1>2, <1>6 DEF A

(* Fields that are no sizes.                                               *)
Sizeless == {s \in Entire : s.field # "size"}

(* Behind its size field an inner transaction has no other.                *)
LEMMA TailSizeless ==
    ASSUME NEW rest \in Seq(Plain)
    PROVE  InnerTail(rest) \in Seq(Sizeless)
<1>1. ASSUME NEW x \in Seq(Sizeless), NEW y \in Seq(Sizeless) PROVE Cat(x, y) \in Seq(Sizeless)
  BY DEF Cat
<1>2. rest \in Seq(Sizeless)
  <2>1. Plain \subseteq Sizeless  BY DEF Plain, Sizeless, SlotNames
  <2> QED  BY <2>1, SeqWider
<1>3. SignerField(1) \in Seq(Entire) /\ KindFields \in Seq(Entire)
  <2>1. 0 \in Nat  OBVIOUS
  <2> QED  BY <2>1, EntireFields
<1>4. SignerField(1) \in Seq(Sizeless)
  <2> DEFINE s == Written("signer", SignerSize, 1)
             f == SignerField(1)
  <2>1. f = <<s>> /\ s.field = "signer"  BY DEF SignerField, Written, Segment
  <2>2. Len(f) = 1 /\ f[1] = s  BY <2>1
  <2> HIDE DEF s, f
  <2>3. 1 \in 1..Len(f)  BY <2>2
  <2>4. f \in Seq(Entire)  BY <1>3 DEF f
  <2>5. s \in Entire  BY <2>2, <2>3, <2>4
  <2>6. s \in Sizeless  BY <2>1, <2>5 DEF Sizeless
  <2>7. f \in Seq(Sizeless)  BY <2>1, <2>6
  <2> QED  BY <2>7 DEF f
<1>5. KindFields \in Seq(Sizeless)
  <2> DEFINE s == Written("version", VersionSize, 1)
             t == Written("type", TypeSize, 1)
  <2>1. KindFields = <<s, t>> /\ s.field = "version" /\ t.field = "type"
    BY DEF KindFields, Written, Segment
  <2>2. Len(KindFields) = 2 /\ KindFields[1] = s /\ KindFields[2] = t  BY <2>1
  <2> HIDE DEF s, t
  <2>3. s \in Entire /\ t \in Entire
    <3>1. 1 \in 1..Len(KindFields) /\ 2 \in 1..Len(KindFields)  BY <2>2
    <3>2. KindFields[1] \in Entire /\ KindFields[2] \in Entire  BY <1>3, <3>1
    <3> QED  BY <2>2, <3>2
  <2>4. s \in Sizeless /\ t \in Sizeless  BY <2>1, <2>3 DEF Sizeless
  <2> QED  BY <2>1, <2>4, PairSplit
<1>6. Cat(KindFields, rest) \in Seq(Sizeless)  BY <1>1, <1>2, <1>5
<1> QED  BY <1>1, <1>4, <1>6 DEF InnerTail

(* What an inner transaction is written as.                                *)
InnerWritten(rest, i) == Owned(Cat(SizeField(42 + Length(rest)), InnerTail(rest)), i)

(* An inner transaction is delimited: its size field says its own length.  *)
LEMMA InnerContained ==
    ASSUME NEW rest \in Seq(Plain), NEW i \in Nat, i > 0
    PROVE  /\ InnerWritten(rest, i) \in Contained
           /\ Length(InnerWritten(rest, i)) = 42 + Length(rest)
           /\ Length(rest) \in Nat
<1> DEFINE n == 42 + Length(rest)
           x == SizeField(n)
           y == InnerTail(rest)
           a == Owned(x, i)
           b == Owned(y, i)
<1>1. rest \in Seq(Entire)  BY PlainEntire
<1>2. Length(Cat(x, y)) = n /\ Cat(x, y) \in Seq(Entire) /\ Length(rest) \in Nat
  <2>1. 0 \in Nat  OBVIOUS
  <2> QED  BY <1>1, <2>1, ToAggregateBytes
<1>3. n \in Nat  BY <1>2
<1> HIDE DEF n
<1>4. x \in Seq(Entire) /\ y \in Seq(Entire)  BY <1>1, <1>3, EntireFields, InnerTailOf
<1>5. Len(x) = 1 /\ x[1].field = "size" /\ x[1].v = n
  BY DEF SizeField, Written, Segment
<1>6. y \in Seq(Sizeless)  BY TailSizeless
<1> HIDE DEF x, y
<1>7. /\ a \in Seq(Entire) /\ Len(a) = 1 /\ a[1].field = "size" /\ a[1].v = n /\ a[1].owner = i
  <2>1. 1 \in 1..Len(x)  BY <1>5
  <2> QED  BY <1>4, <1>5, <2>1, OwnedOf
<1>8. b \in Seq(Entire) /\ Len(b) = Len(y) /\ \A k \in 1..Len(y) : b[k].field = y[k].field
  BY <1>4, OwnedOf
<1>9. Owned(Cat(x, y), i) = Cat(a, b) /\ Owned(Cat(x, y), i) \in Seq(Entire)
      /\ Length(Owned(Cat(x, y), i)) = n
  <2>1. Owned(Cat(x, y), i) = Cat(a, b)  BY <1>4, OwnedCat
  <2>2. Owned(Cat(x, y), i) \in Seq(Entire) /\ Length(Owned(Cat(x, y), i)) = Length(Cat(x, y))
    BY <1>2, OwnedOf
  <2> QED  BY <1>2, <2>1, <2>2
<1> HIDE DEF a, b
<1>10. Begins(b) = {} /\ Ends(b) = {}
  <2>1. \A k \in 1..Len(b) : b[k].field # "size"
    <3>1. \A k \in 1..Len(y) : y[k] \in Sizeless  BY <1>6
    <3> QED  BY <1>8, <3>1 DEF Sizeless
  <2> QED  BY <2>1, Unmarked
<1>11. Begins(a) = {0} /\ Ends(a) = {n}
  <2>1. a \in Seq(Seg)
    <3>1. Entire \subseteq Seg  BY DEF Entire, Solid
    <3> QED  BY <1>7, <3>1, SeqWider
  <2>2. Starts(a)[1] = 0  BY <2>1, StartsOf
  <2>3. Marked(a) = {1}
    <3>1. 1..1 = {1}  OBVIOUS
    <3> QED  BY <1>7, <3>1 DEF Marked
  <2>4. Begins(a) = {Starts(a)[1]} /\ Ends(a) = {Starts(a)[1] + a[1].v}
    BY <2>3 DEF Begins, Ends
  <2>5. 0 + n = n  BY <1>3
  <2> QED  BY <1>7, <2>2, <2>4, <2>5
<1>12. Begins(Cat(a, b)) = {0} /\ Ends(Cat(a, b)) = {n}
  <2>1. a \in Bytes /\ b \in Bytes  BY <1>7, <1>8, EntireBytes
  <2>2. /\ Begins(Cat(a, b)) = Begins(a) \cup Shifted(Length(a), Begins(b))
        /\ Ends(Cat(a, b)) = Ends(a) \cup Shifted(Length(a), Ends(b))
    BY <2>1, MarksJoin
  <2>3. Shifted(Length(a), {}) = {}  BY DEF Shifted
  <2> QED  BY <1>10, <1>11, <2>2, <2>3
<1>13. Owned(Cat(x, y), i) \in Contained
  BY <1>9, <1>12 DEF Contained, Delimited
<1> QED  BY <1>2, <1>9, <1>13 DEF InnerWritten, x, y, n

(* toAggregateTransactionBytes writes it.                                  *)
LEMMA ToAggregateWrites ==
    ASSUME NEW t, Framing(t), NEW i
    PROVE  Owned(toAggregateTransactionBytes(t.bytes), i) = InnerWritten(Rest(t.bytes), i)
<1> DEFINE rest == Rest(t.bytes)
<1>1. t.size \in Nat /\ t.bytes = Framed(t.size, 0, 0, rest) /\ rest \in Seq(Entire)
  BY DEF Framing
<1> HIDE DEF rest
<1>2. toAggregateTransactionBytes(Framed(t.size, 0, 0, rest))
          = Cat(SizeField(42 + Length(rest)), InnerTail(rest))
  BY <1>1, ToAggregateBytes
<1>3. toAggregateTransactionBytes(t.bytes) = Cat(SizeField(42 + Length(rest)), InnerTail(rest))
  BY <1>1, <1>2
<1> QED  BY <1>3 DEF InnerWritten, rest

(***************************************************************************)
(* Signing.                                                                *)
(***************************************************************************)
Signatures(k) == FlattenSeq([i \in 1..k |-> Cosignature])

(* Fields that are no sizes begin no inner transaction.                    *)
LEMMA SizelessEntire ==
    ASSUME NEW x \in Seq(Sizeless)
    PROVE  x \in Seq(Entire) /\ Begins(x) = {} /\ Ends(x) = {}
<1>1. Sizeless \subseteq Entire  BY DEF Sizeless
<1>2. x \in Seq(Entire)  BY <1>1, SeqWider
<1>3. \A i \in 1..Len(x) : x[i] \in Sizeless  OBVIOUS
<1>4. \A i \in 1..Len(x) : x[i].field # "size"  BY <1>3 DEF Sizeless
<1> QED  BY <1>2, <1>4, Unmarked

(* A cosignature has 96 bytes.                                             *)
LEMMA CosignatureOf ==
    Cosignature \in Seq(Sizeless) /\ Length(Cosignature) = 96
<1> DEFINE s == Written("cosigner", SignerSize, 1)
           t == Written("cosignature", SignatureSize, 1)
<1>1. Cosignature = <<s, t>>  BY DEF Cosignature
<1>2. "cosigner" \in FieldNames /\ "cosignature" \in FieldNames  BY DEF FieldNames, HeaderNames
<1>3. SignerSize = 32 /\ SignatureSize = 64  BY DEF SignerSize, SignatureSize
<1>4. s \in Solid /\ s.n = 32 /\ s.field = "cosigner" /\ s.from = 0 /\ s.whole = 32
  BY <1>2, <1>3, Written1
<1>5. t \in Solid /\ t.n = 64 /\ t.field = "cosignature" /\ t.from = 0 /\ t.whole = 64
  BY <1>2, <1>3, Written1
<1> HIDE DEF s, t
<1>6. s \in Sizeless /\ t \in Sizeless  BY <1>4, <1>5 DEF Sizeless, Entire
<1>7. <<s, t>> \in Seq(Sizeless)  BY <1>6, PairSplit
<1>8. <<s, t>> = <<s>> \o <<t>>  BY <1>6, PairSplit
<1>9. Length(<<t>>) = 64 /\ <<t>> \in Bytes
  <2>1. <<>> \in Bytes  BY CatNothing
  <2> QED  BY <1>5, <2>1, LengthCons
<1>10. Length(<<s>> \o <<t>>) = 96
  <2>1. Length(<<s>> \o <<t>>) = s.n + Length(<<t>>)  BY <1>4, <1>9, LengthCons
  <2>2. 32 + 64 = 96  OBVIOUS
  <2> QED  BY <1>4, <1>9, <2>1, <2>2
<1>11. Length(Cosignature) = 96  BY <1>1, <1>8, <1>10
<1> QED  BY <1>1, <1>7, <1>11

(* And k of them have k times as many.                                     *)
LEMMA SignaturesOf ==
    ASSUME NEW k \in Nat
    PROVE  /\ Signatures(k) \in Seq(Sizeless) /\ Signatures(k) \in Seq(Entire)
           /\ Length(Signatures(k)) = k * 96 /\ Signatures(0) = <<>>
<1> DEFINE P == [i \in 1..k |-> Cosignature]
           A == {i \in 0..k : Length(UpTo(P, i)) = i * 96}
<1>1. P \in Seq(Seq(Sizeless)) /\ Len(P) = k
  <2> DEFINE S == Seq(Sizeless)
  <2>1. Cosignature \in S  BY CosignatureOf
  <2> HIDE DEF S
  <2>2. P = [i \in 1..k |-> P[i]] /\ \A i \in 1..k : P[i] \in S  BY <2>1
  <2> HIDE DEF P
  <2>3. P \in Seq(S) /\ Len(P) = k  BY <2>2, ListOf
  <2> QED  BY <2>3 DEF S
<1>2. \A i \in 1..k : P[i] = Cosignature  OBVIOUS
<1>3. Signatures(k) = FlattenSeq(P)  BY DEF Signatures
<1> HIDE DEF P
<1>4. /\ \A i \in 0..k : UpTo(P, i) \in Seq(Sizeless)
      /\ \A i \in 1..k : UpTo(P, i) = UpTo(P, i - 1) \o P[i]
      /\ UpTo(P, 0) = <<>> /\ FlattenSeq(P) = UpTo(P, k)
  BY <1>1, FlatOf
<1>5. \A x \in Seq(Sizeless) : x \in Bytes  BY SizelessEntire, EntireBytes
<1>6. 0 \in A
  <2>1. 0 \in 0..k /\ 0 * 96 = 0  OBVIOUS
  <2> QED  BY <1>4, <2>1, CatNothing
<1>7. ASSUME NEW i \in 1..k, i - 1 \in A PROVE i \in A
  <2>1. i - 1 \in 0..k /\ i \in 0..k  OBVIOUS
  <2>2. UpTo(P, i - 1) \in Bytes /\ Cosignature \in Bytes /\ Length(Cosignature) = 96
    BY <1>4, <1>5, <2>1, CosignatureOf
  <2>3. UpTo(P, i) = Cat(UpTo(P, i - 1), Cosignature)  BY <1>2, <1>4 DEF Cat
  <2>4. Length(UpTo(P, i)) = Length(UpTo(P, i - 1)) + 96  BY <2>2, <2>3, CatBytes
  <2>5. Length(UpTo(P, i - 1)) = (i - 1) * 96  BY <1>7
  <2>6. (i - 1) * 96 + 96 = i * 96  OBVIOUS
  <2> QED  BY <2>1, <2>4, <2>5, <2>6
<1>8. Length(UpTo(P, k)) = k * 96
  <2> HIDE DEF A
  <2>1. 0..k \subseteq A  BY <1>6, <1>7, Induct
  <2>2. k \in A  BY <2>1
  <2> QED  BY <2>2 DEF A
<1>9. Signatures(k) \in Seq(Sizeless)
  <2>1. k \in 0..k  OBVIOUS
  <2> QED  BY <1>3, <1>4, <2>1
<1>10. Signatures(0) = <<>>
  <2>1. [i \in 1..0 |-> Cosignature] = <<>>  OBVIOUS
  <2>2. FlattenSeq(<<>>) = <<>>
    <3>1. <<>> \in Seq(Entire)  OBVIOUS
    <3> QED  BY <3>1, FlatOne
  <2> QED  BY <2>1, <2>2 DEF Signatures
<1> QED  BY <1>3, <1>4, <1>8, <1>9, <1>10, SizelessEntire

(* What is appended to a payload is at the end of what follows its header. *)
LEMMA FramedCat ==
    ASSUME NEW size \in Nat, NEW v \in Nat, NEW rest \in Bytes, NEW z \in Bytes
    PROVE  Cat(Framed(size, v, v, rest), z) = Framed(size, v, v, Cat(rest, z))
<1>1. /\ SizeField(size) \in Bytes /\ SignatureField(v) \in Bytes /\ SignerField(v) \in Bytes
      /\ KindFields \in Bytes /\ FeeFields \in Bytes
  BY FieldLists
<1> DEFINE a == Cat(FeeFields, rest)
           b == Cat(KindFields, a)
           c == Cat(SignerField(v), b)
           d == Cat(SignatureField(v), c)
<1>2. a \in Bytes /\ Cat(a, z) = Cat(FeeFields, Cat(rest, z))
  BY <1>1, CatBytes, CatAssociative
<1> HIDE DEF a
<1>3. b \in Bytes /\ Cat(b, z) = Cat(KindFields, Cat(a, z))
  BY <1>1, <1>2, CatBytes, CatAssociative
<1> HIDE DEF b
<1>4. c \in Bytes /\ Cat(c, z) = Cat(SignerField(v), Cat(b, z))
  BY <1>1, <1>3, CatBytes, CatAssociative
<1> HIDE DEF c
<1>5. d \in Bytes /\ Cat(d, z) = Cat(SignatureField(v), Cat(c, z))
  BY <1>1, <1>4, CatBytes, CatAssociative
<1> HIDE DEF d
<1>6. Cat(Cat(SizeField(size), d), z) = Cat(SizeField(size), Cat(d, z))
  BY <1>1, <1>5, CatAssociative
<1>7. Framed(size, v, v, rest) = Cat(SizeField(size), d)  BY DEF Framed, a, b, c, d
<1>8. Framed(size, v, v, Cat(rest, z))
          = Cat(SizeField(size), Cat(SignatureField(v), Cat(SignerField(v),
                Cat(KindFields, Cat(FeeFields, Cat(rest, z))))))
  BY DEF Framed
<1> QED  BY <1>2, <1>3, <1>4, <1>5, <1>6, <1>7, <1>8

(* What an account signs, and what the hash is computed from.              *)
Signed(generation, rest) == generation \o Cat(KindFields, Cat(FeeFields, rest))

Hashed(generation, rest) ==
    HalfSignature(1) \o SignerField(1) \o generation \o Cat(KindFields, Cat(FeeFields, rest))

(* The offsets of the header.                                              *)
LEMMA LayoutSizes ==
    /\ SizeSize = 4 /\ SignatureSize = 64 /\ SignerSize = 32 /\ HalfOfSignature = 32
    /\ SignedFrom = 100 /\ TransactionHeaderSize = 122
<1>1. SizeSize = 4 /\ SignatureSize = 64 /\ SignerSize = 32 /\ HalfOfSignature = 32
  BY DEF SizeSize, SignatureSize, SignerSize, HalfOfSignature
<1> QED  BY <1>1, PayloadSizes DEF SignedFrom, TransactionHeaderSize

(* The hash is computed from half the signature, the signer, the           *)
(* generation hash and all that follows the signer.                        *)
LEMMA HashFramed ==
    ASSUME NEW size \in Nat, NEW rest \in Bytes, NEW generation
    PROVE  createTransactionHash(Framed(size, 1, 1, rest), generation) = Hashed(generation, rest)
<1> DEFINE p == Framed(size, 1, 1, rest)
<1>1. /\ Slice(p, 4, 36) = HalfSignature(1) /\ Slice(p, 68, 100) = SignerField(1)
      /\ Slice(p, 100, Length(p)) = Cat(KindFields, Cat(FeeFields, rest))
  <2>1. 1 \in Nat  OBVIOUS
  <2> QED  BY <2>1, FramedParts
<1> HIDE DEF p
<1>2. 4 + 32 = 36 /\ 4 + 64 = 68  OBVIOUS
<1>3. createTransactionHash(p, generation)
          = Slice(p, 4, 36) \o Slice(p, 68, 100) \o generation \o Slice(p, 100, Length(p))
  BY <1>2, LayoutSizes DEF createTransactionHash
<1> QED  BY <1>1, <1>3 DEF Hashed, p

(* signTransactionWith, of a transaction that has its header.              *)
LEMMA SignedFramed ==
    ASSUME NEW size \in Nat, NEW rest \in Bytes, NEW generation
    PROVE  LET b == Framed(size, 0, 0, rest)
               stx == signTransactionWith(b, generation)
           IN  /\ stx.payload = Framed(size, 1, 1, rest)
               /\ stx.length = Length(Framed(size, 1, 1, rest))
               /\ stx.generation = generation /\ stx.cosigners = 0
               /\ stx.signing = Signed(generation, rest)
               /\ stx.hashing = Hashed(generation, rest)
               /\ stx = [payload |-> stx.payload, length |-> stx.length,
                         generation |-> generation, cosigners |-> 0,
                         signing |-> stx.signing, hashing |-> stx.hashing]
<1> DEFINE b == Framed(size, 0, 0, rest)
           p == Framed(size, 1, 1, rest)
           tail == Cat(KindFields, Cat(FeeFields, rest))
           q == Slice(b, 0, 4)
                    \o <<Written("signature", 64, 1), Written("signer", 32, 1)>>
                    \o Slice(b, 100, Length(b))
<1>1. Slice(b, 0, 4) = SizeField(size) /\ Slice(b, 100, Length(b)) = tail
  <2>1. 0 \in Nat  OBVIOUS
  <2> QED  BY <2>1, FramedParts
<1>2. tail \in Bytes
  <2>1. KindFields \in Bytes /\ FeeFields \in Bytes
    <3>1. 0 \in Nat  OBVIOUS
    <3> QED  BY <3>1, FieldLists
  <2> QED  BY <2>1, CatBytes
<1>3. SizeField(size) \in Bytes /\ SignatureField(1) \in Bytes /\ SignerField(1) \in Bytes
  <2>1. 1 \in Nat  OBVIOUS
  <2> QED  BY <2>1, FieldLists
<1>4. p = Cat(SizeField(size), Cat(SignatureField(1), Cat(SignerField(1), tail)))
  BY DEF Framed
<1> HIDE DEF b, p, tail
<1>5. <<Written("signature", 64, 1), Written("signer", 32, 1)>>
          = Cat(SignatureField(1), SignerField(1))
  <2> DEFINE s == Written("signature", 64, 1)
             t == Written("signer", 32, 1)
             S == {s, t}
  <2>1. s \in S /\ t \in S  OBVIOUS
  <2>2. SignatureField(1) = <<s>> /\ SignerField(1) = <<t>>
    BY LayoutSizes DEF SignatureField, SignerField
  <2> HIDE DEF s, t, S
  <2>3. <<s, t>> = <<s>> \o <<t>>  BY <2>1, PairSplit
  <2> QED  BY <2>2, <2>3 DEF s, t, Cat
<1>6. q = p
  <2>1. q = Cat(Cat(SizeField(size), Cat(SignatureField(1), SignerField(1))), tail)
    BY <1>1, <1>5 DEF Cat
  <2>2. Cat(SignatureField(1), SignerField(1)) \in Bytes  BY <1>3, CatBytes
  <2>3. Cat(Cat(SizeField(size), Cat(SignatureField(1), SignerField(1))), tail)
            = Cat(SizeField(size), Cat(Cat(SignatureField(1), SignerField(1)), tail))
    BY <1>2, <1>3, <2>2, CatAssociative
  <2>4. Cat(Cat(SignatureField(1), SignerField(1)), tail)
            = Cat(SignatureField(1), Cat(SignerField(1), tail))
    BY <1>2, <1>3, CatAssociative
  <2> QED  BY <1>4, <2>1, <2>3, <2>4
<1>7. signTransactionWith(b, generation)
          = [payload |-> q, length |-> Length(q), generation |-> generation, cosigners |-> 0,
             signing |-> generation \o Slice(b, 100, Length(b)),
             hashing |-> createTransactionHash(q, generation)]
  BY LayoutSizes DEF signTransactionWith
<1> HIDE DEF q
<1>8. createTransactionHash(p, generation) = Hashed(generation, rest)  BY HashFramed DEF p
<1>9. generation \o Slice(b, 100, Length(b)) = Signed(generation, rest)
  BY <1>1 DEF Signed, tail
<1>10. signTransactionWith(b, generation)
           = [payload |-> p, length |-> Length(p), generation |-> generation, cosigners |-> 0,
              signing |-> Signed(generation, rest), hashing |-> Hashed(generation, rest)]
  BY <1>6, <1>7, <1>8, <1>9
<1> QED  BY <1>10 DEF b, p

(* The size that a payload announces.                                      *)
Announced(s) == ReadNumber(s.payload, 0)

(* What was made of a transaction whose header `rest' follows.             *)
Shaped(s, rest) ==
    /\ s.cosigners \in Nat /\ Announced(s) \in Nat
    /\ s.payload = Framed(Announced(s), 1, 1, Cat(rest, Signatures(s.cosigners)))
    /\ s.length = Length(s.payload)
    /\ s.signing = Signed(s.generation, rest)
    /\ s.hashing = Hashed(s.generation, rest)

(* What follows the header, with the cosignatures.                         *)
LEMMA RestBytes ==
    ASSUME NEW rest \in Seq(Entire), NEW k \in Nat
    PROVE  /\ rest \in Bytes /\ Signatures(k) \in Bytes
           /\ Cat(rest, Signatures(k)) \in Seq(Entire) /\ Cat(rest, Signatures(k)) \in Bytes
           /\ Length(Cat(rest, Signatures(k))) = Length(rest) + k * 96 /\ Length(rest) \in Nat
<1>1. Signatures(k) \in Seq(Entire) /\ Length(Signatures(k)) = k * 96  BY SignaturesOf
<1>2. rest \in Bytes /\ Signatures(k) \in Bytes  BY <1>1, EntireBytes
<1>3. Cat(rest, Signatures(k)) \in Seq(Entire)  BY <1>1, EntireCat
<1>4. Cat(rest, Signatures(k)) \in Bytes  BY <1>3, EntireBytes
<1> DEFINE m == k * 96
<1>5. Length(Signatures(k)) = m  BY <1>1
<1> HIDE DEF m
<1>6. Length(Cat(rest, Signatures(k))) = Length(rest) + m /\ Length(rest) \in Nat
  BY <1>2, <1>5, CatBytes
<1> QED  BY <1>2, <1>3, <1>4, <1>6 DEF m

(* What is read back of a signed payload.                                  *)
LEMMA FramedReads ==
    ASSUME NEW size \in Nat, NEW rest \in Bytes
    PROVE  /\ Framed(size, 1, 1, rest) \in Bytes /\ Length(rest) \in Nat
           /\ Length(Framed(size, 1, 1, rest)) = 122 + Length(rest)
           /\ Slice(Framed(size, 1, 1, rest), 100, 122 + Length(rest))
                  = Cat(KindFields, Cat(FeeFields, rest))
           /\ Slice(Framed(size, 1, 1, rest), 4, 122 + Length(rest))
                  = Cat(SignatureField(1), Cat(SignerField(1), Cat(KindFields, Cat(FeeFields, rest))))
           /\ ReadNumber(Framed(size, 1, 1, rest), 0) = size
<1> DEFINE p == Framed(size, 1, 1, rest)
<1>1. 1 \in Nat  OBVIOUS
<1>2. /\ p \in Bytes /\ Length(rest) \in Nat /\ Length(p) = 122 + Length(rest)
      /\ Slice(p, 100, Length(p)) = Cat(KindFields, Cat(FeeFields, rest))
      /\ Slice(p, 4, Length(p))
             = Cat(SignatureField(1), Cat(SignerField(1), Cat(KindFields, Cat(FeeFields, rest))))
      /\ ReadNumber(p, 0) = size
  BY <1>1, FramedParts
<1> HIDE DEF p
<1> QED  BY <1>2 DEF p

(* signTransactionWith makes a payload that announces the transaction's    *)
(* size.                                                                   *)
LEMMA SignedShaped ==
    ASSUME NEW t, Framing(t), NEW generation
    PROVE  LET s == signTransactionWith(t.bytes, generation) IN
           /\ Shaped(s, Rest(t.bytes)) /\ Announced(s) = t.size
           /\ s.length = Length(t.bytes) /\ s.cosigners = 0
<1> DEFINE rest == Rest(t.bytes)
           s == signTransactionWith(t.bytes, generation)
           p == Framed(t.size, 1, 1, rest)
<1>1. /\ t.size \in Nat /\ t.bytes = Framed(t.size, 0, 0, rest) /\ rest \in Seq(Entire)
      /\ Length(t.bytes) = 122 + Length(rest)
  BY DEF Framing
<1> HIDE DEF rest
<1>2. rest \in Bytes  BY <1>1, EntireBytes
<1>3. /\ s.payload = p /\ s.length = Length(p) /\ s.generation = generation /\ s.cosigners = 0
      /\ s.signing = Signed(generation, rest) /\ s.hashing = Hashed(generation, rest)
  BY <1>1, <1>2, SignedFramed
<1>4. ReadNumber(p, 0) = t.size /\ Length(p) = 122 + Length(rest)
  <2>1. t.size \in Nat  BY <1>1
  <2> QED  BY <1>2, <2>1, FramedReads
<1> HIDE DEF s, p
<1>5. Announced(s) = t.size  BY <1>3, <1>4 DEF Announced
<1>6. Cat(rest, Signatures(0)) = rest
  <2>1. 0 \in Nat  OBVIOUS
  <2>2. Signatures(0) = <<>>  BY <2>1, SignaturesOf
  <2> QED  BY <1>2, <2>2, CatNothing
<1>7. s.payload = Framed(Announced(s), 1, 1, Cat(rest, Signatures(s.cosigners)))
  BY <1>3, <1>5, <1>6 DEF p
<1>8. 0 \in Nat  OBVIOUS
<1>9. Shaped(s, rest)  BY <1>1, <1>3, <1>5, <1>7, <1>8 DEF Shaped
<1>10. s.length = Length(t.bytes)  BY <1>1, <1>3, <1>4
<1> QED  BY <1>3, <1>5, <1>9, <1>10 DEF s, rest

(* signTransactionWithCosignatures makes one that announces its length.    *)
LEMMA CosignedShaped ==
    ASSUME NEW t, Framing(t), NEW generation, NEW k \in Nat
    PROVE  LET s == signTransactionWithCosignatures(t.bytes, generation, k) IN
           /\ Shaped(s, Rest(t.bytes)) /\ Announced(s) = Length(t.bytes) + k * 96
           /\ s.length = Length(t.bytes) + k * 96 /\ s.cosigners = k
<1> DEFINE rest == Rest(t.bytes)
           stx == signTransactionWith(t.bytes, generation)
           s == signTransactionWithCosignatures(t.bytes, generation, k)
           all == Cat(rest, Signatures(k))
           pb == stx.payload \o Signatures(k)
           m == k * 96
           n == Length(pb)
<1>1. /\ t.size \in Nat /\ t.bytes = Framed(t.size, 0, 0, rest) /\ rest \in Seq(Entire)
      /\ Length(t.bytes) = 122 + Length(rest)
  BY DEF Framing
<1> HIDE DEF rest
<1>2. /\ rest \in Bytes /\ Signatures(k) \in Bytes /\ all \in Bytes
      /\ Length(all) = Length(rest) + m /\ Length(rest) \in Nat
  BY <1>1, RestBytes
<1>3. /\ stx.payload = Framed(t.size, 1, 1, rest)
      /\ stx.generation = generation
      /\ stx.signing = Signed(generation, rest) /\ stx.hashing = Hashed(generation, rest)
      /\ stx = [payload |-> stx.payload, length |-> stx.length, generation |-> generation,
                cosigners |-> 0, signing |-> stx.signing, hashing |-> stx.hashing]
  BY <1>1, <1>2, SignedFramed
<1>4. pb = Framed(t.size, 1, 1, all)
  <2>1. 1 \in Nat /\ t.size \in Nat  BY <1>1
  <2>2. Cat(Framed(t.size, 1, 1, rest), Signatures(k)) = Framed(t.size, 1, 1, all)
    BY <1>2, <2>1, FramedCat
  <2> QED  BY <1>3, <2>2 DEF Cat
<1>5. m \in Nat  OBVIOUS
<1>6. s = [stx EXCEPT !.length = n,
                      !.payload = <<Written("size", 4, n)>> \o Slice(pb, 4, n),
                      !.cosigners = k]
  BY LayoutSizes DEF signTransactionWithCosignatures, Signatures
<1> HIDE DEF s, stx, pb, all, m, n
<1>7. /\ n = 122 + Length(all) /\ Length(all) \in Nat
      /\ Slice(pb, 4, n)
             = Cat(SignatureField(1), Cat(SignerField(1), Cat(KindFields, Cat(FeeFields, all))))
  <2> DEFINE size == t.size
             f == Framed(size, 1, 1, all)
  <2>1. size \in Nat /\ 1 \in Nat /\ all \in Bytes  BY <1>1, <1>2
  <2> HIDE DEF size
  <2>2. /\ Length(all) \in Nat /\ Length(f) = 122 + Length(all)
        /\ Slice(f, 4, 122 + Length(all))
             = Cat(SignatureField(1), Cat(SignerField(1), Cat(KindFields, Cat(FeeFields, all))))
    BY <2>1, FramedReads, ZenonT(60)
  <2>3. pb = f  BY <1>4 DEF size
  <2> HIDE DEF f
  <2> QED  BY <2>2, <2>3 DEF n
<1>8. n \in Nat  BY <1>7
<1>9. <<Written("size", 4, n)>> \o Slice(pb, 4, n) = Framed(n, 1, 1, all)
  <2>1. SizeField(n) = <<Written("size", 4, n)>>  BY LayoutSizes DEF SizeField
  <2> QED  BY <1>7, <2>1 DEF Framed, Cat
<1>10. /\ s.length = n /\ s.payload = Framed(n, 1, 1, all) /\ s.cosigners = k
       /\ s.generation = generation /\ s.signing = Signed(generation, rest)
       /\ s.hashing = Hashed(generation, rest)
  BY <1>3, <1>6, <1>9
<1>11. ReadNumber(Framed(n, 1, 1, all), 0) = n /\ Length(Framed(n, 1, 1, all)) = n
  BY <1>2, <1>7, <1>8, FramedReads
<1>12. Announced(s) = n  BY <1>10, <1>11 DEF Announced
<1>13. Shaped(s, rest)
  <2>1. s.payload = Framed(Announced(s), 1, 1, Cat(rest, Signatures(s.cosigners)))
    BY <1>10, <1>12 DEF all
  <2>2. s.length = Length(s.payload)  BY <1>10, <1>11
  <2> QED  BY <1>8, <1>10, <1>12, <2>1, <2>2 DEF Shaped
<1>14. n = Length(t.bytes) + m  BY <1>1, <1>2, <1>5, <1>7
<1> QED  BY <1>10, <1>12, <1>13, <1>14 DEF s, rest, m

(* What the node computes of it is what was signed.                        *)
Verifies(s) ==
    LET p == s.payload
        body == Slice(p, 0, Length(p) - s.cosigners * Length(Cosignature))
    IN  /\ s.signing = s.generation \o Slice(body, SignedFrom, Length(body))
        /\ s.hashing = createTransactionHash(body, s.generation)

(* Without its cosignatures the payload is what was signed.                *)
LEMMA ShapedVerifies ==
    ASSUME NEW s, NEW rest \in Seq(Entire), Shaped(s, rest)
    PROVE  Verifies(s)
<1> DEFINE k == s.cosigners
           m == k * 96
           size == Announced(s)
           f == Framed(size, 1, 1, rest)
           z == Signatures(k)
           p == s.payload
<1>1. /\ k \in Nat /\ size \in Nat /\ p = Framed(size, 1, 1, Cat(rest, z))
      /\ s.signing = Signed(s.generation, rest) /\ s.hashing = Hashed(s.generation, rest)
  BY DEF Shaped
<1> HIDE DEF k, size, p
<1>2. rest \in Bytes /\ z \in Bytes /\ Length(z) = m
  BY <1>1, RestBytes, SignaturesOf
<1>3. m \in Nat  BY <1>1
<1>4. Length(Cosignature) = 96  BY CosignatureOf
<1> HIDE DEF m, z
<1>5. f \in Bytes /\ Length(f) \in Nat /\ Slice(f, 100, Length(f)) = Cat(KindFields, Cat(FeeFields, rest))
  <2>1. f \in Bytes /\ Slice(f, 100, 122 + Length(rest)) = Cat(KindFields, Cat(FeeFields, rest))
        /\ Length(f) = 122 + Length(rest)
    <3>1. size \in Nat /\ 1 \in Nat /\ rest \in Bytes  BY <1>1, <1>2
    <3> QED  BY <3>1, FramedReads, ZenonT(60)
  <2> HIDE DEF f
  <2> QED  BY <2>1, BytesLength
<1>6. p = Cat(f, z)
  <2>1. 1 \in Nat  OBVIOUS
  <2> QED  BY <1>1, <1>2, <2>1, FramedCat
<1>7. createTransactionHash(f, s.generation) = Hashed(s.generation, rest)
  BY <1>1, <1>2, HashFramed
<1> HIDE DEF f
<1>8. Length(p) = Length(f) + m  BY <1>2, <1>5, <1>6, CatBytes
<1>9. Length(p) - m = Length(f)  BY <1>3, <1>5, <1>8
<1>10. Slice(p, 0, Length(f)) = f
  <2>1. <<>> \in Bytes /\ Length(<<>>) = 0 /\ Cat(<<>>, f) = f  BY <1>5, CatNothing
  <2>2. Slice(Cat(Cat(<<>>, f), z), Length(<<>>), Length(<<>>) + Length(f)) = f
    BY <1>2, <1>5, <2>1, SliceBetween
  <2>3. 0 + Length(f) = Length(f)  BY <1>5
  <2> QED  BY <1>6, <2>1, <2>2, <2>3
<1>11. Slice(p, 0, Length(p) - k * Length(Cosignature)) = f
  BY <1>4, <1>9, <1>10 DEF m
<1> QED  BY <1>1, <1>5, <1>7, <1>11, LayoutSizes DEF Verifies, Signed, k, p

(* Nothing of the payload is cut.                                          *)
LEMMA ShapedWhole ==
    ASSUME NEW s, NEW rest \in Seq(Entire), Shaped(s, rest)
    PROVE  s.payload \in Seq(Entire)
<1> DEFINE all == Cat(rest, Signatures(s.cosigners))
<1>1. s.cosigners \in Nat /\ Announced(s) \in Nat /\ s.payload = Framed(Announced(s), 1, 1, all)
  BY DEF Shaped
<1>2. all \in Seq(Entire)  BY <1>1, RestBytes
<1> HIDE DEF all
<1> QED  BY <1>1, <1>2, EntireFramed

(***************************************************************************)
(* The inner transactions gathered so far.                                 *)
(***************************************************************************)
InnerTx == [bytes : Contained, size : Nat, signer : BOOLEAN]

(* Their bytes and their sizes.                                            *)
Lists(s) == [i \in 1..Len(s) |-> s[i].bytes]
Together(s) == FlattenSeq(Lists(s))
Sums(s) ==
    CHOOSE f : f = [i \in 0..Len(s) |-> IF i = 0 THEN 0 ELSE f[i - 1] + s[i].size]
SizeSum(s) == Sums(s)[Len(s)]

(* In these words, InnerBytes and InnerSize.                               *)
LEMMA InnerOf == InnerBytes = Together(inner) /\ InnerSize = SizeSum(inner)
BY DEF InnerBytes, InnerSize, Together, Lists, SizeSum, Sums

(* The sums of the sizes.                                                  *)
LEMMA SumsOf ==
    ASSUME NEW s \in Seq(InnerTx)
    PROVE  /\ Sums(s)[0] = 0 /\ \A k \in 1..Len(s) : Sums(s)[k] = Sums(s)[k - 1] + s[k].size
           /\ \A k \in 0..Len(s) : Sums(s)[k] \in Nat
<1> DEFINE n == Len(s)
           step == [i \in 1..n |-> [x \in Nat |-> x + s[i].size]]
           Rec(g) == [i \in 0..n |-> IF i = 0 THEN 0 ELSE g[i - 1] + s[i].size]
           f == Walk(n, Nat, 0, step)
           C == CHOOSE g : g = Rec(g)
<1>1. n \in Nat /\ \A i \in 1..n : s[i].size \in Nat
  <2>1. \A i \in 1..n : s[i] \in InnerTx  OBVIOUS
  <2> QED  BY <2>1 DEF InnerTx
<1>2. f \in [0..n -> Nat] /\ f[0] = 0 /\ \A i \in 1..n : f[i] = step[i][f[i - 1]]
  <2>1. step \in [1..n -> [Nat -> Nat]] /\ 0 \in Nat  BY <1>1
  <2> HIDE DEF n, step
  <2>2. IsWalk(f, n, Nat, 0, step)  BY <1>1, <2>1, StepsExist
  <2> QED  BY <2>2 DEF IsWalk
<1> HIDE DEF f, n
<1>3. \A i \in 1..n : i - 1 \in 0..n /\ i \in 0..n /\ i # 0  BY <1>1
<1>4. \A i \in 1..n : f[i] = f[i - 1] + s[i].size  BY <1>2, <1>3
<1>5. f = Rec(f)
  <2>1. ASSUME NEW i \in 0..n PROVE f[i] = Rec(f)[i]
    <3>1. i # 0 => i \in 1..n  BY <1>1
    <3> QED  BY <1>2, <1>4, <3>1
  <2>2. f = [i \in 0..n |-> f[i]] /\ Rec(f) = [i \in 0..n |-> Rec(f)[i]]  BY <1>2
  <2> HIDE DEF Rec
  <2> QED  BY <2>1, <2>2
<1>6. C = Rec(C)
  <2> HIDE DEF Rec
  <2> QED  BY <1>5
<1>7. Sums(s) = C  BY DEF Sums, n
<1> HIDE DEF C
<1>8. C[0] = 0 /\ \A i \in 1..n : C[i] = C[i - 1] + s[i].size
  <2>1. 0 \in 0..n  BY <1>1
  <2> QED  BY <1>3, <1>6, <2>1
<1>9. \A i \in 0..n : C[i] \in Nat
  <2> DEFINE A == {i \in 0..n : C[i] \in Nat}
  <2>1. 0 \in A  BY <1>1, <1>8
  <2>2. \A i \in 1..n : i - 1 \in A => i \in A  BY <1>1, <1>3, <1>8
  <2> HIDE DEF A
  <2>3. 0..n \subseteq A  BY <1>1, <2>1, <2>2, Induct
  <2> QED  BY <2>3 DEF A
<1> QED  BY <1>7, <1>8, <1>9 DEF n

(* One more inner transaction adds its size.                               *)
LEMMA SizeSumOf ==
    /\ SizeSum(<<>>) = 0
    /\ \A s \in Seq(InnerTx) : SizeSum(s) \in Nat
    /\ \A s \in Seq(InnerTx), x \in InnerTx : SizeSum(Append(s, x)) = SizeSum(s) + x.size
<1>1. SizeSum(<<>>) = 0
  <2>1. <<>> \in Seq(InnerTx) /\ Len(<<>>) = 0  OBVIOUS
  <2> QED  BY <2>1, SumsOf DEF SizeSum
<1>2. ASSUME NEW s \in Seq(InnerTx) PROVE SizeSum(s) \in Nat
  <2>1. Len(s) \in 0..Len(s)  OBVIOUS
  <2> QED  BY <2>1, SumsOf DEF SizeSum
<1>3. ASSUME NEW s \in Seq(InnerTx), NEW x \in InnerTx
      PROVE  SizeSum(Append(s, x)) = SizeSum(s) + x.size
  <2> DEFINE n == Len(s)
             t == Append(s, x)
             S == Sums(s)
             T == Sums(t)
  <2>1. /\ n \in Nat /\ t \in Seq(InnerTx) /\ Len(t) = n + 1 /\ t[n + 1] = x
        /\ \A k \in 1..n : t[k] = s[k]
    OBVIOUS
  <2>2. S[0] = 0 /\ \A k \in 1..n : S[k] = S[k - 1] + s[k].size  BY SumsOf
  <2> HIDE DEF t
  <2>3. T[0] = 0 /\ \A k \in 1..n + 1 : T[k] = T[k - 1] + t[k].size  BY <2>1, SumsOf
  <2>4. SizeSum(s) = S[n] /\ SizeSum(t) = T[n + 1]  BY <2>1 DEF SizeSum
  <2> HIDE DEF n, S, T
  <2> DEFINE A == {k \in 0..n : S[k] = T[k]}
  <2>5. 0 \in A  BY <2>1, <2>2, <2>3
  <2>6. ASSUME NEW k \in 1..n, k - 1 \in A PROVE k \in A
    <3>1. k \in 0..n /\ k \in 1..n + 1  BY <2>1
    <3>2. S[k - 1] = T[k - 1] /\ t[k] = s[k]  BY <2>1, <2>6
    <3> QED  BY <2>2, <2>3, <3>1, <3>2
  <2>7. n \in A
    <3> HIDE DEF A
    <3>1. 0..n \subseteq A  BY <2>1, <2>5, <2>6, Induct
    <3> QED  BY <2>1, <3>1
  <2>8. n + 1 \in 1..n + 1 /\ (n + 1) - 1 = n  BY <2>1
  <2>9. T[n + 1] = T[n] + x.size  BY <2>1, <2>3, <2>8
  <2> QED  BY <2>4, <2>7, <2>9 DEF t
<1> QED  BY <1>1, <1>2, <1>3

(* And its bytes.                                                          *)
LEMMA TogetherOf ==
    /\ Together(<<>>) = <<>>
    /\ \A s \in Seq(InnerTx) : Together(s) \in Contained
    /\ \A s \in Seq(InnerTx), x \in InnerTx : Together(Append(s, x)) = Cat(Together(s), x.bytes)
<1>1. Together(<<>>) = <<>>
  <2>1. Lists(<<>>) = <<>>  BY DEF Lists
  <2>2. FlattenSeq(<<>>) = <<>>
    <3>1. <<>> \in Seq(Entire)  OBVIOUS
    <3> QED  BY <3>1, FlatOne
  <2> QED  BY <2>1, <2>2 DEF Together
<1>2. ASSUME NEW s \in Seq(InnerTx)
      PROVE  Lists(s) \in Seq(Contained) /\ Len(Lists(s)) = Len(s)
             /\ \A i \in 1..Len(s) : Lists(s)[i] = s[i].bytes
  <2>1. Len(s) \in Nat /\ \A i \in 1..Len(s) : s[i] \in InnerTx  OBVIOUS
  <2>2. /\ \A i \in 1..Len(s) : Lists(s)[i] = s[i].bytes
        /\ Lists(s) = [i \in 1..Len(s) |-> Lists(s)[i]]
    BY DEF Lists
  <2>3. \A i \in 1..Len(s) : Lists(s)[i] \in Contained  BY <2>1, <2>2 DEF InnerTx
  <2>4. Lists(s) \in Seq(Contained) /\ Len(Lists(s)) = Len(s)  BY <2>1, <2>2, <2>3, ListOf
  <2> QED  BY <2>2, <2>4
<1>3. ASSUME NEW s \in Seq(InnerTx) PROVE Together(s) \in Contained
  BY <1>2, ContainedFlat DEF Together
<1>4. ASSUME NEW s \in Seq(InnerTx), NEW x \in InnerTx
      PROVE  Together(Append(s, x)) = Cat(Together(s), x.bytes)
  <2> DEFINE n == Len(s)
             t == Append(s, x)
             P == Lists(s)
             Q == Lists(t)
             y == x.bytes
             D == Contained
  <2>1. /\ n \in Nat /\ t \in Seq(InnerTx) /\ Len(t) = n + 1 /\ t[n + 1] = x
        /\ \A k \in 1..n : t[k] = s[k]
    OBVIOUS
  <2>2. P \in Seq(D) /\ Len(P) = n /\ \A i \in 1..n : P[i] = s[i].bytes  BY <1>2
  <2> HIDE DEF t, P, n
  <2>3. Q \in Seq(D) /\ Len(Q) = n + 1 /\ \A i \in 1..n + 1 : Q[i] = t[i].bytes
    BY <1>2, <2>1
  <2>4. y \in D  BY DEF InnerTx
  <2> HIDE DEF Q, y
  <2> DEFINE R == P \o <<y>>
  <2>5. R \in Seq(D) /\ Len(R) = n + 1 /\ R[n + 1] = y /\ \A i \in 1..n : R[i] = P[i]
    <3> HIDE DEF D
    <3>1. <<y>> \in Seq(D) /\ Len(<<y>>) = 1 /\ <<y>>[1] = y  BY <2>4
    <3>2. P \in Seq(D) /\ <<y>> \in Seq(D)  BY <2>2, <3>1
    <3>3. /\ R \in Seq(D) /\ Len(R) = Len(P) + Len(<<y>>)
          /\ \A i \in 1..Len(P) : R[i] = P[i]
          /\ \A i \in 1..Len(<<y>>) : R[Len(P) + i] = <<y>>[i]
      BY <3>2, JoinParts
    <3>4. 1 \in 1..Len(<<y>>)  BY <3>1
    <3>5. R[Len(P) + 1] = y  BY <3>1, <3>3, <3>4
    <3> HIDE DEF R
    <3> QED  BY <2>2, <3>1, <3>3, <3>5
  <2> HIDE DEF R, D
  <2>6. ASSUME NEW i \in 1..n + 1 PROVE Q[i] = R[i]
    <3>1. CASE i = n + 1  BY <2>1, <2>3, <2>5, <3>1 DEF y
    <3>2. CASE i # n + 1
      <4>1. i \in 1..n  BY <2>1, <3>2
      <4> QED  BY <2>1, <2>2, <2>3, <2>5, <4>1
    <3> QED  BY <3>1, <3>2
  <2>7. Q = R
    <3>1. Q = [i \in 1..n + 1 |-> Q[i]]  BY <2>3
    <3>2. R = [i \in 1..n + 1 |-> R[i]]  BY <2>5
    <3> QED  BY <2>6, <3>1, <3>2
  <2>8. FlattenSeq(R) = FlattenSeq(P) \o y
    <3>1. D \subseteq Seq(Entire)  BY DEF D, Contained
    <3>2. P \in Seq(Seq(Entire)) /\ y \in Seq(Entire)  BY <2>2, <2>4, <3>1, SeqWider
    <3>3. <<y>> \in Seq(Seq(Entire))
      <4> DEFINE S == Seq(Entire)
      <4>1. y \in S  BY <3>2
      <4> HIDE DEF S
      <4>2. <<y>> \in Seq(S)  BY <4>1
      <4> QED  BY <4>2 DEF S
    <3>4. FlattenSeq(<<y>>) = y  BY <3>2, FlatOne
    <3>5. FlattenSeq(P \o <<y>>) = FlattenSeq(P) \o FlattenSeq(<<y>>)  BY <3>2, <3>3, FlatJoin
    <3> QED  BY <3>4, <3>5 DEF R
  <2> QED  BY <2>7, <2>8 DEF Together, Cat, P, Q, t, y
<1> QED  BY <1>1, <1>3, <1>4

(***************************************************************************)
(* The inductive invariant.                                                *)
(***************************************************************************)

(* What follows the header of an aggregate.                                *)
Packed(rest) == \E b \in Contained : rest = Cat(CountField(Length(b)), b)

Made(t) ==
    /\ Framing(t) /\ t.length = Length(t.bytes) /\ t.kind # "none"
    /\ t.kind = "aggregate" => Packed(Rest(t.bytes))

(* What has been gathered for an aggregate is delimited, what was made has *)
(* its header, and what was signed differs from it as signing says.        *)
LayoutInv ==
    /\ inner \in Seq(InnerTx)
    /\ tx = NoTx \/ Made(tx)
    /\ signed = NoPayload \/ (Made(tx) /\ Shaped(signed, Rest(tx.bytes)))

(* There is no transaction at first.                                       *)
LEMMA NoTxUnmade == ~Made(NoTx) /\ NoTx.kind = "none"
BY DEF Made, NoTx

(* A transaction of its own.                                               *)
LEMMA SingleMade ==
    ASSUME NEW t \in Transactions
    PROVE  Made(Single(t)) /\ Framing(t) /\ Rest(t.bytes) \in Seq(Plain)
<1>1. /\ Framing(t) /\ t.kind \in {"plain", "versioning"} /\ Rest(t.bytes) \in Seq(Plain)
  BY AllStand DEF Standing, Faithful, Abstract
<1>2. /\ Single(t).kind = t.kind /\ Single(t).bytes = t.bytes /\ Single(t).size = t.size
      /\ Single(t).length = Length(t.bytes)
  BY DEF Single
<1>3. Framing(Single(t))  BY <1>1, <1>2 DEF Framing
<1> QED  BY <1>1, <1>2, <1>3 DEF Made

(* An inner transaction.                                                   *)
LEMMA InnerMade ==
    ASSUME NEW t \in Transactions, NEW i \in Nat, i > 0, NEW hasSigner \in BOOLEAN
    PROVE  LET bytes == Owned(toAggregateTransactionBytes(t.bytes), i)
               size == t.size - SignatureSize - MaxFeeSize - DeadLineSize
           IN  /\ [bytes |-> bytes, size |-> size, signer |-> hasSigner] \in InnerTx
               /\ Length(bytes) = Length(t.bytes) - 80 /\ size = t.size - 80
               /\ Length(t.bytes) \in Nat /\ t.size \in Nat
<1> DEFINE bytes == Owned(toAggregateTransactionBytes(t.bytes), i)
           size == t.size - SignatureSize - MaxFeeSize - DeadLineSize
           rest == Rest(t.bytes)
<1>1. Framing(t) /\ rest \in Seq(Plain)  BY SingleMade
<1>2. t.size \in Nat /\ t.size >= 122 /\ Length(t.bytes) = 122 + Length(rest)
  BY <1>1 DEF Framing
<1>3. bytes = InnerWritten(rest, i)  BY <1>1, ToAggregateWrites
<1> HIDE DEF bytes, rest
<1>4. bytes \in Contained /\ Length(bytes) = 42 + Length(rest) /\ Length(rest) \in Nat
  BY <1>1, <1>3, InnerContained
<1>5. MaxFeeSize = 8 /\ DeadLineSize = 8  BY DEF MaxFeeSize, DeadLineSize
<1>6. size = t.size - 80 /\ size \in Nat  BY <1>2, <1>5, LayoutSizes
<1> HIDE DEF size
<1>7. [bytes |-> bytes, size |-> size, signer |-> hasSigner] \in InnerTx
  BY <1>4, <1>6 DEF InnerTx
<1>8. Length(bytes) = Length(t.bytes) - 80 /\ Length(t.bytes) \in Nat  BY <1>2, <1>4
<1> QED  BY <1>2, <1>6, <1>7, <1>8 DEF bytes, size

(* An aggregate of inner transactions.                                     *)
LEMMA AggregateMade ==
    ASSUME NEW b \in Contained, InnerSize \in Nat
    PROVE  LET t == AggregateTransaction(b) IN
           /\ Framing(t) /\ t.kind = "aggregate" /\ t.size = 122 + 4 + InnerSize
           /\ Rest(t.bytes) = Cat(CountField(Length(b)), b)
           /\ Length(t.bytes) = 122 + Payload!aggregateSchema(Length(b))
<1> DEFINE s == <<scalarAttribute(IntSize), arrayAttribute(ByteSize)>>
           values == [transactionsSize |-> Length(b), transactions |-> BytesVector(b)]
           type == [kind |-> "aggregate", size |-> 122 + 4 + InnerSize]
           t == AggregateTransaction(b)
           rest == Cat(CountField(Length(b)), b)
<1>1. b \in Seq(Entire) /\ b \in Bytes /\ Length(b) \in Nat
  BY EntireBytes, BytesLength DEF Contained
<1>2. Fits(s, Build(AggregateTransactionBuffer, values))  BY <1>1, AggregateFits
<1>3. Body(s, Build(AggregateTransactionBuffer, values)) = rest  BY <1>1, AggregateBody
<1>4. CountField(Length(b)) \in Seq(Entire)
      /\ Length(CountField(Length(b))) = Payload!IntSize(Length(b))
  BY <1>1, CountFieldOf
<1>5. rest \in Seq(Entire)  BY <1>1, <1>4, EntireCat
<1>6. t = generateBytes(type, AggregateTransactionBuffer, headerSchema \o s, values)
  BY LayoutSizes DEF AggregateTransaction, aggregateTransactionSchema
<1>7. type.size \in Nat /\ type.size >= 122 /\ type.kind = "aggregate"
      /\ type.size = 122 + 4 + InnerSize
  OBVIOUS
<1> HIDE DEF s, values, type, t, rest
<1>8. /\ Framing(t) /\ t.kind = "aggregate" /\ t.size = 122 + 4 + InnerSize /\ Rest(t.bytes) = rest
  BY <1>2, <1>3, <1>5, <1>6, <1>7, GeneratedFrame
<1>9. Length(rest) = Payload!aggregateSchema(Length(b))
  <2>1. CountField(Length(b)) \in Bytes  BY <1>4, EntireBytes
  <2>2. Length(rest) = Payload!IntSize(Length(b)) + Length(b)
    BY <1>1, <1>4, <2>1, CatBytes DEF rest
  <2> QED  BY <2>2 DEF Payload!aggregateSchema
<1>10. Length(t.bytes) = 122 + Payload!aggregateSchema(Length(b))
  BY <1>8, <1>9 DEF Framing
<1> QED  BY <1>8, <1>10 DEF t, rest

(***************************************************************************)
(* It holds at first and every step preserves it.                          *)
(***************************************************************************)
LEMMA LayoutInvInit == Init => LayoutInv
<1>1. <<>> \in Seq(InnerTx)  OBVIOUS
<1> QED  BY <1>1 DEF Init, LayoutInv

(* Each step preserves it: a transaction is built with its header whole,   *)
(* an inner one is added delimited, an aggregate holds delimited ones, and *)
(* signing keeps what follows the header.                                  *)
LEMMA LayoutInvNext == LayoutInv /\ [Next]_vars => LayoutInv'
<1> SUFFICES ASSUME LayoutInv, [Next]_vars PROVE LayoutInv'  OBVIOUS
<1>0. /\ inner \in Seq(InnerTx) /\ (tx = NoTx \/ Made(tx))
      /\ (signed = NoPayload \/ (Made(tx) /\ Shaped(signed, Rest(tx.bytes))))
  BY DEF LayoutInv
<1>1. tx = NoTx => signed = NoPayload  BY <1>0, NoTxUnmade
<1>2. ASSUME NEW t \in Transactions, New(t) PROVE LayoutInv'
  <2>1. tx' = Single(t) /\ inner' = inner /\ signed' = NoPayload  BY <1>1, <1>2 DEF New
  <2>2. Made(Single(t))  BY SingleMade
  <2> QED  BY <1>0, <2>1, <2>2 DEF LayoutInv
<1>3. ASSUME NEW t \in Transactions, NEW hasSigner \in BOOLEAN, ToAggregate(t, hasSigner)
      PROVE  LayoutInv'
  <2> DEFINE x == [bytes |-> Owned(toAggregateTransactionBytes(t.bytes), Len(inner) + 1),
                   size |-> t.size - SignatureSize - MaxFeeSize - DeadLineSize,
                   signer |-> hasSigner]
  <2>1. tx' = NoTx /\ inner' = Append(inner, x) /\ signed' = NoPayload
    BY <1>1, <1>3 DEF ToAggregate
  <2>2. Len(inner) + 1 \in Nat /\ Len(inner) + 1 > 0  BY <1>0
  <2>3. x \in InnerTx  BY <2>2, InnerMade
  <2> HIDE DEF x
  <2>4. inner' \in Seq(InnerTx)  BY <1>0, <2>1, <2>3
  <2> QED  BY <2>1, <2>4 DEF LayoutInv
<1>4. CASE NewAggregate
  <2> DEFINE b == InnerBytes
             t == AggregateTransaction(b)
  <2>1. /\ tx' = [kind |-> t.kind, bytes |-> t.bytes, length |-> Length(t.bytes),
                  size |-> t.size, maxFee |-> Payload!MaxFee(t.kind, t.size),
                  transactionsSize |-> Length(b),
                  signers |-> \A i \in 1..Len(inner) : inner[i].signer]
        /\ inner' = <<>> /\ signed' = NoPayload
    BY <1>1, <1>4 DEF NewAggregate
  <2>2. b \in Contained /\ InnerSize \in Nat  BY <1>0, InnerOf, TogetherOf, SizeSumOf
  <2> HIDE DEF b
  <2>3. Framing(t) /\ t.kind = "aggregate" /\ Rest(t.bytes) = Cat(CountField(Length(b)), b)
    BY <2>2, AggregateMade
  <2> HIDE DEF t
  <2>4. /\ tx'.kind = "aggregate" /\ tx'.bytes = t.bytes /\ tx'.size = t.size
        /\ tx'.length = Length(t.bytes)
    BY <2>1, <2>3
  <2>5. Framing(tx')  BY <2>3, <2>4 DEF Framing
  <2>6. Packed(Rest(tx'.bytes))  BY <2>2, <2>3, <2>4 DEF Packed
  <2>7. Made(tx')  BY <2>4, <2>5, <2>6 DEF Made
  <2>8. <<>> \in Seq(InnerTx)  OBVIOUS
  <2> QED  BY <2>1, <2>7, <2>8 DEF LayoutInv
<1>5. ASSUME NEW has \in BOOLEAN, SignTransactionWith(has) PROVE LayoutInv'
  <2>1. /\ tx # NoTx /\ tx' = tx /\ inner' = inner
        /\ signed' = IF tx.signers THEN signTransactionWith(tx.bytes, GenerationHash(has))
                     ELSE NoPayload
    BY <1>5 DEF SignTransactionWith
  <2>2. Made(tx) /\ Framing(tx)  BY <1>0, <2>1 DEF Made
  <2>3. Shaped(signTransactionWith(tx.bytes, GenerationHash(has)), Rest(tx.bytes))
    BY <2>2, SignedShaped
  <2> QED  BY <1>0, <2>1, <2>2, <2>3 DEF LayoutInv
<1>6. ASSUME NEW has \in BOOLEAN, NEW k \in 0..MaxCosigners,
             SignTransactionWithCosignatures(has, k)
      PROVE  LayoutInv'
  <2> DEFINE s == signTransactionWithCosignatures(tx.bytes, GenerationHash(has), k)
  <2>1. /\ tx.kind = "aggregate" /\ tx' = tx /\ inner' = inner
        /\ signed' = IF tx.signers THEN s ELSE NoPayload
    BY <1>6 DEF SignTransactionWithCosignatures
  <2>2. Made(tx) /\ Framing(tx)  BY <1>0, <2>1, NoTxUnmade DEF Made
  <2>3. k \in Nat  BY LayoutConstants
  <2>4. Shaped(s, Rest(tx.bytes))  BY <2>2, <2>3, CosignedShaped
  <2> HIDE DEF s
  <2> QED  BY <1>0, <2>1, <2>2, <2>4 DEF LayoutInv
<1>7. CASE UNCHANGED vars
  BY <1>0, <1>7 DEF LayoutInv, vars
<1> QED  BY <1>2, <1>3, <1>4, <1>5, <1>6, <1>7 DEF Next

(* In every reachable state the transaction to be signed is its header and *)
(* what was built behind it, an aggregate holds inner transactions that a  *)
(* node can walk, and what was signed of it differs in the size field, the *)
(* signature, the signer and the cosignatures only (generateBytes,         *)
(* toAggregateTransactionBytes, signTransactionWith,                       *)
(* signTransactionWithCosignatures).                                       *)
THEOREM LayoutInvariant == Spec => []LayoutInv
BY LayoutInvInit, LayoutInvNext, PTL DEF Spec

(***************************************************************************)
(* What it means for payloads.                                             *)
(***************************************************************************)
(* The offsets at which signTransactionWith and                            *)
(* toAggregateTransactionBytes take payloads apart cut no field, and none  *)
(* of the places kept for a signature and a signer is left empty, for      *)
(* lengths of any size.                                                    *)
THEOREM NoFieldCut == Spec => []FieldsWhole
<1>1. LayoutInv => FieldsWhole
  <2> SUFFICES ASSUME LayoutInv PROVE FieldsWhole  OBVIOUS
  <2>1. Made(tx) => Rest(tx.bytes) \in Seq(Entire)  BY DEF Made, Framing
  <2>2. signed.payload \in Seq(Entire)
    <3>1. CASE signed = NoPayload
      <4>1. signed.payload = <<>>  BY <3>1 DEF NoPayload
      <4> QED  BY <4>1
    <3>2. CASE signed # NoPayload
      <4>1. Rest(tx.bytes) \in Seq(Entire) /\ Shaped(signed, Rest(tx.bytes))
        BY <2>1, <3>2 DEF LayoutInv
      <4> QED  BY <4>1, ShapedWhole
    <3> QED  BY <3>1, <3>2
  <2>3. \A i \in 1..Len(signed.payload) : signed.payload[i] \in Entire  BY <2>2
  <2> QED  BY <2>3 DEF FieldsWhole, Entire
<1> QED  BY <1>1, LayoutInvariant, PTL

(* What was signed, and the hash that was announced, are computed again    *)
(* from the payload that is sent, for every transaction and any number of  *)
(* cosignatures (signTransactionWith, createTransactionHash,               *)
(* signTransactionWithCosignatures).                                       *)
THEOREM AlwaysVerifiable == Spec => []Verifiable
<1>1. LayoutInv => Verifiable
  <2> SUFFICES ASSUME LayoutInv PROVE Verifiable  OBVIOUS
  <2>1. CASE signed = NoPayload  BY <2>1 DEF Verifiable
  <2>2. CASE signed # NoPayload
    <3>1. Made(tx) /\ Shaped(signed, Rest(tx.bytes))  BY <2>2 DEF LayoutInv
    <3>2. Rest(tx.bytes) \in Seq(Entire)  BY <3>1 DEF Made, Framing
    <3>3. Verifies(signed)  BY <3>1, <3>2, ShapedVerifies
    <3> QED  BY <3>3 DEF Verifies, Verifiable
  <2> QED  BY <2>1, <2>2
<1> QED  BY <1>1, LayoutInvariant, PTL

(***************************************************************************)
(* The inner transactions of a payload are found.                          *)
(***************************************************************************)
Markless(b) == Begins(b) = {} /\ Ends(b) = {}

(* Putting together what has no sizes of inner transactions.               *)
LEMMA MarklessJoin ==
    ASSUME NEW x \in Bytes, NEW y \in Bytes
    PROVE  /\ Markless(x) /\ Markless(y) => Markless(Cat(x, y))
           /\ Markless(x) => /\ Begins(Cat(x, y)) = Shifted(Length(x), Begins(y))
                             /\ Ends(Cat(x, y)) = Shifted(Length(x), Ends(y))
           /\ Markless(y) => Begins(Cat(x, y)) = Begins(x) /\ Ends(Cat(x, y)) = Ends(x)
<1>1. /\ Begins(Cat(x, y)) = Begins(x) \cup Shifted(Length(x), Begins(y))
      /\ Ends(Cat(x, y)) = Ends(x) \cup Shifted(Length(x), Ends(y))
  BY MarksJoin
<1>2. Shifted(Length(x), {}) = {}  BY DEF Shifted
<1> QED  BY <1>1, <1>2 DEF Markless

(* A field that belongs to no inner transaction is no size of one.         *)
LEMMA OwnerlessMarkless ==
    ASSUME NEW field, NEW n, NEW v, NEW other, NEW m, NEW w
    PROVE  /\ Markless(<<Written(field, n, v)>>)
           /\ Markless(<<Written(field, n, v), Written(other, m, w)>>)
<1> DEFINE s == Written(field, n, v)
           t == Written(other, m, w)
<1>1. s.owner = 0 /\ t.owner = 0 /\ ~(0 > 0)  BY DEF Written, Segment
<1> HIDE DEF s, t
<1>2. \A i \in 1..Len(<<s>>) : <<s>>[i].owner = 0  BY <1>1
<1>3. \A i \in 1..Len(<<s, t>>) : <<s, t>>[i].owner = 0  BY <1>1
<1>4. Begins(<<s>>) = {} /\ Ends(<<s>>) = {}  BY <1>1, <1>2, Unmarked
<1>5. Begins(<<s, t>>) = {} /\ Ends(<<s, t>>) = {}  BY <1>1, <1>3, Unmarked
<1> QED  BY <1>4, <1>5 DEF Markless, s, t

(* The header of a signed payload.                                         *)
HeaderOf(size) == Framed(size, 1, 1, <<>>)

(* It has 122 bytes, and the rest of the payload follows it.               *)
LEMMA HeaderOfSigned ==
    ASSUME NEW size \in Nat
    PROVE  /\ HeaderOf(size) \in Bytes /\ Length(HeaderOf(size)) = 122 /\ Markless(HeaderOf(size))
           /\ \A rest \in Bytes : Framed(size, 1, 1, rest) = Cat(HeaderOf(size), rest)
<1>1. 1 \in Nat  OBVIOUS
<1>2. <<>> \in Bytes /\ Length(<<>>) = 0  BY CatNothing
<1>3. HeaderOf(size) \in Bytes /\ Length(HeaderOf(size)) = 122 + 0
  BY <1>2, FramedReads DEF HeaderOf
<1>4. ASSUME NEW rest \in Bytes PROVE Framed(size, 1, 1, rest) = Cat(HeaderOf(size), rest)
  <2>1. Cat(Framed(size, 1, 1, <<>>), rest) = Framed(size, 1, 1, Cat(<<>>, rest))
    BY <1>1, <1>2, FramedCat
  <2>2. Cat(<<>>, rest) = rest  BY CatNothing
  <2> QED  BY <2>1, <2>2 DEF HeaderOf
<1>5. /\ SizeField(size) \in Bytes /\ SignatureField(1) \in Bytes /\ SignerField(1) \in Bytes
      /\ KindFields \in Bytes /\ FeeFields \in Bytes
  BY <1>1, FieldLists
<1>6. /\ Markless(SizeField(size)) /\ Markless(SignatureField(1)) /\ Markless(SignerField(1))
      /\ Markless(KindFields) /\ Markless(FeeFields)
  BY OwnerlessMarkless DEF SizeField, SignatureField, SignerField, KindFields, FeeFields
<1> DEFINE b == Cat(KindFields, FeeFields)
           c == Cat(SignerField(1), b)
           d == Cat(SignatureField(1), c)
<1>7. b \in Bytes /\ Markless(b)  BY <1>5, <1>6, CatBytes, MarklessJoin
<1>8. c \in Bytes /\ Markless(c)  BY <1>5, <1>6, <1>7, CatBytes, MarklessJoin
<1>9. d \in Bytes /\ Markless(d)  BY <1>5, <1>6, <1>8, CatBytes, MarklessJoin
<1>10. Markless(Cat(SizeField(size), d))  BY <1>5, <1>6, <1>9, MarklessJoin
<1>11. HeaderOf(size) = Cat(SizeField(size), d)
  <2>1. Cat(FeeFields, <<>>) = FeeFields  BY <1>5, CatNothing
  <2> QED  BY <2>1 DEF HeaderOf, Framed
<1> QED  BY <1>3, <1>4, <1>10, <1>11

(* Bytes that are none are no fields.                                      *)
LEMMA NoLength ==
    ASSUME NEW b \in Bytes, Length(b) = 0
    PROVE  Markless(b)
<1>1. Len(b) = 0
  <2> SUFFICES ASSUME Len(b) # 0 PROVE FALSE  OBVIOUS
  <2>1. Len(b) \in Nat /\ b \in Seq(Solid)  BY DEF Bytes
  <2>2. 1 \in 1..Len(b) /\ Len(b) + 1 \in 1 + 1..Len(b) + 1  BY <2>1
  <2>3. Starts(b)[1] < Starts(b)[Len(b) + 1]  BY <2>1, <2>2, StartsRise
  <2>4. Starts(b)[1] = 0 /\ Length(b) = Starts(b)[Len(b) + 1]
    BY <2>1, SolidSeq, StartsOf, LengthOf
  <2> QED  BY <2>3, <2>4
<1>2. \A i \in 1..Len(b) : b[i].field = "size" => ~(b[i].owner > 0)  BY <1>1
<1> QED  BY <1>2, Unmarked DEF Markless

(* An aggregate as it is sent: what precedes its transactions, they, and   *)
(* what follows them.                                                      *)
LEMMA PackedMarks ==
    ASSUME NEW size \in Nat, NEW b \in Contained, NEW k \in Nat
    PROVE  LET p == Framed(size, 1, 1, Cat(Cat(CountField(Length(b)), b), Signatures(k))) IN
           /\ Begins(p) \cup {126 + Length(b)} = {126} \cup Ends(p)
           /\ ReadNumber(p, 122) = Length(b)
<1> DEFINE L == Length(b)
           w == Payload!IntSize(L)
           s == Segment("transactionsSize", w, L, <<>>)
           z == Signatures(k)
           h == HeaderOf(size)
           p == Framed(size, 1, 1, Cat(Cat(CountField(L), b), z))
           head == Cat(h, <<s>>)
           tail == Cat(b, z)
           By == Begins(b)
           Ey == Ends(b)
<1>1. b \in Bytes /\ L \in Nat /\ By \cup {L} = {0} \cup Ey
  BY EntireBytes, BytesLength DEF Contained, Delimited
<1>2. z \in Bytes /\ Markless(z)
  BY SignaturesOf, SizelessEntire, EntireBytes DEF Markless
<1>3. CountField(L) = <<s>> /\ s \in Entire /\ w \in Nat /\ w > 0
      /\ (L # 0 => w = 4)
  <2>1. CountField(L) = <<s>>  BY DEF CountField
  <2>2. s \in Entire /\ w \in Nat /\ w > 0  BY <1>1, CountFieldOf
  <2>3. L # 0 => w = 4  BY DEF Payload!IntSize
  <2> QED  BY <2>1, <2>2, <2>3
<1>4. s \in Solid /\ s.n = w /\ s.v = L /\ s.owner = 0 /\ s = Written("transactionsSize", w, L)
  BY <1>3 DEF Entire, Written, Segment
<1> HIDE DEF L, w, s, z, By, Ey
<1>5. h \in Bytes /\ Length(h) = 122 /\ Markless(h)
      /\ \A rest \in Bytes : Framed(size, 1, 1, rest) = Cat(h, rest)
  BY HeaderOfSigned
<1> HIDE DEF h
<1>6. <<s>> \in Bytes /\ Length(<<s>>) = w /\ Markless(<<s>>)
  <2>1. <<>> \in Bytes  BY CatNothing
  <2>2. <<s>> \in Bytes /\ Length(<<s>>) = w  BY <1>4, <2>1, LengthCons
  <2>3. Markless(<<s>>)  BY <1>4, OwnerlessMarkless
  <2> QED  BY <2>2, <2>3
<1>7. head \in Bytes /\ Length(head) = 122 + w /\ Markless(head)
  BY <1>5, <1>6, CatBytes, MarklessJoin
<1>8. tail \in Bytes /\ Begins(tail) = By /\ Ends(tail) = Ey
  BY <1>1, <1>2, CatBytes, MarklessJoin DEF By, Ey
<1>9. p = Cat(head, tail)
  <2>1. Cat(<<s>>, b) \in Bytes /\ Cat(Cat(<<s>>, b), z) = Cat(<<s>>, tail)
        /\ Cat(<<s>>, tail) \in Bytes
    BY <1>1, <1>2, <1>6, <1>8, CatBytes, CatAssociative
  <2>2. Cat(h, Cat(<<s>>, tail)) = Cat(head, tail)  BY <1>5, <1>6, <1>8, CatAssociative
  <2> QED  BY <1>3, <1>5, <2>1, <2>2
<1> HIDE DEF p, head
<1>10. Begins(p) = Shifted(122 + w, By) /\ Ends(p) = Shifted(122 + w, Ey)
  BY <1>7, <1>8, <1>9, MarklessJoin
<1>11. Begins(p) \cup {126 + L} = {126} \cup Ends(p)
  <2>1. CASE L = 0
    <3>1. By = {} /\ Ey = {}  BY <1>1, <2>1, NoLength DEF Markless, By, Ey, L
    <3>2. Begins(p) = {} /\ Ends(p) = {}  BY <1>10, <3>1 DEF Shifted
    <3>3. 126 + L = 126  BY <2>1
    <3> QED  BY <3>2, <3>3
  <2>2. CASE L # 0
    <3>1. 122 + w = 126  BY <1>3, <2>2
    <3>2. \A A, B : Shifted(126, A \cup B) = Shifted(126, A) \cup Shifted(126, B)
      BY DEF Shifted
    <3>3. Shifted(126, {L}) = {126 + L}  BY DEF Shifted
    <3>4. Shifted(126, {0}) = {126}
      <4>1. 126 + 0 = 126  OBVIOUS
      <4> QED  BY <4>1 DEF Shifted
    <3>5. Shifted(126, By \cup {L}) = Shifted(126, {0} \cup Ey)  BY <1>1
    <3> QED  BY <1>10, <3>1, <3>2, <3>3, <3>4, <3>5
  <2> QED  BY <2>1, <2>2
<1>12. ReadNumber(p, 122) = L
  <2>1. 0 \in Nat /\ 1 \in Nat /\ 0 < 1 /\ 1 <= s.n  BY <1>3, <1>4
  <2>2. Slice(Cat(Cat(h, <<s>>), tail), Length(h) + 0, Length(h) + 1) = <<PartOf(s, 0, 1 - 0)>>
    BY <1>4, <1>5, <1>8, <2>1, SliceInside
  <2>3. Length(h) + 0 = 122 /\ Length(h) + 1 = 122 + 1  BY <1>5
  <2>4. Slice(p, 122, 122 + 1) = <<PartOf(s, 0, 1 - 0)>>  BY <1>9, <2>2, <2>3 DEF head
  <2>5. PartOf(s, 0, 1 - 0).v = s.v
    <3>1. s \in Seg  BY <1>4 DEF Solid
    <3> QED  BY <3>1 DEF PartOf, Seg
  <2> QED  BY <1>4, <2>4, <2>5 DEF ReadNumber
<1> QED  BY <1>11, <1>12 DEF p, L, z

(* A node that walks an aggregate from size field to size field meets each *)
(* inner transaction and ends where transactionsSize says, for any number  *)
(* of inner transactions, of any length, and of cosignatures               *)
(* (toAggregateTransactionBytes, AggregateTransaction.generateBytes).      *)
THEOREM InnerTransactionsFound == Spec => []InnerDelimited
<1>1. LayoutInv => InnerDelimited
  <2> SUFFICES ASSUME LayoutInv, tx.kind = "aggregate", signed # NoPayload
               PROVE  InnerDelimited
    BY DEF InnerDelimited
  <2> DEFINE p == signed.payload
             k == signed.cosigners
             size == Announced(signed)
  <2>1. Made(tx) /\ Shaped(signed, Rest(tx.bytes))  BY DEF LayoutInv
  <2>2. PICK b \in Contained : Rest(tx.bytes) = Cat(CountField(Length(b)), b)
    BY <2>1 DEF Made, Packed
  <2>3. /\ k \in Nat /\ size \in Nat
        /\ p = Framed(size, 1, 1, Cat(Cat(CountField(Length(b)), b), Signatures(k)))
    BY <2>1, <2>2 DEF Shaped
  <2> HIDE DEF p, k, size
  <2>4. Begins(p) \cup {126 + Length(b)} = {126} \cup Ends(p) /\ ReadNumber(p, 122) = Length(b)
    BY <2>3, PackedMarks
  <2>5. TransactionHeaderSize = 122 /\ 122 + SizeSize = 126  BY LayoutSizes
  <2>6. Begins(p) \cup {126 + ReadNumber(p, 122)} = {126} \cup Ends(p)  BY <2>4
  <2> QED  BY <2>5, <2>6 DEF InnerDelimited, Begins, Ends, Marked, p
<1> QED  BY <1>1, LayoutInvariant, PTL

(***************************************************************************)
(* TxLayout implements TxPayload: the states it maps to.                   *)
(***************************************************************************)
TxOf(t) ==
    [kind |-> t.kind, bytes |-> t.length, size |-> t.size, maxFee |-> t.maxFee,
     transactionsSize |-> t.transactionsSize, signers |-> t.signers]

AllSigners(s) == \A i \in 1..Len(s) : s[i].signer

InnersOf(s) ==
    [count |-> Len(s), bytes |-> Length(Together(s)), size |-> SizeSum(s),
     signers |-> AllSigners(s)]

SignedOf(s) ==
    [length |-> s.length, sizeField |-> IF s.payload = <<>> THEN 0 ELSE Announced(s),
     cosigners |-> s.cosigners]

(* The states without a transaction, an inner one or a payload.            *)
LEMMA NothingMapped ==
    /\ TxOf(NoTx) = Payload!NoTx /\ InnersOf(<<>>) = Payload!NoInner
    /\ SignedOf(NoPayload) = Payload!NoPayload
<1>1. TxOf(NoTx) = Payload!NoTx  BY DEF TxOf, NoTx, Payload!NoTx
<1>2. AllSigners(<<>>) = TRUE
  <2>1. \A i \in 1..Len(<<>>) : FALSE  OBVIOUS
  <2> QED  BY <2>1 DEF AllSigners
<1>3. Len(<<>>) = 0 /\ Length(Together(<<>>)) = 0 /\ SizeSum(<<>>) = 0
  BY TogetherOf, CatNothing, SizeSumOf
<1>4. InnersOf(<<>>) = Payload!NoInner  BY <1>2, <1>3 DEF InnersOf, Payload!NoInner
<1>5. SignedOf(NoPayload) = Payload!NoPayload  BY DEF SignedOf, NoPayload, Payload!NoPayload
<1> QED  BY <1>1, <1>4, <1>5

(* One more inner transaction.                                             *)
LEMMA InnersGrow ==
    ASSUME NEW s \in Seq(InnerTx), NEW x \in InnerTx
    PROVE  InnersOf(Append(s, x))
               = [count |-> Len(s) + 1, bytes |-> Length(Together(s)) + Length(x.bytes),
                  size |-> SizeSum(s) + x.size, signers |-> AllSigners(s) /\ x.signer]
<1> DEFINE t == Append(s, x)
           n == Len(s)
<1>1. /\ n \in Nat /\ Len(t) = n + 1 /\ t[n + 1] = x /\ \A i \in 1..n : t[i] = s[i]
  OBVIOUS
<1>2. SizeSum(t) = SizeSum(s) + x.size  BY SizeSumOf
<1>3. Length(Together(t)) = Length(Together(s)) + Length(x.bytes)
  <2>1. Together(t) = Cat(Together(s), x.bytes) /\ Together(s) \in Contained  BY TogetherOf
  <2>2. x.bytes \in Contained  BY DEF InnerTx
  <2>3. Together(s) \in Bytes /\ x.bytes \in Bytes  BY <2>1, <2>2, EntireBytes DEF Contained
  <2> QED  BY <2>1, <2>3, CatBytes
<1> HIDE DEF t, n
<1>4. AllSigners(t) <=> AllSigners(s) /\ x.signer
  <2>1. ASSUME AllSigners(t) PROVE AllSigners(s) /\ x.signer
    <3>1. n + 1 \in 1..n + 1 /\ \A i \in 1..n : i \in 1..n + 1  BY <1>1
    <3> QED  BY <1>1, <2>1, <3>1 DEF AllSigners, n
  <2>2. ASSUME AllSigners(s), x.signer PROVE AllSigners(t)
    <3>1. \A i \in 1..n + 1 : i \in 1..n \/ i = n + 1  BY <1>1
    <3> QED  BY <1>1, <2>2, <3>1 DEF AllSigners, n
  <2> QED  BY <2>1, <2>2
<1>5. AllSigners(t) = (AllSigners(s) /\ x.signer)
  <2>1. AllSigners(t) \in BOOLEAN  BY DEF AllSigners
  <2>2. (AllSigners(s) /\ x.signer) \in BOOLEAN  OBVIOUS
  <2> QED  BY <1>4, <2>1, <2>2
<1>6. InnersOf(t) = [count |-> Len(t), bytes |-> Length(Together(t)), size |-> SizeSum(t),
                     signers |-> AllSigners(t)]
  BY DEF InnersOf
<1> QED  BY <1>1, <1>2, <1>3, <1>5, <1>6 DEF t, n

(* A signed payload is not empty.                                          *)
LEMMA SignedMapped ==
    ASSUME NEW s, NEW rest \in Seq(Entire), Shaped(s, rest)
    PROVE  SignedOf(s) = [length |-> s.length, sizeField |-> Announced(s),
                          cosigners |-> s.cosigners]
<1> DEFINE all == Cat(rest, Signatures(s.cosigners))
<1>1. s.cosigners \in Nat /\ Announced(s) \in Nat /\ s.payload = Framed(Announced(s), 1, 1, all)
  BY DEF Shaped
<1>2. all \in Bytes  BY <1>1, RestBytes
<1> HIDE DEF all
<1>3. Length(s.payload) = 122 + Length(all) /\ Length(all) \in Nat  BY <1>1, <1>2, FramedReads
<1>4. Length(<<>>) = 0  BY CatNothing
<1>5. s.payload # <<>>  BY <1>3, <1>4
<1> QED  BY <1>5 DEF SignedOf

(* The abstract actions, of the states that are mapped to.                 *)
LEMMA MappedInit ==
    ASSUME TxOf(tx) = Payload!NoTx, InnersOf(inner) = Payload!NoInner,
           SignedOf(signed) = Payload!NoPayload
    PROVE  Payload!Init
BY InnerOf DEF Payload!Init, TxOf, InnersOf, SignedOf, Announced, AllSigners

(* A transaction of its own is made.                                       *)
LEMMA MappedNew ==
    ASSUME NEW type, TxOf(tx) = Payload!NoTx, InnersOf(inner) = Payload!NoInner,
           TxOf(tx') = Payload!Single(type), inner' = inner, signed' = signed
    PROVE  Payload!New(type)
<1>1. InnerBytes' = InnerBytes /\ InnerSize' = InnerSize  BY DEF InnerBytes, InnerSize
<1> QED  BY <1>1, InnerOf DEF Payload!New, TxOf, InnersOf, SignedOf, Announced, AllSigners

(* The inner transactions after a step.                                    *)
LEMMA InnerPrimed == InnerBytes' = Together(inner') /\ InnerSize' = SizeSum(inner')
BY DEF InnerBytes, InnerSize, Together, Lists, SizeSum, Sums

(* A transaction joins the inner ones.                                     *)
LEMMA MappedToAggregate ==
    ASSUME NEW type, NEW hasSigner, TxOf(tx) = Payload!NoTx, Len(inner) < MaxInner,
           InnersOf(inner')
               = [count |-> Len(inner) + 1,
                  bytes |-> Length(Together(inner)) + (type.bytes - 80),
                  size |-> SizeSum(inner) + (type.size - 80),
                  signers |-> AllSigners(inner) /\ hasSigner],
           tx' = tx, signed' = signed
    PROVE  Payload!ToAggregate(type, hasSigner)
BY InnerOf, InnerPrimed, PayloadSizes
   DEF Payload!ToAggregate, TxOf, InnersOf, SignedOf, Announced, AllSigners

(* They become an aggregate.                                               *)
LEMMA MappedNewAggregate ==
    ASSUME TxOf(tx) = Payload!NoTx, Len(inner) >= MinInner,
           TxOf(tx') = [kind |-> "aggregate",
                        bytes |-> 122 + Payload!aggregateSchema(Length(Together(inner))),
                        size |-> 122 + 4 + SizeSum(inner),
                        maxFee |-> Payload!MaxFee("aggregate", 122 + 4 + SizeSum(inner)),
                        transactionsSize |-> Length(Together(inner)),
                        signers |-> AllSigners(inner)],
           InnersOf(inner') = Payload!NoInner, signed' = signed
    PROVE  Payload!NewAggregate
BY InnerOf, InnerPrimed, PayloadSizes
   DEF Payload!NewAggregate, TxOf, InnersOf, SignedOf, Announced, AllSigners

(* A transaction is signed.                                                *)
LEMMA MappedSign ==
    ASSUME TxOf(tx) # Payload!NoTx, tx' = tx, inner' = inner,
           SignedOf(signed') = IF tx.signers
                               THEN [length |-> tx.length, sizeField |-> tx.size, cosigners |-> 0]
                               ELSE Payload!NoPayload
    PROVE  Payload!SignTransactionWith
<1>1. InnerBytes' = InnerBytes /\ InnerSize' = InnerSize  BY DEF InnerBytes, InnerSize
<1> QED  BY <1>1 DEF Payload!SignTransactionWith, TxOf, SignedOf, Announced

(* An aggregate is signed together with its cosignatories.                 *)
LEMMA MappedCosign ==
    ASSUME NEW k, tx.kind = "aggregate", tx' = tx, inner' = inner,
           SignedOf(signed') = IF tx.signers
                               THEN [length |-> tx.length + k * 96,
                                     sizeField |-> tx.length + k * 96, cosigners |-> k]
                               ELSE Payload!NoPayload
    PROVE  Payload!SignTransactionWithCosignatures(k)
<1>1. InnerBytes' = InnerBytes /\ InnerSize' = InnerSize  BY DEF InnerBytes, InnerSize
<1> DEFINE m == k * 96
<1>2. k * Payload!CosignatureSize = m  BY PayloadSizes
<1> HIDE DEF m
<1> QED
  BY <1>1, <1>2 DEF m, Payload!SignTransactionWithCosignatures, TxOf, SignedOf, Announced

(* A transaction that was made is mapped to one that was.                  *)
LEMMA MadeMapped ==
    ASSUME NEW t, Made(t)
    PROVE  TxOf(t) # Payload!NoTx
<1>1. t.kind # "none"  BY DEF Made
<1>2. TxOf(t).kind = t.kind /\ Payload!NoTx.kind = "none"  BY DEF TxOf, Payload!NoTx
<1> QED  BY <1>1, <1>2

(* generateBytes makes as many bytes as the abstract type counts.          *)
LEMMA StepNew ==
    ASSUME LayoutInv, NEW t \in Transactions, New(t)
    PROVE  \E type \in Payload!Transactions : Payload!New(type)
<1>1. tx = NoTx /\ inner = <<>> /\ tx' = Single(t) /\ inner' = inner /\ signed' = signed
  BY DEF New
<1>2. Abstract(t) \in Payload!Transactions  BY AllStand DEF Standing
<1>3. TxOf(Single(t)) = Payload!Single(Abstract(t))
  BY DEF TxOf, Single, Payload!Single, Abstract
<1>4. TxOf(tx) = Payload!NoTx /\ InnersOf(inner) = Payload!NoInner  BY <1>1, NothingMapped
<1>5. TxOf(tx') = Payload!Single(Abstract(t))  BY <1>1, <1>3
<1>6. Payload!New(Abstract(t))  BY <1>1, <1>4, <1>5, MappedNew
<1> QED  BY <1>2, <1>6

(* toAggregateTransactionBytes leaves out OmittedSize bytes.               *)
LEMMA StepToAggregate ==
    ASSUME LayoutInv, NEW t \in Transactions, NEW hasSigner \in BOOLEAN,
           ToAggregate(t, hasSigner)
    PROVE  \E type \in Payload!Transactions, has \in BOOLEAN : Payload!ToAggregate(type, has)
<1> DEFINE bytes == Owned(toAggregateTransactionBytes(t.bytes), Len(inner) + 1)
           size == t.size - SignatureSize - MaxFeeSize - DeadLineSize
           x == [bytes |-> bytes, size |-> size, signer |-> hasSigner]
           type == Abstract(t)
<1>1. /\ tx = NoTx /\ Len(inner) < MaxInner
      /\ inner' = Append(inner, x) /\ tx' = tx /\ signed' = signed
  BY DEF ToAggregate
<1>2. inner \in Seq(InnerTx) /\ Len(inner) + 1 \in Nat /\ Len(inner) + 1 > 0
  BY DEF LayoutInv
<1>3. /\ x \in InnerTx /\ Length(bytes) = Length(t.bytes) - 80 /\ size = t.size - 80
  BY <1>2, InnerMade
<1>4. type \in Payload!Transactions /\ type.bytes = Length(t.bytes) /\ type.size = t.size
  BY AllStand DEF Standing, Abstract
<1>5. x.bytes = bytes /\ x.size = size /\ x.signer = hasSigner  OBVIOUS
<1> HIDE DEF x, bytes, size, type
<1>6. InnersOf(inner')
          = [count |-> Len(inner) + 1, bytes |-> Length(Together(inner)) + Length(x.bytes),
             size |-> SizeSum(inner) + x.size, signers |-> AllSigners(inner) /\ x.signer]
  BY <1>1, <1>2, <1>3, InnersGrow
<1>7. Length(x.bytes) = type.bytes - 80 /\ x.size = type.size - 80  BY <1>3, <1>4, <1>5
<1>8. InnersOf(inner')
          = [count |-> Len(inner) + 1, bytes |-> Length(Together(inner)) + (type.bytes - 80),
             size |-> SizeSum(inner) + (type.size - 80), signers |-> AllSigners(inner) /\ hasSigner]
  BY <1>5, <1>6, <1>7
<1>9. TxOf(tx) = Payload!NoTx  BY <1>1, NothingMapped
<1>10. Payload!ToAggregate(type, hasSigner)  BY <1>1, <1>8, <1>9, MappedToAggregate
<1> QED  BY <1>4, <1>10

(* An aggregate is as long as its schema says of the inner transactions,   *)
(* however many they are.                                                  *)
LEMMA StepNewAggregate ==
    ASSUME LayoutInv, NewAggregate
    PROVE  Payload!NewAggregate
<1> DEFINE b == Together(inner)
           t == AggregateTransaction(b)
           n == SizeSum(inner)
<1>1. InnerBytes = b /\ InnerSize = n  BY InnerOf
<1>2. /\ tx = NoTx /\ Len(inner) >= MinInner /\ inner' = <<>> /\ signed' = signed
      /\ tx' = [kind |-> t.kind, bytes |-> t.bytes, length |-> Length(t.bytes),
                size |-> t.size, maxFee |-> Payload!MaxFee(t.kind, t.size),
                transactionsSize |-> Length(b),
                signers |-> \A i \in 1..Len(inner) : inner[i].signer]
  BY <1>1 DEF NewAggregate
<1>3. b \in Contained /\ n \in Nat  BY TogetherOf, SizeSumOf DEF LayoutInv
<1> HIDE DEF b, n
<1>4. /\ t.kind = "aggregate" /\ t.size = 122 + 4 + n
      /\ Length(t.bytes) = 122 + Payload!aggregateSchema(Length(b))
  BY <1>1, <1>3, AggregateMade
<1> HIDE DEF t
<1>5. TxOf(tx') = [kind |-> "aggregate", bytes |-> 122 + Payload!aggregateSchema(Length(b)),
                   size |-> 122 + 4 + n, maxFee |-> Payload!MaxFee("aggregate", 122 + 4 + n),
                   transactionsSize |-> Length(b), signers |-> AllSigners(inner)]
  BY <1>2, <1>4 DEF TxOf, AllSigners
<1>6. TxOf(tx) = Payload!NoTx /\ InnersOf(inner') = Payload!NoInner  BY <1>2, NothingMapped
<1> QED  BY <1>2, <1>5, <1>6, MappedNewAggregate DEF b, n

(* signTransactionWith keeps the length and the size field.                *)
LEMMA StepSign ==
    ASSUME LayoutInv, NEW has \in BOOLEAN, SignTransactionWith(has)
    PROVE  Payload!SignTransactionWith
<1> DEFINE s == signTransactionWith(tx.bytes, GenerationHash(has))
           rest == Rest(tx.bytes)
<1>1. /\ tx # NoTx /\ tx' = tx /\ inner' = inner
      /\ signed' = IF tx.signers THEN s ELSE NoPayload
  BY DEF SignTransactionWith
<1>2. Made(tx) /\ Framing(tx) /\ tx.length = Length(tx.bytes)  BY <1>1 DEF LayoutInv, Made
<1>3. /\ Shaped(s, rest) /\ Announced(s) = tx.size
      /\ s.length = Length(tx.bytes) /\ s.cosigners = 0
  BY <1>2, SignedShaped
<1>4. rest \in Seq(Entire)  BY <1>2 DEF Framing
<1> HIDE DEF s, rest
<1>5. SignedOf(s) = [length |-> tx.length, sizeField |-> tx.size, cosigners |-> 0]
  BY <1>2, <1>3, <1>4, SignedMapped
<1>6. TxOf(tx) # Payload!NoTx  BY <1>2, MadeMapped
<1>7. SignedOf(signed') = IF tx.signers
                          THEN [length |-> tx.length, sizeField |-> tx.size, cosigners |-> 0]
                          ELSE Payload!NoPayload
  BY <1>1, <1>5, NothingMapped
<1> QED  BY <1>1, <1>6, <1>7, MappedSign

(* signTransactionWithCosignatures adds the cosignatures and writes the    *)
(* size field anew.                                                        *)
LEMMA StepCosign ==
    ASSUME LayoutInv, NEW has \in BOOLEAN, NEW k \in 0..MaxCosigners,
           SignTransactionWithCosignatures(has, k)
    PROVE  Payload!SignTransactionWithCosignatures(k)
<1> DEFINE s == signTransactionWithCosignatures(tx.bytes, GenerationHash(has), k)
           rest == Rest(tx.bytes)
           m == k * 96
<1>1. /\ tx.kind = "aggregate" /\ tx' = tx /\ inner' = inner
      /\ signed' = IF tx.signers THEN s ELSE NoPayload
  BY DEF SignTransactionWithCosignatures
<1>2. Made(tx) /\ Framing(tx) /\ tx.length = Length(tx.bytes)
  BY <1>1, NoTxUnmade DEF LayoutInv, Made
<1>3. k \in Nat  BY LayoutConstants
<1>4. /\ Shaped(s, rest) /\ Announced(s) = Length(tx.bytes) + m
      /\ s.length = Length(tx.bytes) + m /\ s.cosigners = k
  BY <1>2, <1>3, CosignedShaped
<1>5. rest \in Seq(Entire)  BY <1>2 DEF Framing
<1> HIDE DEF s, rest, m
<1>6. SignedOf(s) = [length |-> tx.length + m, sizeField |-> tx.length + m, cosigners |-> k]
  BY <1>2, <1>4, <1>5, SignedMapped
<1>7. SignedOf(signed') = IF tx.signers
                          THEN [length |-> tx.length + m, sizeField |-> tx.length + m,
                                cosigners |-> k]
                          ELSE Payload!NoPayload
  BY <1>1, <1>6, NothingMapped
<1> QED  BY <1>1, <1>7, MappedCosign DEF m

(* TxLayout implements TxPayload: the bytes that builders, schemas and the *)
(* copying of slices produce are as many as the sums over the schemas say, *)
(* for every transaction, inner transaction and signed payload and for     *)
(* lengths of any size. So what is proved of TxPayload (SizeFieldExact,    *)
(* CosignaturesDelimited, FeeCoversPayload) holds of the bytes.            *)
THEOREM LayoutImplementsPayload == Spec => PayloadSpec
<1>1. Init => Payload!Init
  <2> SUFFICES ASSUME Init PROVE Payload!Init  OBVIOUS
  <2>1. tx = NoTx /\ inner = <<>> /\ signed = NoPayload  BY DEF Init
  <2>2. /\ TxOf(tx) = Payload!NoTx /\ InnersOf(inner) = Payload!NoInner
        /\ SignedOf(signed) = Payload!NoPayload
    BY <2>1, NothingMapped
  <2> QED  BY <2>2, MappedInit
<1>2. LayoutInv /\ [Next]_vars => [Payload!Next]_(Payload!vars)
  <2> SUFFICES ASSUME LayoutInv, [Next]_vars PROVE [Payload!Next]_(Payload!vars)  OBVIOUS
  <2>1. ASSUME NEW t \in Transactions, New(t) PROVE Payload!Next
    BY <2>1, StepNew DEF Payload!Next
  <2>2. ASSUME NEW t \in Transactions, NEW hasSigner \in BOOLEAN, ToAggregate(t, hasSigner)
        PROVE  Payload!Next
    BY <2>2, StepToAggregate DEF Payload!Next
  <2>3. CASE NewAggregate  BY <2>3, StepNewAggregate DEF Payload!Next
  <2>4. ASSUME NEW has \in BOOLEAN, SignTransactionWith(has) PROVE Payload!Next
    BY <2>4, StepSign DEF Payload!Next
  <2>5. ASSUME NEW has \in BOOLEAN, NEW k \in 0..MaxCosigners,
               SignTransactionWithCosignatures(has, k)
        PROVE  Payload!Next
    BY <2>5, StepCosign DEF Payload!Next
  <2>6. CASE UNCHANGED vars
    <3>1. tx' = tx /\ inner' = inner /\ signed' = signed  BY <2>6 DEF vars
    <3>2. InnerBytes' = InnerBytes /\ InnerSize' = InnerSize
      BY <3>1 DEF InnerBytes, InnerSize
    <3> QED  BY <3>1, <3>2 DEF Payload!vars
  <2> QED  BY <2>1, <2>2, <2>3, <2>4, <2>5, <2>6 DEF Next
<1> QED  BY <1>1, <1>2, LayoutInvariant, PTL DEF Spec, PayloadSpec, Payload!Spec

(***************************************************************************)
(* What is proved of TxPayload holds of the bytes.                         *)
(***************************************************************************)

(* TxPayload with its theorems, of the states that TxLayout maps to.       *)
Sizes == INSTANCE TxPayloadProof WITH
    tx <- [kind |-> tx.kind, bytes |-> tx.length, size |-> tx.size,
           maxFee |-> tx.maxFee, transactionsSize |-> tx.transactionsSize,
           signers |-> tx.signers],
    inner <- [count |-> Len(inner), bytes |-> Length(InnerBytes), size |-> InnerSize,
              signers |-> \A i \in 1..Len(inner) : inner[i].signer],
    signed <- [length |-> signed.length,
               sizeField |-> IF signed.payload = <<>> THEN 0
                             ELSE ReadNumber(signed.payload, 0),
               cosigners |-> signed.cosigners]

(* Both instances are the same specification.                              *)
LEMMA SameTransactions == Sizes!Transactions = Payload!Transactions
BY DEF Sizes!AddressSize, Sizes!KeySize, Sizes!Hash256, Sizes!BaseInt64Size, Sizes!SizeSize,
       Sizes!SignatureSize, Sizes!SignerSize, Sizes!TransactionHeaderSize, Sizes!OmittedSize,
       Sizes!ByteSize, Sizes!ShortLimit, Sizes!ShortSize, Sizes!IntSize, Sizes!Tx,
       Sizes!Versioning, Sizes!accountPropertySchema, Sizes!aliasSchema,
       Sizes!accountLinkSchema, Sizes!aggregateSchema, Sizes!networkConfigSchema,
       Sizes!blockchainUpgradeSchema, Sizes!modifyMetadataSchema, Sizes!mosaicDefinitionSchema,
       Sizes!mosaicSupplyChangeSchema, Sizes!transferSchema, Sizes!modifyMultisigAccountSchema,
       Sizes!modifyContractSchema, Sizes!registerNamespaceSchema, Sizes!lockFundsSchema,
       Sizes!secretLockSchema, Sizes!secretProofSchema,
       Sizes!AccountPropertiesAddressTransaction, Sizes!AccountPropertiesMosaicTransaction,
       Sizes!AccountPropertiesEntityTypeTransaction, Sizes!AliasTransactionSize,
       Sizes!AddressAliasTransaction, Sizes!MosaicAliasTransaction,
       Sizes!AccountLinkTransaction, Sizes!NetworkConfigTransaction,
       Sizes!BlockchainUpgradeTransaction, Sizes!MetadataModificationsSize,
       Sizes!ModifyMetadataTransaction, Sizes!MosaicDefinitionTransaction,
       Sizes!MosaicSupplyChangeTransaction, Sizes!TransferTransaction,
       Sizes!ModifyMultisigAccountTransaction, Sizes!ModifyContractTransaction,
       Sizes!RegisterNamespaceTransaction, Sizes!LockFundsTransaction,
       Sizes!SecretLockTransaction, Sizes!SecretProofTransaction, Sizes!Transactions,
       Payload!AddressSize, Payload!KeySize, Payload!Hash256, Payload!BaseInt64Size,
       Payload!SizeSize, Payload!SignatureSize, Payload!SignerSize,
       Payload!TransactionHeaderSize, Payload!OmittedSize, Payload!ByteSize,
       Payload!ShortLimit, Payload!ShortSize, Payload!IntSize, Payload!Tx, Payload!Versioning,
       Payload!accountPropertySchema, Payload!aliasSchema, Payload!accountLinkSchema,
       Payload!aggregateSchema, Payload!networkConfigSchema, Payload!blockchainUpgradeSchema,
       Payload!modifyMetadataSchema, Payload!mosaicDefinitionSchema,
       Payload!mosaicSupplyChangeSchema, Payload!transferSchema,
       Payload!modifyMultisigAccountSchema, Payload!modifyContractSchema,
       Payload!registerNamespaceSchema, Payload!lockFundsSchema, Payload!secretLockSchema,
       Payload!secretProofSchema, Payload!AccountPropertiesAddressTransaction,
       Payload!AccountPropertiesMosaicTransaction,
       Payload!AccountPropertiesEntityTypeTransaction, Payload!AliasTransactionSize,
       Payload!AddressAliasTransaction, Payload!MosaicAliasTransaction,
       Payload!AccountLinkTransaction, Payload!NetworkConfigTransaction,
       Payload!BlockchainUpgradeTransaction, Payload!MetadataModificationsSize,
       Payload!ModifyMetadataTransaction, Payload!MosaicDefinitionTransaction,
       Payload!MosaicSupplyChangeTransaction, Payload!TransferTransaction,
       Payload!ModifyMultisigAccountTransaction, Payload!ModifyContractTransaction,
       Payload!RegisterNamespaceTransaction, Payload!LockFundsTransaction,
       Payload!SecretLockTransaction, Payload!SecretProofTransaction, Payload!Transactions

(* Its initial state.                                                      *)
LEMMA SameInit == Sizes!Init <=> Payload!Init
BY DEF Sizes!Init, Sizes!NoTx, Sizes!NoInner, Sizes!NoPayload, Payload!Init, Payload!NoTx,
       Payload!NoInner, Payload!NoPayload

(* Making a transaction.                                                   *)
LEMMA SameNew ==
    ASSUME NEW t
    PROVE  Sizes!New(t) <=> Payload!New(t)
BY DEF Sizes!New, Sizes!NoTx, Sizes!NoInner, Sizes!Single, Sizes!MaxFee, Sizes!DefaultMaxFee,
       Payload!New, Payload!NoTx, Payload!NoInner, Payload!Single, Payload!MaxFee,
       Payload!DefaultMaxFee

(* Adding an inner one.                                                    *)
LEMMA SameToAggregate ==
    ASSUME NEW t, NEW h
    PROVE  Sizes!ToAggregate(t, h) <=> Payload!ToAggregate(t, h)
BY DEF Sizes!ToAggregate, Sizes!NoTx, Sizes!OmittedSize, Sizes!SignatureSize,
       Sizes!BaseInt64Size, Payload!ToAggregate, Payload!NoTx, Payload!OmittedSize,
       Payload!SignatureSize, Payload!BaseInt64Size

(* Making an aggregate.                                                    *)
LEMMA SameNewAggregate == Sizes!NewAggregate <=> Payload!NewAggregate
BY DEF Sizes!NewAggregate, Sizes!NoTx, Sizes!NoInner, Sizes!MaxFee, Sizes!DefaultMaxFee,
       Sizes!TransactionHeaderSize, Sizes!SizeSize, Sizes!SignerSize, Sizes!KeySize,
       Sizes!SignatureSize, Sizes!aggregateSchema, Sizes!IntSize, Payload!NewAggregate,
       Payload!NoTx, Payload!NoInner, Payload!MaxFee, Payload!DefaultMaxFee,
       Payload!TransactionHeaderSize, Payload!SizeSize, Payload!SignerSize, Payload!KeySize,
       Payload!SignatureSize, Payload!aggregateSchema, Payload!IntSize

(* Signing.                                                                *)
LEMMA SameSign == Sizes!SignTransactionWith <=> Payload!SignTransactionWith
BY DEF Sizes!SignTransactionWith, Sizes!NoTx, Sizes!NoPayload, Payload!SignTransactionWith,
       Payload!NoTx, Payload!NoPayload

(* Signing with cosignatories.                                             *)
LEMMA SameCosign ==
    ASSUME NEW k
    PROVE  Sizes!SignTransactionWithCosignatures(k) <=> Payload!SignTransactionWithCosignatures(k)
BY DEF Sizes!SignTransactionWithCosignatures, Sizes!NoPayload, Sizes!CosignatureSize,
       Sizes!KeySize, Sizes!SignatureSize, Payload!SignTransactionWithCosignatures,
       Payload!NoPayload, Payload!CosignatureSize, Payload!KeySize, Payload!SignatureSize

(* All of its steps.                                                       *)
LEMMA SameNext == Sizes!Next <=> Payload!Next
BY SameTransactions, SameNew, SameToAggregate, SameNewAggregate, SameSign, SameCosign
   DEF Sizes!Next, Payload!Next

(* And what they leave unchanged.                                          *)
LEMMA SameStep == [Payload!Next]_(Payload!vars) <=> [Sizes!Next]_(Sizes!vars)
<1>1. (Payload!vars' = Payload!vars) <=> (Sizes!vars' = Sizes!vars)
  BY DEF Sizes!vars, Payload!vars
<1> QED  BY <1>1, SameNext

(* So that theorems of the one are theorems of the other.                  *)
LEMMA SameSpec == Payload!Spec => Sizes!Spec
BY SameInit, SameStep, PTL DEF Sizes!Spec, Payload!Spec

(* The payload of a transaction is never longer than its size field        *)
(* announces, zero scalars included: what findParam leaves out is missing  *)
(* from the bytes, never too much.                                         *)
THEOREM NeverMoreThanAnnounced ==
    Spec => [](signed # NoPayload =>
                   Length(signed.payload) <= ReadNumber(signed.payload, 0))
<1>1. Sizes!Spec => []Sizes!WithinAnnounced
  BY Sizes!NeverLongerThanAnnounced, LayoutConstants
<1>2. LayoutInv /\ Sizes!WithinAnnounced =>
          (signed # NoPayload => Length(signed.payload) <= ReadNumber(signed.payload, 0))
  <2> SUFFICES ASSUME LayoutInv, Sizes!WithinAnnounced, signed # NoPayload
               PROVE  Length(signed.payload) <= ReadNumber(signed.payload, 0)
    OBVIOUS
  <2>1. Made(tx) /\ Shaped(signed, Rest(tx.bytes))  BY DEF LayoutInv
  <2>2. Rest(tx.bytes) \in Seq(Entire)  BY <2>1 DEF Made, Framing
  <2>3. SignedOf(signed).sizeField = Announced(signed)  BY <2>1, <2>2, SignedMapped
  <2>4. signed.length <= Announced(signed)
    BY <2>3 DEF SignedOf, Announced, Sizes!WithinAnnounced
  <2>5. signed.length = Length(signed.payload)  BY <2>1 DEF Shaped
  <2> QED  BY <2>4, <2>5 DEF Announced
<1> QED  BY <1>1, <1>2, SameSpec, LayoutImplementsPayload, LayoutInvariant, PTL DEF PayloadSpec

(* It announces exactly the bytes that are sent, as long as no scalar in   *)
(* them is zero, for every transaction, aggregate and number of            *)
(* cosignatures (the doc of Size, transaction_model.go:27).                *)
THEOREM AnnouncedIsLength ==
    ASSUME Payload!NonzeroScalars
    PROVE  Spec => [](signed # NoPayload =>
                          ReadNumber(signed.payload, 0) = Length(signed.payload))
<1>1. Sizes!NonzeroScalars
  BY DEF Payload!NonzeroScalars, Sizes!NonzeroScalars, Payload!ShortLimit, Sizes!ShortLimit
<1>2. Sizes!Spec => []Sizes!SizeFieldExact
  BY <1>1, Sizes!PayloadSizeExact, LayoutConstants
<1>3. LayoutInv /\ Sizes!SizeFieldExact =>
          (signed # NoPayload => ReadNumber(signed.payload, 0) = Length(signed.payload))
  <2> SUFFICES ASSUME LayoutInv, Sizes!SizeFieldExact, signed # NoPayload
               PROVE  ReadNumber(signed.payload, 0) = Length(signed.payload)
    OBVIOUS
  <2>1. Made(tx) /\ Shaped(signed, Rest(tx.bytes))  BY DEF LayoutInv
  <2>2. Rest(tx.bytes) \in Seq(Entire)  BY <2>1 DEF Made, Framing
  <2>3. SignedOf(signed).sizeField = Announced(signed)  BY <2>1, <2>2, SignedMapped
  <2>4. Announced(signed) = signed.length
    BY <2>3 DEF SignedOf, Announced, Sizes!SizeFieldExact
  <2>5. signed.length = Length(signed.payload)  BY <2>1 DEF Shaped
  <2> QED  BY <2>4, <2>5 DEF Announced
<1> QED  BY <1>2, <1>3, SameSpec, LayoutImplementsPayload, LayoutInvariant, PTL DEF PayloadSpec

===============================================================================

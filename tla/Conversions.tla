---------------------------- MODULE Conversions -----------------------------
(***************************************************************************)
(* From the JSON a node sends to the types of the SDK: the toStruct method *)
(* of every DTO, as the sequence of the fallible steps it takes.  toStruct *)
(* stops at the first step that fails, so the order of the steps decides   *)
(* which error the caller sees, and whether a panic comes before it.       *)
(*                                                                         *)
(* A field of an answer is well formed, missing (left out, or null), or    *)
(* malformed: it has the JSON type its DTO declares and cannot be decoded  *)
(* further (not hexadecimal, of an unknown enumeration value, the bit of   *)
(* namespaces where a mosaic is meant).  A list has two elements, enough   *)
(* for one of them not to be the last; what is said of the second is what  *)
(* is said of the only one of a shorter list.                              *)
(***************************************************************************)
EXTENDS Naturals, Sequences, FiniteSets

LOCAL INSTANCE FiniteSetsExt

CONSTANT MaxFlaws    \* fields of one answer that are missing or malformed

ASSUME MaxFlawsAssumption == MaxFlaws \in Nat

(* A step that reads element i of a list, or the field itself when i = 0,  *)
(* and what it does when the field is missing and when it is malformed.    *)
(* "none": no value of the declared type is malformed.                     *)
Step(name, i, missing, malformed) ==
    <<[name |-> name, i |-> i, missing |-> missing, malformed |-> malformed]>>

(***************************************************************************)
(* The conversions of single fields.                                       *)
(***************************************************************************)

(* The length of the decoded text is not looked at before its first byte   *)
(* is, so that no address at all is an index out of range.                 *)
NewAddressFromBase32(name, i) == Step(name, i, "panic", "error")

(* No key at all is the key of no bytes, and has an address like any other.*)
NewAccountFromPublicKey(name, i) == Step(name, i, "pass", "error")

hashDto(name) == Step(name, 0, "pass", "error")
signatureDto(name) == Step(name, 0, "pass", "error")
mosaicIdDTO(name, i) == Step(name, i, "pass", "error")
namespaceIdDTO(name, i) == Step(name, i, "pass", "error")

(* With the bit it is a namespace's, without it a mosaic's.                *)
assetIdDTO(name, i) == Step(name, i, "pass", "none")

(* No payload is an empty one and no type the plain one.                   *)
messageDTO(name) == Step(name, 0, "pass", "error")

NewSecretFromHexString(name) == Step(name, 0, "error", "error")
NewProofFromHexString(name) == Step(name, 0, "pass", "error")

(* NetworkConfig.UnmarshalBinary: a text that may be empty.                *)
NetworkConfig(name) == Step(name, 0, "pass", "error")

(* toStruct called on a pointer that is nil when the field is missing.     *)
Pointer(steps) == [k \in DOMAIN steps |-> [steps[k] EXCEPT !.missing = "panic"]]

(* Looked at only when it is there.                                        *)
Optional(steps) == [k \in DOMAIN steps |-> [steps[k] EXCEPT !.missing = "pass"]]

(* An element of a list of pointers, on which toStruct is called.          *)
NotNull(name, i) == Step(name, i, "panic", "none")

Each(name, Element(_, _)) == Element(name, 1) \o Element(name, 2)

(* SupportedEntities.UnmarshalBinary: a text that has to be JSON, then its *)
(* entities, each with a number for its type.                              *)
supportedEntitiesDTO(name) ==
    LET entityDTO(list, i) == NotNull(list, i) \o Step(list, i, "error", "error")
    IN  Step(name, 0, "error", "error") \o Each(name, entityDTO)

mosaicDTO(name, i) == NotNull(name, i) \o assetIdDTO(name, i)

(* An unknown property is refused, no property at all is not.              *)
mosaicPropertiesDTO == Each("properties", LAMBDA name, i : Step(name, i, "pass", "error"))

(***************************************************************************)
(* Transactions.                                                           *)
(***************************************************************************)
transactionInfoDTO ==
    hashDto("hash") \o hashDto("merkleComponentHash") \o hashDto("aggregateHash")

abstractTransactionDTO == NewAccountFromPublicKey("signer", 0)

Header == transactionInfoDTO \o abstractTransactionDTO

accountPropertiesAddressTransactionDTO ==
    Header \o Each("modifications", NewAddressFromBase32)

accountPropertiesMosaicTransactionDTO ==
    Header \o Each("modifications", mosaicDTO)

accountPropertiesEntityTypeTransactionDTO ==
    Header \o Each("modifications", NotNull)

aliasTransactionDTO == abstractTransactionDTO \o namespaceIdDTO("namespaceId", 0)

addressAliasTransactionDTO ==
    transactionInfoDTO \o aliasTransactionDTO \o NewAddressFromBase32("address", 0)

mosaicAliasTransactionDTO ==
    transactionInfoDTO \o aliasTransactionDTO \o Pointer(mosaicIdDTO("mosaicId", 0))

accountLinkTransactionDTO == Header \o NewAccountFromPublicKey("remoteAccountKey", 0)

networkConfigTransactionDTO ==
    Header \o supportedEntitiesDTO("supportedEntityVersions") \o NetworkConfig("networkConfig")

blockchainUpgradeTransactionDTO == Header

(* The loop over the cosignatures overwrites the error of one with that of *)
(* the next, and only what is left after the last one is looked at.        *)
cosignatures ==
    NotNull("cosignatures", 1) \o Step("cosignatures", 1, "pass", "pass")
        \o NotNull("cosignatures", 2) \o NewAccountFromPublicKey("cosignatures", 2)

(* What toStruct does after the inner transactions have been mapped.       *)
aggregateTransactionDTO == Header \o cosignatures

modifyMetadataTransactionDTO ==
    abstractTransactionDTO
        \o Each("modifications", NotNull)

modifyMetadataAddressTransactionDTO ==
    transactionInfoDTO \o modifyMetadataTransactionDTO \o NewAddressFromBase32("metadataId", 0)

modifyMetadataMosaicTransactionDTO ==
    transactionInfoDTO \o modifyMetadataTransactionDTO
        \o Pointer(mosaicIdDTO("metadataId", 0))

modifyMetadataNamespaceTransactionDTO ==
    transactionInfoDTO \o modifyMetadataTransactionDTO
        \o Pointer(namespaceIdDTO("metadataId", 0))

mosaicDefinitionTransactionDTO ==
    Header \o Pointer(mosaicIdDTO("mosaicId", 0)) \o mosaicPropertiesDTO

mosaicSupplyChangeTransactionDTO == Header \o Pointer(assetIdDTO("mosaicId", 0))

(* transferTransactionDTO whose second error replaces the first.           *)
transferRecipientUnchecked ==
    Header \o Each("mosaics", mosaicDTO) \o Step("recipient", 0, "panic", "pass")
        \o messageDTO("message")

transferTransactionDTO ==
    Header \o Each("mosaics", mosaicDTO) \o NewAddressFromBase32("recipient", 0)
        \o messageDTO("message")

multisigCosignatoryModificationDTO(name, i) ==
    NotNull(name, i) \o NewAccountFromPublicKey(name, i)

modifyMultisigAccountTransactionDTO ==
    Header \o Each("modifications", multisigCosignatoryModificationDTO)

modifyContractTransactionDTO ==
    Header \o Each("customers", multisigCosignatoryModificationDTO)
        \o Each("executors", multisigCosignatoryModificationDTO)
        \o Each("verifiers", multisigCosignatoryModificationDTO) \o hashDto("hash")

(* The parent is looked at unless the namespace is a root.                 *)
registerNamespaceTransactionDTO(root) ==
    Header \o (IF root THEN <<>> ELSE namespaceIdDTO("parentId", 0))
        \o namespaceIdDTO("namespaceId", 0)

lockFundsTransactionDTO == Header \o assetIdDTO("mosaicId", 0) \o hashDto("hash")

secretLockTransactionDTO ==
    Header \o NewAddressFromBase32("recipient", 0) \o Pointer(assetIdDTO("mosaicId", 0))
        \o Step("amount", 0, "panic", "none") \o NewSecretFromHexString("secret")

secretProofTransactionDTO ==
    Header \o NewProofFromHexString("proof") \o NewAddressFromBase32("recipient", 0)

transactionStatusDTO == hashDto("hash")

(***************************************************************************)
(* Accounts.                                                               *)
(***************************************************************************)

(* UnmarshalJSON reads the values that the first known bit of the type     *)
(* announces and refuses a type without a known bit.  toStruct compares    *)
(* the whole type: with a further bit set it is none of those it knows,    *)
(* and the property is dropped with its values unread.                     *)
propertiesDTO(values) ==
    CASE values = "addresses" -> Each("addresses", NewAddressFromBase32)
      [] values = "mosaicIds" ->
            Each("mosaicIds", LAMBDA name, i : Pointer(mosaicIdDTO(name, i)))
      [] values \in {"entityTypes", "dropped"} -> <<>>

accountPropertiesDTO(values) ==
    Step("propertyType", 1, "error", IF values = "dropped" THEN "pass" ELSE "error")
        \o NewAddressFromBase32("address", 0)
        \o NotNull("properties", 1) \o propertiesDTO(values)

accountInfoDTO(linked) ==
    Each("mosaics", mosaicDTO) \o NewAddressFromBase32("address", 0)
        \o (IF linked THEN NewAccountFromPublicKey("linkedAccountKey", 0) ELSE <<>>)

multisigAccountInfoDTO ==
    NewAccountFromPublicKey("account", 0) \o Each("cosignatories", NewAccountFromPublicKey)
        \o Each("multisigAccounts", NewAccountFromPublicKey)

multisigAccountGraphInfoDTOS == multisigAccountInfoDTO \o multisigAccountInfoDTO

accountNamesDTO == NewAddressFromBase32("address", 0)

(***************************************************************************)
(* Mosaics, namespaces, metadata.                                          *)
(***************************************************************************)

(* Fewer than three properties are refused.                                *)
mosaicInfoDTO ==
    NewAccountFromPublicKey("owner", 0) \o Step("properties", 0, "error", "none")
        \o mosaicIdDTO("mosaicId", 0) \o mosaicPropertiesDTO

mosaicNameDTO == mosaicIdDTO("mosaicId", 0)

(* A type other than these two has nothing to convert, be it none at all   *)
(* or one that is not known.                                               *)
namespaceAliasDTO(type) ==
    CASE type = "address" -> NewAddressFromBase32("aliasAddress", 0)
      [] type = "mosaic" -> Pointer(mosaicIdDTO("aliasMosaicId", 0))
      [] type = "none" -> Step("aliasType", 0, "pass", "pass")

(* Levels that are missing are left out, but one has to be there.          *)
extractLevels == Step("levels", 0, "error", "error")

namespaceInfoDTO(type) ==
    NewAccountFromPublicKey("owner", 0) \o namespaceIdDTO("parentId", 0) \o extractLevels
        \o Step("alias", 0, "panic", "none") \o namespaceAliasDTO(type)

namespaceNameDTO == namespaceIdDTO("namespaceId", 0)

(* A field of the metadata that is null is called for its key.             *)
metadataInfoDTO == Each("fields", NotNull)

addressMetadataInfoDTO == metadataInfoDTO \o Optional(NewAddressFromBase32("metadataId", 0))

mosaicMetadataInfoDTO == metadataInfoDTO \o mosaicIdDTO("metadataId", 0)

namespaceMetadataInfoDTO == metadataInfoDTO \o namespaceIdDTO("metadataId", 0)

(***************************************************************************)
(* Blocks, contracts, the network.                                         *)
(***************************************************************************)
blockInfoDTO(beneficiary) ==
    NewAccountFromPublicKey("signer", 0)
        \o (IF beneficiary THEN NewAccountFromPublicKey("beneficiary", 0) ELSE <<>>)
        \o hashDto("blockHash") \o hashDto("generationHash") \o signatureDto("signature")
        \o hashDto("previousBlockHash") \o hashDto("blockTransactionsHash")
        \o hashDto("blockReceiptsHash") \o hashDto("stateHash")

contractInfoDTO == hashDto("hash")

blockchainConfigDTO ==
    supportedEntitiesDTO("supportedEntityVersions") \o NetworkConfig("networkConfig")

(***************************************************************************)
(* Taking the steps.                                                       *)
(***************************************************************************)

(* A list of two of them, either of which may be null.                     *)
ListOf(steps) ==
    LET element(i) == NotNull("element", i) \o steps
    IN  element(1) \o element(2)

(* The ways an answer can be flawed: some fields, and how.                 *)
Flaws(steps) ==
    LET flaws(k) == {"missing"} \cup (IF steps[k].malformed = "none" THEN {} ELSE {"malformed"})
        flawed(K) == {f \in [K -> {"missing", "malformed"}] : \A k \in K : f[k] \in flaws(k)}
        places == {{t[n] : n \in 1..MaxFlaws} : t \in [1..MaxFlaws -> DOMAIN steps]}
    IN  UNION {flawed(K) : K \in places \cup {{}}}

(* How toStruct ends, and the malformed fields it let through.             *)
Conversion(steps, flaws) ==
    LET does(k) == steps[k][flaws[k]]
        stops == {k \in DOMAIN flaws : does(k) # "pass"}
        passed == {k \in DOMAIN flaws : flaws[k] = "malformed"}
    IN  IF stops = {}
        THEN [end |-> "ok", passed |-> {<<steps[k].name, steps[k].i>> : k \in passed}]
        ELSE [end |-> does(Min(stops)), passed |-> {}]

(* What can become of an answer with these fields.                         *)
toStruct(steps) == {Conversion(steps, flaws) : flaws \in Flaws(steps)}

(* An answer without any: every field is missing and every list is empty.  *)
Zero(steps) ==
    Conversion(steps, [k \in {j \in DOMAIN steps : steps[j].i = 0} |-> "missing"])

=============================================================================

-------------------------- MODULE RestServicesProof ---------------------------
(***************************************************************************)
(* Proofs about RestServices: no malformed field gets through, but for     *)
(* three (MalformedRefused), the goroutines that map transactions report   *)
(* what a loop would have reported (MappingInListOrder), the lineages that *)
(* buildNamespaceHierarchy puts together are whole (LineageComplete), and  *)
(* the state has its type (TypeOK).                                        *)
(***************************************************************************)
EXTENDS RestServices, TLAPS

LOCAL INSTANCE FiniteSetsExt
WF == INSTANCE WellFoundedInduction

(* A list of two tasks is two lists of one.                                *)
LEMMA TwoTasks == ASSUME NEW a, NEW b PROVE <<a>> \o <<b>> = <<a, b>>
<1> DEFINE s == <<a>> \o <<b>>
<1>1. <<a>> \in Seq({a, b}) /\ <<b>> \in Seq({a, b})  OBVIOUS
<1>2. s \in Seq({a, b}) /\ Len(s) = 2 /\ s[1] = a /\ s[2] = b  BY <1>1
<1> HIDE DEF s
<1>3. s = <<a, b>>  BY <1>2
<1> QED  BY <1>3 DEF s

(* What Then leaves of a list of one or two tasks.                         *)
LEMMA RestOfTasks ==
    /\ \A a : <<>> \o Tail(<<a>>) = <<>>
    /\ \A a, b : <<>> \o Tail(<<a, b>>) = <<b>>
    /\ \A a, b, c : <<c>> \o Tail(<<a, b>>) = <<c, b>>
<1>1. \A a : <<>> \o Tail(<<a>>) = <<>>  OBVIOUS
<1>2. \A a, b : <<>> \o Tail(<<a, b>>) = <<b>>  OBVIOUS
<1>3. \A a, b : Tail(<<a, b>>) = <<b>>  OBVIOUS
<1> QED  BY <1>1, <1>2, <1>3, TwoTasks

(***************************************************************************)
(* The chain, and the height that a call is told.                          *)
(***************************************************************************)
ChainType ==
    chain \in [live : SUBSET Namespaces, alias : [Namespaces -> Mosaics \cup {NoMosaic}],
               height : 0..MaxHeight]

HeightInv == ChainType /\ told \in 0..MaxHeight

(* No call has begun.                                                      *)
LEMMA InitHeight == Init => HeightInv
<1> SUFFICES ASSUME Init PROVE HeightInv  OBVIOUS
<1>1. ChainType  BY BoundsAssumption DEF Init, ChainType
<1>2. told \in 0..MaxHeight  BY BoundsAssumption DEF Init
<1> QED  BY <1>1, <1>2 DEF HeightInv

(* The goroutines that map leave the call alone or end the process, until  *)
(* all are done.                                                           *)
LEMMA MapSteps ==
    ASSUME MapTransactions
    PROVE  /\ UNCHANGED <<call, requests, lineages, found, told, items, ledger>>
           /\ \/ MapReturns
              \/ UNCHANGED <<todo, end, passed>>
              \/ Stop("panic") /\ UNCHANGED <<passed, work, errs>>
<1>1. ASSUME NEW group, Spawn(group)
      PROVE  /\ UNCHANGED <<call, requests, lineages, found, told, items, ledger>>
             /\ UNCHANGED <<todo, end, passed>>
  BY <1>1 DEF Spawn
<1>2. ASSUME NEW p, NEW error, Done(p, error)
      PROVE  /\ UNCHANGED <<call, requests, lineages, found, told, items, ledger>>
             /\ UNCHANGED <<todo, end, passed>>
  BY <1>2 DEF Done
<1>3. ASSUME Dies
      PROVE  /\ UNCHANGED <<call, requests, lineages, found, told, items, ledger>>
             /\ Stop("panic") /\ UNCHANGED <<passed, work, errs>>
  BY <1>3 DEF Dies, mapping
<1>4. ASSUME MapReturns
      PROVE  UNCHANGED <<call, requests, lineages, found, told, items, ledger>>
  BY <1>4 DEF MapReturns, mapping
<1> QED
  BY <1>1, <1>2, <1>3, <1>4 DEF MapTransactions, MapSingle, MapAggregate, dtoToTransaction

(* Every step keeps it.                                                    *)
LEMMA StepHeight == HeightInv /\ [Next]_vars => HeightInv'
<1> SUFFICES ASSUME HeightInv, [Next]_vars PROVE HeightInv'  OBVIOUS
<1> USE DEF HeightInv, ledger
<1>0. ASSUME UNCHANGED chain, told' \in {told, 0, chain.height} PROVE HeightInv'
  BY <1>0, BoundsAssumption DEF ChainType
<1>1. CASE Calls
  <2>1. UNCHANGED <<told, chain>>  BY <1>1 DEF Calls, Call, Begin
  <2> QED  BY <1>0, <2>1
<1>2. CASE \/ GetNamespaceInfo \/ buildNamespaceHierarchy \/ SetParent \/ Collect
           \/ GetNamespaceInfosFromAccount \/ buildNamespacesHierarchy \/ GetLinked
  BY <1>0, <1>2
     DEF GetNamespaceInfo, buildNamespaceHierarchy, SetParent, Collect,
         GetNamespaceInfosFromAccount, buildNamespacesHierarchy, GetLinked
<1>3. CASE \/ RefuseIds \/ MakeNils \/ MosaicInfosOf \/ NamespaceIds \/ Resolve \/ MosaicInfoOf
           \/ AssertAggregates
  BY <1>0, <1>3
     DEF RefuseIds, MakeNils, MosaicInfosOf, NamespaceIds, Resolve, MosaicInfoOf, AssertAggregates
<1>4. CASE AskHeight \/ AskAtHeight \/ AskBlock
  <2>1. UNCHANGED chain /\ told' \in {told, 0, chain.height}
    BY <1>4 DEF AskHeight, AskAtHeight, AskBlock
  <2> QED  BY <1>0, <2>1
<1>5. CASE (\E one \in BOOLEAN : AskTransactions(one)) \/ MapTransactions
  <2>1. UNCHANGED chain /\ told' \in {told, 0, chain.height}
    BY <1>5, MapSteps DEF AskTransactions
  <2> QED  BY <1>0, <2>1
<1>6. CASE Relink \/ Expire \/ Rollback
  <2>1. told' = told  BY <1>6 DEF Relink, Expire, Rollback, Between
  <2>2. CASE Relink  BY <2>1, <2>2 DEF Relink, ChainType
  <2>3. CASE Expire  BY <2>1, <2>3 DEF Expire, ChainType
  <2>4. CASE Rollback  BY <2>1, <2>4, BoundsAssumption DEF Rollback, ChainType
  <2> QED  BY <1>6, <2>2, <2>3, <2>4
<1>7. CASE UNCHANGED vars  BY <1>0, <1>7 DEF vars
<1> QED  BY <1>1, <1>2, <1>3, <1>4, <1>5, <1>6, <1>7 DEF Next

(***************************************************************************)
(* What gets through the conversions.                                      *)
(***************************************************************************)
Outcomes == {"ok", "error", "panic"}
Replies == [end : Outcomes, passed : SUBSET LetThrough]

(* The fields the conversions read.                                        *)
FieldNames ==
    {"account", "address", "addresses", "aggregateHash", "alias",
     "aliasAddress", "aliasMosaicId", "aliasType", "amount", "beneficiary",
     "blockHash", "blockReceiptsHash", "blockTransactionsHash",
     "cosignatories", "cosignatures", "customers", "element",
     "executors", "fields", "generationHash", "hash", "levels",
     "linkedAccountKey", "merkleComponentHash", "message", "metadataId",
     "modifications", "mosaicId", "mosaicIds", "mosaics",
     "multisigAccounts", "name", "namespaceId", "networkConfig",
     "owner", "parentId", "previousBlockHash", "proof", "properties",
     "propertyType", "recipient", "remoteAccountKey", "secret",
     "signature", "signer", "stateHash", "supportedEntityVersions",
     "verifiers"}

(* Only the steps of the fields that are let through do not look at them.  *)
CheckedStep ==
    {s \in [name : FieldNames, i : Nat, missing : {"pass", "error", "panic"},
            malformed : {"pass", "error", "none"}] :
        s.malformed = "pass" => <<s.name, s.i>> \in LetThrough}

Checked == Seq(CheckedStep)

(* A set of natural numbers has a least element, and Min is it.            *)
LEMMA MinOf ==
    ASSUME NEW T, T \subseteq Nat, T # {}
    PROVE  Min(T) \in T /\ \A k \in T : Min(T) <= k
<1> DEFINE R == WF!OpToRel(<, Nat)
<1>1. WF!IsWellFoundedOn(R, Nat)  BY WF!NatLessThanWellFounded
<1>2. \A x, y \in Nat : y < x => <<y, x>> \in R  BY DEF WF!OpToRel
<1> HIDE DEF R
<1>3. PICK m \in T : \A y \in T : ~(<<y, m>> \in R)  BY <1>1, WF!WFMin
<1>4. ASSUME NEW k \in T PROVE m <= k
  <2>1. m \in Nat /\ k \in Nat  OBVIOUS
  <2>2. ~(k < m)  BY <1>2, <1>3, <2>1
  <2> QED  BY <2>1, <2>2
<1> QED  BY <1>4 DEF Min

(* A conversion ends in one of three ways, and what it lets through is     *)
(* known.                                                                  *)
LEMMA ConversionReply ==
    ASSUME NEW steps \in Checked, NEW K, K \subseteq DOMAIN steps,
           NEW flaws \in [K -> {"missing", "malformed"}],
           \A k \in K : flaws[k] = "malformed" => steps[k].malformed # "none"
    PROVE  Conversion(steps, flaws) \in Replies
<1> DEFINE does(k) == steps[k][flaws[k]]
           stops == {k \in DOMAIN flaws : does(k) # "pass"}
           through == {k \in DOMAIN flaws : flaws[k] = "malformed"}
           names == {<<steps[k].name, steps[k].i>> : k \in through}
<1>1. \A k \in K : steps[k] \in CheckedStep  BY DEF Checked
<1>2. \A k \in K : does(k) \in {"pass", "error", "panic"}  BY <1>1 DEF CheckedStep
<1>3. \A k \in through : does(k) = "pass" => <<steps[k].name, steps[k].i>> \in LetThrough
  BY <1>1 DEF CheckedStep
<1>4. CASE stops = {}
  <2>1. Conversion(steps, flaws) = [end |-> "ok", passed |-> names]
    BY <1>4 DEF Conversion
  <2>2. names \subseteq LetThrough  BY <1>3, <1>4
  <2> QED  BY <2>1, <2>2 DEF Replies, Outcomes
<1>5. CASE stops # {}
  <2>1. Conversion(steps, flaws) = [end |-> does(Min(stops)), passed |-> {}]
    BY <1>5 DEF Conversion
  <2>2. Min(stops) \in stops
    <3>1. K \subseteq Nat  BY DEF Checked
    <3> QED  BY <1>5, <3>1, MinOf
  <2> QED  BY <2>1, <2>2, <1>2 DEF Replies, Outcomes
<1> QED  BY <1>4, <1>5

(* The same of every answer, and of none.                                  *)
LEMMA AnswerReply ==
    ASSUME NEW steps \in Checked
    PROVE  toStruct(steps) \subseteq Replies /\ Zero(steps) \in Replies
<1>1. ASSUME NEW flaws \in Flaws(steps) PROVE Conversion(steps, flaws) \in Replies
  <2> DEFINE possible(k) ==
                 {"missing"} \cup (IF steps[k].malformed = "none" THEN {} ELSE {"malformed"})
             flawed(K) ==
                 {f \in [K -> {"missing", "malformed"}] : \A k \in K : f[k] \in possible(k)}
             places == {{t[n] : n \in 1..MaxFlaws} : t \in [1..MaxFlaws -> DOMAIN steps]}
  <2>1. PICK K \in places \cup {{}} : flaws \in flawed(K)  BY <1>1 DEF Flaws
  <2>2. K \subseteq DOMAIN steps
    <3>1. CASE K = {}  BY <3>1
    <3>2. CASE K \in places
      <4>1. PICK t \in [1..MaxFlaws -> DOMAIN steps] : K = {t[n] : n \in 1..MaxFlaws}  BY <3>2
      <4> QED  BY <4>1
    <3> QED  BY <2>1, <3>1, <3>2
  <2>3. \A k \in K : flaws[k] = "malformed" => steps[k].malformed # "none"  BY <2>1
  <2> QED  BY <2>1, <2>2, <2>3, ConversionReply
<1>2. Zero(steps) \in Replies
  <2> DEFINE K == {j \in DOMAIN steps : steps[j].i = 0}
             flaws == [k \in K |-> "missing"]
  <2>1. flaws \in [K -> {"missing", "malformed"}]  OBVIOUS
  <2>2. \A k \in K : flaws[k] # "malformed"  OBVIOUS
  <2>3. Zero(steps) = Conversion(steps, flaws)  BY DEF Zero
  <2> HIDE DEF flaws
  <2> QED  BY <2>1, <2>2, <2>3, ConversionReply
<1> QED  BY <1>1, <1>2 DEF toStruct

(* The ways steps are put together.                                        *)
LEMMA OneStep ==
    ASSUME NEW name \in FieldNames, NEW i \in Nat, NEW missing \in {"pass", "error", "panic"},
           NEW malformed \in {"error", "none"}
    PROVE  Step(name, i, missing, malformed) \in Checked
BY DEF Step, Checked, CheckedStep

(* No step at all, and one list of steps after another.                    *)
LEMMA MoreSteps ==
    /\ <<>> \in Checked
    /\ \A s, t \in Checked : s \o t \in Checked
BY DEF Checked

(* Steps that a missing field stops in another way.                        *)
LEMMA PointerSteps ==
    ASSUME NEW s \in Checked
    PROVE  Pointer(s) \in Checked /\ Optional(s) \in Checked
<1>1. ASSUME NEW how \in {"pass", "panic"}
      PROVE  [k \in DOMAIN s |-> [s[k] EXCEPT !.missing = how]] \in Checked
  <2>1. \A k \in DOMAIN s : s[k] \in CheckedStep  BY DEF Checked
  <2>2. \A k \in DOMAIN s : [s[k] EXCEPT !.missing = how] \in CheckedStep
    BY <2>1 DEF CheckedStep
  <2>3. DOMAIN s = 1..Len(s) /\ Len(s) \in Nat  BY DEF Checked
  <2> QED  BY <2>2, <2>3 DEF Checked
<1> QED  BY <1>1 DEF Pointer, Optional

(* The conversions of single fields.                                       *)
LEMMA FieldSteps ==
    ASSUME NEW name \in FieldNames, NEW i \in Nat
    PROVE  /\ NewAddressFromBase32(name, i) \in Checked
           /\ NewAccountFromPublicKey(name, i) \in Checked
           /\ mosaicIdDTO(name, i) \in Checked /\ namespaceIdDTO(name, i) \in Checked
           /\ assetIdDTO(name, i) \in Checked /\ NotNull(name, i) \in Checked
           /\ mosaicDTO(name, i) \in Checked
           /\ multisigCosignatoryModificationDTO(name, i) \in Checked
           /\ hashDto(name) \in Checked /\ signatureDto(name) \in Checked
           /\ messageDTO(name) \in Checked /\ NewSecretFromHexString(name) \in Checked
           /\ NewProofFromHexString(name) \in Checked
           /\ supportedEntitiesDTO(name) \in Checked /\ NetworkConfig(name) \in Checked
<1>1. /\ NewAddressFromBase32(name, i) \in Checked
      /\ NewAccountFromPublicKey(name, i) \in Checked
      /\ mosaicIdDTO(name, i) \in Checked /\ namespaceIdDTO(name, i) \in Checked
      /\ assetIdDTO(name, i) \in Checked /\ NotNull(name, i) \in Checked
  BY OneStep DEF NewAddressFromBase32, NewAccountFromPublicKey, mosaicIdDTO, namespaceIdDTO,
     assetIdDTO, NotNull
<1>2. mosaicDTO(name, i) \in Checked /\ multisigCosignatoryModificationDTO(name, i) \in Checked
  BY <1>1, MoreSteps DEF mosaicDTO, multisigCosignatoryModificationDTO
<1>3. /\ hashDto(name) \in Checked /\ signatureDto(name) \in Checked
      /\ messageDTO(name) \in Checked /\ NewSecretFromHexString(name) \in Checked
      /\ NewProofFromHexString(name) \in Checked /\ NetworkConfig(name) \in Checked
  BY OneStep DEF hashDto, signatureDto, messageDTO, NewSecretFromHexString,
     NewProofFromHexString, NetworkConfig
<1>4. supportedEntitiesDTO(name) \in Checked
  <2> DEFINE entityDTO(list, k) == NotNull(list, k) \o Step(list, k, "error", "error")
  <2>1. \A k \in Nat : NotNull(name, k) \in Checked /\ Step(name, k, "error", "error") \in Checked
    BY OneStep DEF NotNull
  <2>2. \A k \in Nat : entityDTO(name, k) \in Checked  BY <2>1, MoreSteps
  <2>3. Each(name, entityDTO) = entityDTO(name, 1) \o entityDTO(name, 2)  BY DEF Each
  <2> HIDE DEF entityDTO
  <2>4. Each(name, entityDTO) \in Checked  BY <2>2, <2>3, MoreSteps
  <2>5. Step(name, 0, "error", "error") \o Each(name, entityDTO) \in Checked
    BY <2>1, <2>4, MoreSteps
  <2> QED  BY <2>5 DEF supportedEntitiesDTO, entityDTO
<1> QED  BY <1>1, <1>2, <1>3, <1>4

(* What every transaction begins with.                                     *)
LEMMA HeaderSteps ==
    /\ transactionInfoDTO \in Checked /\ abstractTransactionDTO \in Checked
    /\ Header \in Checked /\ aliasTransactionDTO \in Checked
BY FieldSteps, MoreSteps DEF transactionInfoDTO, abstractTransactionDTO, Header,
   aliasTransactionDTO, FieldNames

(* The transactions with a list.                                           *)
LEMMA ListTransactionSteps ==
    /\ accountPropertiesAddressTransactionDTO \in Checked
    /\ accountPropertiesMosaicTransactionDTO \in Checked
    /\ accountPropertiesEntityTypeTransactionDTO \in Checked
    /\ modifyMetadataTransactionDTO \in Checked
    /\ modifyMultisigAccountTransactionDTO \in Checked
    /\ modifyContractTransactionDTO \in Checked
    /\ mosaicPropertiesDTO \in Checked
    /\ transferTransactionDTO \in Checked
<1>1. accountPropertiesAddressTransactionDTO \in Checked
  BY HeaderSteps, FieldSteps, MoreSteps DEF accountPropertiesAddressTransactionDTO, Each, FieldNames
<1>2. accountPropertiesMosaicTransactionDTO \in Checked
  BY HeaderSteps, FieldSteps, MoreSteps DEF accountPropertiesMosaicTransactionDTO, Each, FieldNames
<1>3. accountPropertiesEntityTypeTransactionDTO \in Checked
  BY HeaderSteps, FieldSteps, MoreSteps DEF accountPropertiesEntityTypeTransactionDTO, Each,
     FieldNames
<1>4. modifyMetadataTransactionDTO \in Checked
  BY HeaderSteps, FieldSteps, MoreSteps DEF modifyMetadataTransactionDTO, Each, FieldNames
<1>5. modifyMultisigAccountTransactionDTO \in Checked
  BY HeaderSteps, FieldSteps, MoreSteps DEF modifyMultisigAccountTransactionDTO, Each, FieldNames
<1>6. modifyContractTransactionDTO \in Checked
  <2>1. \A name \in FieldNames : Each(name, multisigCosignatoryModificationDTO) \in Checked
    BY FieldSteps, MoreSteps DEF Each
  <2>2. /\ Each("customers", multisigCosignatoryModificationDTO) \in Checked
        /\ Each("executors", multisigCosignatoryModificationDTO) \in Checked
        /\ Each("verifiers", multisigCosignatoryModificationDTO) \in Checked
        /\ hashDto("hash") \in Checked
    BY <2>1, FieldSteps DEF FieldNames
  <2> QED  BY <2>2, HeaderSteps, MoreSteps DEF modifyContractTransactionDTO
<1>7. mosaicPropertiesDTO \in Checked
  BY OneStep, MoreSteps DEF mosaicPropertiesDTO, Each, FieldNames
<1>8. transferTransactionDTO \in Checked
  <2>1. Each("mosaics", mosaicDTO) \in Checked  BY FieldSteps, MoreSteps DEF Each, FieldNames
  <2>2. NewAddressFromBase32("recipient", 0) \in Checked /\ messageDTO("message") \in Checked
    BY FieldSteps DEF FieldNames
  <2> QED  BY <2>1, <2>2, HeaderSteps, MoreSteps DEF transferTransactionDTO
<1> QED  BY <1>1, <1>2, <1>3, <1>4, <1>5, <1>6, <1>7, <1>8

(* The other transactions.                                                 *)
LEMMA TransactionSteps ==
    /\ \A dto \in TransactionDTOs : dto \in Checked
    /\ aggregateTransactionDTO \in Checked
<1>1. /\ addressAliasTransactionDTO \in Checked /\ networkConfigTransactionDTO \in Checked
      /\ blockchainUpgradeTransactionDTO \in Checked /\ accountLinkTransactionDTO \in Checked
      /\ lockFundsTransactionDTO \in Checked /\ secretProofTransactionDTO \in Checked
  BY HeaderSteps, FieldSteps, MoreSteps
     DEF addressAliasTransactionDTO, networkConfigTransactionDTO,
         blockchainUpgradeTransactionDTO, accountLinkTransactionDTO, lockFundsTransactionDTO,
         secretProofTransactionDTO, FieldNames
<1>2. /\ Pointer(mosaicIdDTO("mosaicId", 0)) \in Checked
      /\ Pointer(mosaicIdDTO("metadataId", 0)) \in Checked
      /\ Pointer(namespaceIdDTO("metadataId", 0)) \in Checked
      /\ Pointer(assetIdDTO("mosaicId", 0)) \in Checked
  BY FieldSteps, PointerSteps DEF FieldNames
<1>3. /\ mosaicAliasTransactionDTO \in Checked /\ mosaicDefinitionTransactionDTO \in Checked
      /\ mosaicSupplyChangeTransactionDTO \in Checked
  BY <1>2, HeaderSteps, ListTransactionSteps, MoreSteps
     DEF mosaicAliasTransactionDTO, mosaicDefinitionTransactionDTO,
         mosaicSupplyChangeTransactionDTO
<1>4. /\ modifyMetadataAddressTransactionDTO \in Checked
      /\ modifyMetadataMosaicTransactionDTO \in Checked
      /\ modifyMetadataNamespaceTransactionDTO \in Checked
  BY <1>2, HeaderSteps, ListTransactionSteps, FieldSteps, MoreSteps
     DEF modifyMetadataAddressTransactionDTO, modifyMetadataMosaicTransactionDTO,
         modifyMetadataNamespaceTransactionDTO, FieldNames
<1>5. /\ registerNamespaceTransactionDTO(TRUE) \in Checked
      /\ registerNamespaceTransactionDTO(FALSE) \in Checked
  BY HeaderSteps, FieldSteps, MoreSteps DEF registerNamespaceTransactionDTO, FieldNames
<1>6. secretLockTransactionDTO \in Checked
  <2>1. Step("amount", 0, "panic", "none") \in Checked  BY OneStep DEF FieldNames
  <2> QED
    BY <1>2, <2>1, HeaderSteps, FieldSteps, MoreSteps DEF secretLockTransactionDTO, FieldNames
<1>7. aggregateTransactionDTO \in Checked
  <2>1. Step("cosignatures", 1, "pass", "pass") \in Checked
    BY DEF Step, Checked, CheckedStep, LetThrough, FieldNames
  <2>2. cosignatures \in Checked
    BY <2>1, FieldSteps, MoreSteps DEF cosignatures, FieldNames
  <2> QED  BY <2>2, HeaderSteps, MoreSteps DEF aggregateTransactionDTO
<1> QED
  BY <1>1, <1>3, <1>4, <1>5, <1>6, <1>7, ListTransactionSteps DEF TransactionDTOs

(* The other answers, of which there may be lists.                         *)
LEMMA ListSteps ==
    ASSUME NEW steps \in Checked
    PROVE  ListOf(steps) \in Checked
<1>1. NotNull("element", 1) \in Checked /\ NotNull("element", 2) \in Checked
  BY FieldSteps DEF FieldNames
<1> QED  BY <1>1, MoreSteps DEF ListOf

(* Accounts.                                                               *)
LEMMA AccountSteps ==
    /\ AccountProperties \subseteq Checked /\ AccountInfos \subseteq Checked
    /\ multisigAccountInfoDTO \in Checked /\ multisigAccountGraphInfoDTOS \in Checked
    /\ accountNamesDTO \in Checked
<1>1. \A values \in {"addresses", "mosaicIds", "entityTypes", "dropped"} :
          propertiesDTO(values) \in Checked
  <2>1. Each("addresses", NewAddressFromBase32) \in Checked
    BY FieldSteps, MoreSteps DEF Each, FieldNames
  <2>2. Each("mosaicIds", LAMBDA name, i : Pointer(mosaicIdDTO(name, i))) \in Checked
    BY FieldSteps, PointerSteps, MoreSteps DEF Each, FieldNames
  <2> QED  BY <2>1, <2>2, MoreSteps DEF propertiesDTO
<1>2. AccountProperties \subseteq Checked
  <2>1. /\ Step("propertyType", 1, "error", "error") \in Checked
        /\ Step("propertyType", 1, "error", "pass") \in Checked
    BY DEF Step, Checked, CheckedStep, LetThrough, FieldNames
  <2>2. NewAddressFromBase32("address", 0) \in Checked /\ NotNull("properties", 1) \in Checked
    BY FieldSteps DEF FieldNames
  <2>3. \A values \in {"addresses", "mosaicIds", "entityTypes", "dropped"} :
            accountPropertiesDTO(values) \in Checked
    BY <1>1, <2>1, <2>2, MoreSteps DEF accountPropertiesDTO
  <2> QED  BY <2>3 DEF AccountProperties
<1>3. AccountInfos \subseteq Checked
  <2>1. Each("mosaics", mosaicDTO) \in Checked  BY FieldSteps, MoreSteps DEF Each, FieldNames
  <2>2. /\ NewAddressFromBase32("address", 0) \in Checked
        /\ NewAccountFromPublicKey("linkedAccountKey", 0) \in Checked
    BY FieldSteps DEF FieldNames
  <2>3. \A linked \in BOOLEAN : accountInfoDTO(linked) \in Checked
    BY <2>1, <2>2, MoreSteps DEF accountInfoDTO
  <2> QED  BY <2>3 DEF AccountInfos
<1>4. multisigAccountInfoDTO \in Checked
  <2>1. \A name \in FieldNames : Each(name, NewAccountFromPublicKey) \in Checked
    BY FieldSteps, MoreSteps DEF Each
  <2>2. /\ Each("cosignatories", NewAccountFromPublicKey) \in Checked
        /\ Each("multisigAccounts", NewAccountFromPublicKey) \in Checked
        /\ NewAccountFromPublicKey("account", 0) \in Checked
    BY <2>1, FieldSteps DEF FieldNames
  <2> QED  BY <2>2, MoreSteps DEF multisigAccountInfoDTO
<1>5. accountNamesDTO \in Checked  BY FieldSteps DEF accountNamesDTO, FieldNames
<1> QED  BY <1>2, <1>3, <1>4, <1>5, MoreSteps DEF multisigAccountGraphInfoDTOS

(* Namespaces, mosaics, metadata, blocks, contracts, the network.          *)
LEMMA ChainSteps ==
    /\ NamespaceInfos \subseteq Checked /\ BlockInfos \subseteq Checked
    /\ mosaicInfoDTO \in Checked /\ mosaicNameDTO \in Checked
    /\ namespaceNameDTO \in Checked /\ addressMetadataInfoDTO \in Checked
    /\ mosaicMetadataInfoDTO \in Checked /\ namespaceMetadataInfoDTO \in Checked
    /\ contractInfoDTO \in Checked /\ blockchainConfigDTO \in Checked
    /\ transactionStatusDTO \in Checked /\ Step("name", 0, "error", "error") \in Checked
<1>1. NamespaceInfos \subseteq Checked
  <2>1. \A type \in {"address", "mosaic", "none"} : namespaceAliasDTO(type) \in Checked
    <3>1. Step("aliasType", 0, "pass", "pass") \in Checked
      BY DEF Step, Checked, CheckedStep, LetThrough, FieldNames
    <3> QED  BY <3>1, FieldSteps, PointerSteps DEF namespaceAliasDTO, FieldNames
  <2>2. extractLevels \in Checked /\ Step("alias", 0, "panic", "none") \in Checked
    BY OneStep DEF extractLevels, FieldNames
  <2>3. /\ NewAccountFromPublicKey("owner", 0) \in Checked
        /\ namespaceIdDTO("parentId", 0) \in Checked
    BY FieldSteps DEF FieldNames
  <2>4. \A type \in {"address", "mosaic", "none"} : namespaceInfoDTO(type) \in Checked
    BY <2>1, <2>2, <2>3, MoreSteps DEF namespaceInfoDTO
  <2> QED  BY <2>4 DEF NamespaceInfos
<1>2. BlockInfos \subseteq Checked
  <2>1. /\ NewAccountFromPublicKey("signer", 0) \in Checked
        /\ NewAccountFromPublicKey("beneficiary", 0) \in Checked
        /\ hashDto("blockHash") \in Checked /\ hashDto("generationHash") \in Checked
        /\ signatureDto("signature") \in Checked
        /\ hashDto("previousBlockHash") \in Checked
        /\ hashDto("blockTransactionsHash") \in Checked
        /\ hashDto("blockReceiptsHash") \in Checked /\ hashDto("stateHash") \in Checked
    BY FieldSteps DEF FieldNames
  <2>2. \A beneficiary \in BOOLEAN : blockInfoDTO(beneficiary) \in Checked
    BY <2>1, MoreSteps DEF blockInfoDTO
  <2> QED  BY <2>2 DEF BlockInfos
<1>3. mosaicInfoDTO \in Checked
  <2>1. Step("properties", 0, "error", "none") \in Checked  BY OneStep DEF FieldNames
  <2> QED
    BY <2>1, FieldSteps, ListTransactionSteps, MoreSteps DEF mosaicInfoDTO, FieldNames
<1>4. metadataInfoDTO \in Checked
  BY FieldSteps, MoreSteps DEF metadataInfoDTO, Each, FieldNames
<1>5. /\ addressMetadataInfoDTO \in Checked /\ mosaicMetadataInfoDTO \in Checked
      /\ namespaceMetadataInfoDTO \in Checked
  BY <1>4, FieldSteps, PointerSteps, MoreSteps
     DEF addressMetadataInfoDTO, mosaicMetadataInfoDTO, namespaceMetadataInfoDTO, FieldNames
<1>6. /\ mosaicNameDTO \in Checked /\ namespaceNameDTO \in Checked
      /\ contractInfoDTO \in Checked /\ transactionStatusDTO \in Checked
      /\ Step("name", 0, "error", "error") \in Checked
  BY FieldSteps, OneStep
     DEF mosaicNameDTO, namespaceNameDTO, contractInfoDTO, transactionStatusDTO, FieldNames
<1>7. blockchainConfigDTO \in Checked
  BY FieldSteps, MoreSteps DEF blockchainConfigDTO, FieldNames
<1> QED  BY <1>1, <1>2, <1>3, <1>5, <1>6, <1>7

(***************************************************************************)
(* What a call has left to do is a list, whatever is in it.                *)
(***************************************************************************)
IsList(s) == s \in Seq({s[i] : i \in DOMAIN s})

(* A list over any set is one, and so is what Then makes of one.           *)
LEMMA AnyList ==
    ASSUME NEW S, NEW s \in Seq(S)
    PROVE  IsList(s)
<1> DEFINE T == {s[i] : i \in DOMAIN s}
<1>1. Len(s) \in Nat /\ DOMAIN s = 1..Len(s) /\ s \in [1..Len(s) -> T]  OBVIOUS
<1> HIDE DEF T
<1>2. s \in Seq(T)  BY <1>1
<1> QED  BY <1>2 DEF IsList, T

(* Then puts a list before the rest of a list.                             *)
LEMMA ThenList ==
    ASSUME IsList(todo), todo # <<>>, NEW tasks, IsList(tasks)
    PROVE  IsList(tasks \o Tail(todo))
<1> DEFINE S == {todo[i] : i \in DOMAIN todo}
           T == {tasks[i] : i \in DOMAIN tasks}
<1>1. todo \in Seq(S) /\ tasks \in Seq(T)  BY DEF IsList
<1> HIDE DEF S, T
<1>2. Tail(todo) \in Seq(S)  BY <1>1
<1>3. todo \in Seq(S \cup T) /\ tasks \in Seq(S \cup T) /\ Tail(todo) \in Seq(S \cup T)
  BY <1>1, <1>2
<1>4. tasks \o Tail(todo) \in Seq(S \cup T)  BY <1>3
<1> QED  BY <1>4, AnyList

(* The lists that are written out.                                         *)
LEMMA WrittenLists ==
    /\ IsList(<<>>)
    /\ \A a : IsList(<<a>>)
    /\ \A a, b : IsList(<<a, b>>)
    /\ \A a, b, c : IsList(<<a, b, c>>)
<1>1. IsList(<<>>)
  <2>1. <<>> \in Seq({})  OBVIOUS
  <2> QED  BY <2>1, AnyList
<1>2. ASSUME NEW a, NEW b, NEW c PROVE IsList(<<a>>) /\ IsList(<<a, b>>) /\ IsList(<<a, b, c>>)
  <2>1. <<a>> \in Seq({a, b, c}) /\ <<a, b>> \in Seq({a, b, c}) /\ <<a, b, c>> \in Seq({a, b, c})
    OBVIOUS
  <2> QED  BY <2>1, AnyList
<1> QED  BY <1>1, <1>2

(* Every step leaves a list of tasks.                                      *)
LEMMA StepList ==
    ASSUME IsList(todo), [Next]_vars
    PROVE  IsList(todo')
<1>1. CASE UNCHANGED todo  BY <1>1
<1>2. CASE \E how : Stop(how)  BY <1>2, WrittenLists DEF Stop
<1>3. ASSUME NEW tasks, IsList(tasks), Then(tasks), todo # <<>> PROVE IsList(todo')
  BY <1>3, ThenList DEF Then
<1>4. CASE Calls
  <2>1. ASSUME NEW op, NEW ids, NEW tasks, Begin(op, ids, tasks), IsList(tasks)
        PROVE  IsList(todo')
    BY <2>1 DEF Begin
  <2>2. CASE \E op \in DOMAIN Methods : Call(op)  BY <1>2, <2>2 DEF Call
  <2>3. \A id : IsList(ByAssetId(id))  BY WrittenLists DEF ByAssetId
  <2>4. \A ids : IsList(GetMosaicInfosByAssetIds(ids))
    BY WrittenLists DEF GetMosaicInfosByAssetIds
  <2>5. /\ IsList(AggregateBondedTransactions) /\ IsList(GetTransactionEffectiveFee)
        /\ \A n : IsList(GetLinkedMosaicId(n)) /\ IsList(GetLinkedAddress(n))
    BY WrittenLists, TwoTasks
       DEF AggregateBondedTransactions, GetTransactionEffectiveFee, GetLinkedMosaicId,
           GetLinkedAddress, findTransactions, GetTransaction
  <2>6. /\ IsList(GetNetworkConfig) /\ IsList(GetNetworkVersion) /\ IsList(findTransactions)
        /\ IsList(GetBlockTransactions) /\ IsList(GetTransactions) /\ IsList(GetTransaction)
    BY WrittenLists DEF GetNetworkConfig, GetNetworkVersion, findTransactions,
       GetBlockTransactions, GetTransactions, GetTransaction
  <2>7. CASE \E op \in Guarded : Begin(op, <<>>, <<Do("refuse")>>)  BY <2>1, <2>7, WrittenLists
  <2>8. CASE \E n \in Namespaces :
                 \/ Begin("GetNamespaceInfo", <<n>>, <<Task("namespace", n, 0), Do("collect")>>)
                 \/ Begin("GetLinkedMosaicId", <<n>>, GetLinkedMosaicId(n))
                 \/ Begin("GetLinkedAddress", <<n>>, GetLinkedAddress(n))
    BY <2>1, <2>5, <2>8, WrittenLists
  <2>9. CASE \E id \in Namespaces \cup Mosaics :
                 Begin("GetMosaicInfoByAssetId", <<id>>, ByAssetId(id))
    BY <2>1, <2>3, <2>9
  <2>10. CASE \E ids \in Lists(Namespaces \cup Mosaics, MaxInner) :
                  Begin("GetMosaicInfosByAssetIds", ids, GetMosaicInfosByAssetIds(ids))
    BY <2>1, <2>4, <2>10
  <2>11. CASE \/ Begin("GetNamespaceInfosFromAccount", <<>>, <<Do("namespaces")>>)
              \/ Begin("GetNetworkConfig", <<>>, GetNetworkConfig)
              \/ Begin("GetNetworkVersion", <<>>, GetNetworkVersion)
              \/ Begin("findTransactions", <<>>, findTransactions)
              \/ Begin("AggregateBondedTransactions", <<>>, AggregateBondedTransactions)
              \/ Begin("GetBlockTransactions", <<>>, GetBlockTransactions)
              \/ Begin("GetTransactions", <<>>, GetTransactions)
              \/ Begin("GetTransaction", <<>>, GetTransaction)
              \/ Begin("GetTransactionEffectiveFee", <<>>, GetTransactionEffectiveFee)
    BY <2>1, <2>5, <2>6, <2>11, WrittenLists
  <2> QED  BY <1>4, <2>2, <2>7, <2>8, <2>9, <2>10, <2>11 DEF Calls
<1>5. CASE GetNamespaceInfo
  BY <1>2, <1>3, <1>5, WrittenLists DEF GetNamespaceInfo, Now
<1>6. CASE buildNamespaceHierarchy
  BY <1>3, <1>6, WrittenLists DEF buildNamespaceHierarchy, Now
<1>7. CASE SetParent \/ Collect \/ GetLinked
  BY <1>3, <1>7, WrittenLists DEF SetParent, Collect, GetLinked, Now
<1>8. CASE GetNamespaceInfosFromAccount
  BY <1>2, <1>3, <1>8, WrittenLists DEF GetNamespaceInfosFromAccount, Now
<1>9. CASE buildNamespacesHierarchy
  BY <1>3, <1>9, WrittenLists DEF buildNamespacesHierarchy, Now
<1>10. CASE RefuseIds \/ MakeNils
  BY <1>2, <1>3, <1>10, WrittenLists DEF RefuseIds, MakeNils, Now
<1>11. CASE MosaicInfosOf
  BY <1>2, <1>3, <1>11, WrittenLists DEF MosaicInfosOf, Now
<1>12. CASE NamespaceIds  BY <1>3, <1>12, WrittenLists DEF NamespaceIds, Now
<1>13. CASE Resolve  BY <1>2, <1>3, <1>13, WrittenLists DEF Resolve, Now
<1>14. CASE MosaicInfoOf  BY <1>2, <1>3, <1>14, WrittenLists DEF MosaicInfoOf, Now
<1>15. CASE AskHeight \/ AskAtHeight
  BY <1>2, <1>3, <1>15, WrittenLists DEF AskHeight, AskAtHeight, Now
<1>16. CASE AskBlock  BY <1>2, <1>3, <1>16, WrittenLists DEF AskBlock, Now
<1>17. CASE \E one \in BOOLEAN : AskTransactions(one)
  BY <1>2, <1>3, <1>17, WrittenLists DEF AskTransactions, Now
<1>18. CASE MapTransactions
  BY <1>1, <1>2, <1>3, <1>18, MapSteps, WrittenLists DEF MapTransactions, MapReturns, Now
<1>19. CASE AssertAggregates
  BY <1>2, <1>3, <1>19, WrittenLists DEF AssertAggregates, Now
<1>20. CASE Relink \/ Expire \/ Rollback  BY <1>1, <1>20 DEF Relink, Expire, Rollback, Between
<1>21. CASE UNCHANGED vars  BY <1>1, <1>21 DEF vars
<1> QED
  BY <1>4, <1>5, <1>6, <1>7, <1>8, <1>9, <1>10, <1>11, <1>12, <1>13, <1>14, <1>15, <1>16,
     <1>17, <1>18, <1>19, <1>20, <1>21 DEF Next

(***************************************************************************)
(* What gets through the requests.                                         *)
(***************************************************************************)

(* The answer to a request, whatever it is filled into.                    *)
LEMMA AnsweredReplies ==
    ASSUME NEW target, NEW dtos, dtos \subseteq Checked, NEW response
    PROVE  Answered(target, dtos, response) \subseteq Replies
<1>1. Refusal \in Replies /\ Nothing \in Replies /\ Panic \in Replies
  BY DEF Refusal, Nothing, Panic, Replies, Outcomes
<1>2. UNION {toStruct(dto) : dto \in dtos} \subseteq Replies  BY AnswerReply
<1>3. {Zero(dto) : dto \in dtos} \subseteq Replies  BY AnswerReply
<1>4. Decoded(target, dtos, response) \subseteq Replies
  BY <1>1, <1>2, <1>3, Zenon DEF Decoded
<1> QED  BY <1>1, <1>4 DEF Answered

(* The four kinds of request, and one for metadata.                        *)
LEMMA GetReplies ==
    ASSUME NEW dtos, dtos \subseteq Checked
    PROVE  /\ Get(dtos) \subseteq Replies
           /\ GetPointer(dtos) \subseteq Replies
           /\ GetList(dtos) \subseteq Replies /\ GetNils(dtos) \subseteq Replies
<1>1. Get(dtos) \subseteq Replies  BY AnsweredReplies DEF Get, Every
<1>2. GetPointer(dtos) \subseteq Replies  BY AnsweredReplies DEF GetPointer, Every
<1>3. GetList(dtos) \subseteq Replies /\ GetNils(dtos) \subseteq Replies
  <2> DEFINE lists == {ListOf(d) : d \in dtos}
  <2>1. lists \subseteq Checked  BY ListSteps
  <2>2. /\ GetList(dtos) = UNION {Answered("list", lists, response) : response \in Responses}
        /\ GetNils(dtos) = UNION {Answered("nils", lists, response) : response \in Responses}
    BY DEF GetList, GetNils, Every
  <2> HIDE DEF lists
  <2> QED  BY <2>1, <2>2, AnsweredReplies
<1> QED  BY <1>1, <1>2, <1>3

(* Metadata that is not found is an answer without fields.                 *)
LEMMA MetadataReplies ==
    ASSUME NEW dto \in Checked, NEW response
    PROVE  getMetadata(dto, response) \subseteq Replies
<1>1. {dto} \subseteq Checked  OBVIOUS
<1> QED  BY <1>1, AnswerReply, AnsweredReplies DEF getMetadata

(* The methods of one request.                                             *)
LEMMA MethodReplies ==
    ASSUME NEW op \in DOMAIN Methods
    PROVE  Methods[op].replies \subseteq Replies
<1>1. /\ GetAccountProperties.replies \subseteq Replies
      /\ GetAccountsProperties.replies \subseteq Replies
      /\ GetAccountInfo.replies \subseteq Replies /\ GetAccountsInfo.replies \subseteq Replies
      /\ GetMultisigAccountInfo.replies \subseteq Replies
      /\ GetAccountNames.replies \subseteq Replies
  <2>1. {multisigAccountInfoDTO} \subseteq Checked /\ {accountNamesDTO} \subseteq Checked
    BY AccountSteps
  <2> QED
    BY <2>1, AccountSteps, GetReplies
       DEF GetAccountProperties, GetAccountsProperties, GetAccountInfo, GetAccountsInfo,
           GetMultisigAccountInfo, GetAccountNames, Method
<1>2. GetMultisigAccountGraphInfo.replies \subseteq Replies
  <2>1. {multisigAccountGraphInfoDTOS} \subseteq Checked  BY AccountSteps
  <2> QED  BY <2>1, AnsweredReplies DEF GetMultisigAccountGraphInfo, Method, Every
<1>3. /\ GetNamespaceNames.replies \subseteq Replies
      /\ GetAddressMetadatasInfo.replies \subseteq Replies
      /\ GetMosaicMetadatasInfo.replies \subseteq Replies
      /\ GetNamespaceMetadatasInfo.replies \subseteq Replies
  <2>1. /\ {namespaceNameDTO} \subseteq Checked /\ {addressMetadataInfoDTO} \subseteq Checked
        /\ {mosaicMetadataInfoDTO} \subseteq Checked
        /\ {namespaceMetadataInfoDTO} \subseteq Checked
    BY ChainSteps
  <2> QED
    BY <2>1, GetReplies DEF GetNamespaceNames, GetAddressMetadatasInfo,
       GetMosaicMetadatasInfo, GetNamespaceMetadatasInfo, Method
<1>4. /\ GetMetadataByAddress.replies \subseteq Replies
      /\ GetMetadataByMosaicId.replies \subseteq Replies
      /\ GetMetadataByNamespaceId.replies \subseteq Replies
  <2>1. Refusal \in Replies  BY DEF Refusal, Replies, Outcomes
  <2> QED
    BY <2>1, ChainSteps, MetadataReplies DEF GetMetadataByAddress, GetMetadataByMosaicId,
       GetMetadataByNamespaceId, Method, Every
<1>5. /\ GetBlockByHeight.replies \subseteq Replies
      /\ GetBlocksByHeightWithLimit.replies \subseteq Replies
      /\ GetBlockchainHeight.replies \subseteq Replies
      /\ GetBlockchainScore.replies \subseteq Replies
      /\ GetBlockchainStorage.replies \subseteq Replies
      /\ announceTransaction.replies \subseteq Replies
      /\ GetNetworkVersionAtHeight.replies \subseteq Replies
  <2>1. {<<>>} \subseteq Checked  BY MoreSteps
  <2> QED
    BY <2>1, ChainSteps, GetReplies DEF GetBlockByHeight, GetBlocksByHeightWithLimit,
       GetBlockchainHeight, GetBlockchainScore, GetBlockchainStorage, announceTransaction,
       GetNetworkVersionAtHeight, Method
<1>6. /\ GetMosaicInfo.replies \subseteq Replies /\ GetMosaicInfos.replies \subseteq Replies
      /\ GetMosaicsNames.replies \subseteq Replies
      /\ GetContractsInfo.replies \subseteq Replies
      /\ GetContractsByAddress.replies \subseteq Replies
  <2>1. /\ {mosaicInfoDTO} \subseteq Checked /\ {mosaicNameDTO} \subseteq Checked
        /\ {contractInfoDTO} \subseteq Checked
    BY ChainSteps
  <2> QED
    BY <2>1, GetReplies DEF GetMosaicInfo, GetMosaicInfos, GetMosaicsNames,
       GetContractsInfo, GetContractsByAddress, Method
<1>7. /\ GetNetworkType.replies \subseteq Replies
      /\ GetNetworkConfigAtHeight.replies \subseteq Replies
      /\ GetTransactionStatus.replies \subseteq Replies
      /\ GetTransactionStatuses.replies \subseteq Replies
  <2>1. /\ {Step("name", 0, "error", "error")} \subseteq Checked
        /\ {blockchainConfigDTO} \subseteq Checked /\ {transactionStatusDTO} \subseteq Checked
    BY ChainSteps
  <2> QED
    BY <2>1, GetReplies DEF GetNetworkType, GetNetworkConfigAtHeight, GetTransactionStatus,
       GetTransactionStatuses, Method
<1> QED  BY <1>1, <1>2, <1>3, <1>4, <1>5, <1>6, <1>7 DEF Methods

(* Those of the other calls.                                               *)
LEMMA RequestReplies ==
    /\ NamespaceReplies \subseteq Replies /\ NamespaceListReplies \subseteq Replies
    /\ GetMosaicInfos.replies \subseteq Replies /\ GetMosaicInfo.replies \subseteq Replies
    /\ GetBlockchainHeight.replies \subseteq Replies
    /\ GetNetworkConfigAtHeight.replies \subseteq Replies
    /\ GetNetworkVersionAtHeight.replies \subseteq Replies
    /\ GetBlockByHeight.replies \subseteq Replies /\ Refusal \in Replies
<1>1. NamespaceReplies \subseteq Replies /\ NamespaceListReplies \subseteq Replies
  BY ChainSteps, GetReplies DEF NamespaceReplies, NamespaceListReplies
<1>2. Refusal \in Replies  BY DEF Refusal, Replies, Outcomes
<1>3. /\ Methods["GetMosaicInfos"].replies \subseteq Replies
      /\ Methods["GetMosaicInfo"].replies \subseteq Replies
      /\ Methods["GetBlockchainHeight"].replies \subseteq Replies
      /\ Methods["GetNetworkConfigAtHeight"].replies \subseteq Replies
      /\ Methods["GetNetworkVersionAtHeight"].replies \subseteq Replies
      /\ Methods["GetBlockByHeight"].replies \subseteq Replies
  <2>1. {"GetMosaicInfos", "GetMosaicInfo", "GetBlockchainHeight", "GetNetworkConfigAtHeight",
         "GetNetworkVersionAtHeight", "GetBlockByHeight"} \subseteq DOMAIN Methods
    BY DEF Methods
  <2> QED  BY <2>1, MethodReplies
<1> QED  BY <1>1, <1>2, <1>3 DEF Methods

(***************************************************************************)
(* Mapping in the order of the list.  A place is that of a transaction of  *)
(* the list or of one inside it.                                           *)
(***************************************************************************)
InnerItem == [aggregate : {FALSE}, own : Replies, inner : {<<>>}]

Item ==
    {t \in [aggregate : BOOLEAN, own : Replies, inner : Seq(InnerItem)] :
        ~t.aggregate => t.inner = <<>>}

Places == Outer \cup UNION {Inner(i) : i \in DOMAIN items}

MappingType ==
    /\ items \in Seq(Item)
    /\ work \in [Places -> {"unborn", "running", "done"}]
    /\ errs \in [Places -> Places \cup {<<>>}]

AllDone(group) == \A p \in group : work[p] = "done"

(* A goroutine that is done has left the error of its transaction, or none;*)
(* one that maps a transaction of the list has waited for those inside it. *)
InnerDone ==
    \A i \in DOMAIN items : \A j \in DOMAIN items[i].inner :
        work[<<i, j>>] = "done" =>
            /\ items[i].inner[j].own.end # "panic"
            /\ errs[<<i, j>>] = IF items[i].inner[j].own.end = "error" THEN <<i, j>> ELSE <<>>

OuterDone ==
    \A i \in DOMAIN items :
        work[<<i>>] = "done" =>
            AllDone(Inner(i)) /\ ~Panics(i) /\ errs[<<i>>] = ItemError(i)

(* Once the mapping is over its first error ends the call.                 *)
MappingOver ==
    items # <<>> /\ ~Now("map") =>
        end = "panic" \/ (AllDone(Outer) /\ (FirstOf(Outer) # <<>> => end = "error"))

CallerInv == call = NoCall => todo = <<>> /\ items = <<>>

ThroughInv == passed \subseteq LetThrough /\ end \in Outcomes

MapInv ==
    /\ MappingType /\ InnerDone /\ OuterDone /\ MappingOver
    /\ CallerInv /\ ThroughInv

(* Places of the list and places inside a transaction are not confused.    *)
LEMMA PlaceNames ==
    /\ \A i, k : <<i>> = <<k>> => i = k
    /\ \A i, j, k, l : <<i, j>> = <<k, l>> => i = k /\ j = l
    /\ \A i, j, k : <<i, j>> # <<k>>
    /\ \A i : <<i>> # <<>> /\ \A j : <<i, j>> # <<>>
    /\ \A i, j : Len(<<i>>) = 1 /\ Len(<<i, j>>) = 2
OBVIOUS

(* What a place stands for.                                                *)
LEMMA PlaceMembers ==
    /\ \A i \in DOMAIN items : <<i>> \in Places /\ <<i>> \in Outer /\ At(<<i>>) = items[i]
    /\ \A i \in DOMAIN items : \A j \in DOMAIN items[i].inner :
           /\ <<i, j>> \in Places /\ <<i, j>> \in Inner(i)
           /\ At(<<i, j>>) = items[i].inner[j]
    /\ \A p \in Places :
           \/ \E i \in DOMAIN items : p = <<i>>
           \/ \E i \in DOMAIN items : \E j \in DOMAIN items[i].inner : p = <<i, j>>
<1>1. \A i \in DOMAIN items : <<i>> \in Places /\ <<i>> \in Outer /\ At(<<i>>) = items[i]
  BY PlaceNames DEF Places, Outer, At
<1>2. \A i \in DOMAIN items : \A j \in DOMAIN items[i].inner :
          /\ <<i, j>> \in Places /\ <<i, j>> \in Inner(i)
          /\ At(<<i, j>>) = items[i].inner[j]
  <2>1. \A i, j : Len(<<i, j>>) # 1 /\ <<i, j>>[1] = i /\ <<i, j>>[2] = j  OBVIOUS
  <2> QED  BY <2>1 DEF Places, Inner, At
<1>3. \A p \in Places :
          \/ \E i \in DOMAIN items : p = <<i>>
          \/ \E i \in DOMAIN items : \E j \in DOMAIN items[i].inner : p = <<i, j>>
  BY DEF Places, Outer, Inner
<1> QED  BY <1>1, <1>2, <1>3

(* The transactions have their type.                                       *)
LEMMA ItemTypes ==
    ASSUME MappingType, NEW i \in DOMAIN items
    PROVE  /\ i \in Nat /\ items[i].own \in Replies /\ items[i].aggregate \in BOOLEAN
           /\ ~items[i].aggregate => items[i].inner = <<>>
           /\ DOMAIN items[i].inner \subseteq Nat
           /\ \A j \in DOMAIN items[i].inner :
                  /\ items[i].inner[j].own \in Replies
                  /\ items[i].inner[j].aggregate = FALSE
<1>1. i \in Nat /\ items[i] \in Item  BY DEF MappingType
<1>2. items[i].inner \in Seq(InnerItem)  BY <1>1 DEF Item
<1>3. \A j \in DOMAIN items[i].inner : j \in Nat /\ items[i].inner[j] \in InnerItem  BY <1>2
<1> QED  BY <1>1, <1>3 DEF Item, InnerItem

(* The first error among inner transactions that have all been mapped.     *)
LEMMA FirstInnerError ==
    ASSUME MappingType, InnerDone, NEW i \in DOMAIN items, AllDone(Inner(i))
    PROVE  LET bad == {j \in DOMAIN items[i].inner : items[i].inner[j].own.end = "error"}
           IN  FirstOf(Inner(i)) = IF bad = {} THEN <<>> ELSE <<i, Min(bad)>>
<1> DEFINE bad == {j \in DOMAIN items[i].inner : items[i].inner[j].own.end = "error"}
           failed == {p \in Inner(i) : errs[p] # <<>>}
           first(p) == \A q \in failed \ {p} : Before(p, q)
<1>1. \A j \in DOMAIN items[i].inner :
          errs[<<i, j>>] = IF items[i].inner[j].own.end = "error" THEN <<i, j>> ELSE <<>>
  BY PlaceMembers DEF InnerDone, AllDone
<1>2. \A p : p \in failed <=> \E j \in bad : p = <<i, j>>
  BY <1>1, PlaceNames DEF Inner
<1>3. CASE bad = {}
  BY <1>2, <1>3 DEF FirstOf
<1>4. CASE bad # {}
  <2>1. bad \subseteq Nat  BY ItemTypes
  <2>2. Min(bad) \in bad /\ \A k \in bad : Min(bad) <= k  BY <1>4, <2>1, MinOf
  <2>3. \A j, k : Before(<<i, j>>, <<i, k>>) <=> j < k
    <3>1. \A j, k : Len(<<j, k>>) = 2 /\ <<j, k>>[2] = k  OBVIOUS
    <3> QED  BY <3>1 DEF Before
  <2> DEFINE m == Min(bad)
  <2> HIDE DEF bad, m
  <2>4. <<i, m>> \in failed  BY <1>2, <2>2 DEF m
  <2>5. first(<<i, m>>)
    <3>1. ASSUME NEW q \in failed \ {<<i, m>>} PROVE Before(<<i, m>>, q)
      <4>1. PICK k \in bad : q = <<i, k>>  BY <1>2
      <4>2. k # m /\ k \in Nat /\ m \in Nat /\ m <= k  BY <2>1, <2>2, <3>1, <4>1 DEF m
      <4>3. m < k  BY <4>2
      <4> QED  BY <2>3, <4>1, <4>3
    <3> QED  BY <3>1
  <2>6. ASSUME NEW p \in failed, first(p) PROVE p = <<i, m>>
    <3>1. PICK k \in bad : p = <<i, k>>  BY <1>2
    <3>2. CASE p # <<i, m>>
      <4>1. Before(p, <<i, m>>)  BY <2>4, <2>6, <3>2
      <4>2. k < m  BY <2>3, <3>1, <4>1
      <4>3. k \in Nat /\ m \in Nat /\ m <= k  BY <2>1, <2>2 DEF m
      <4> QED  BY <4>2, <4>3
    <3> QED  BY <3>2
  <2> HIDE DEF failed
  <2>7. (CHOOSE p \in failed : first(p)) = <<i, m>>
    BY <2>4, <2>5, <2>6
  <2>8. failed # {}  BY <2>4
  <2>9. FirstOf(Inner(i)) = errs[<<i, m>>]  BY <2>7, <2>8 DEF FirstOf, failed
  <2>10. errs[<<i, m>>] = <<i, m>>  BY <1>1, <2>2 DEF m, bad
  <2> QED  BY <1>4, <2>9, <2>10 DEF m, bad
<1> QED  BY <1>3, <1>4

(* The error of a transaction, and whether it panics.                      *)
LEMMA ItemErrors ==
    ASSUME NEW i \in DOMAIN items
    PROVE  LET bad == {j \in DOMAIN items[i].inner : items[i].inner[j].own.end = "error"}
           IN  /\ bad # {} => ItemError(i) = <<i, Min(bad)>>
               /\ bad = {} =>
                      ItemError(i) = IF items[i].own.end = "error" THEN <<i>> ELSE <<>>
               /\ bad # {} => Len(ItemError(i)) = 2
<1> DEFINE bad == {j \in DOMAIN items[i].inner : items[i].inner[j].own.end = "error"}
<1>1. bad # {} => ItemError(i) = <<i, Min(bad)>>  BY DEF ItemError
<1>2. bad = {} => ItemError(i) = IF items[i].own.end = "error" THEN <<i>> ELSE <<>>
  BY DEF ItemError
<1>3. bad # {} => Len(ItemError(i)) = 2  BY <1>1, PlaceNames
<1> QED  BY <1>1, <1>2, <1>3

(* It is the error of a place of the list.                                 *)
LEMMA ItemErrorPlace ==
    ASSUME MappingType, NEW i \in DOMAIN items
    PROVE  ItemError(i) \in Places \cup {<<>>}
<1> DEFINE bad == {j \in DOMAIN items[i].inner : items[i].inner[j].own.end = "error"}
<1>1. CASE bad = {}  BY <1>1, ItemErrors, PlaceMembers
<1>2. CASE bad # {}
  <2>1. bad \subseteq Nat  BY ItemTypes
  <2>2. Min(bad) \in bad  BY <1>2, <2>1, MinOf
  <2> QED  BY <1>2, <2>2, ItemErrors, PlaceMembers
<1> QED  BY <1>1, <1>2

(* The first error of the list when all of it has been mapped.             *)
LEMMA FirstOuterError ==
    ASSUME MappingType, OuterDone, AllDone(Outer)
    PROVE  LET failing == {i \in DOMAIN items : ItemError(i) # <<>>}
           IN  FirstOf(Outer) = IF failing = {} THEN <<>> ELSE ItemError(Min(failing))
<1> DEFINE failing == {i \in DOMAIN items : ItemError(i) # <<>>}
           failed == {p \in Outer : errs[p] # <<>>}
           first(p) == \A q \in failed \ {p} : Before(p, q)
<1>1. \A i \in DOMAIN items : errs[<<i>>] = ItemError(i)
  BY PlaceMembers DEF OuterDone, AllDone
<1>2. \A p : p \in failed <=> \E i \in failing : p = <<i>>
  BY <1>1, PlaceNames DEF Outer
<1>3. CASE failing = {}
  BY <1>2, <1>3 DEF FirstOf
<1>4. CASE failing # {}
  <2>1. failing \subseteq Nat  BY ItemTypes
  <2>2. Min(failing) \in failing /\ \A k \in failing : Min(failing) <= k
    BY <1>4, <2>1, MinOf
  <2>3. \A i, k : Before(<<i>>, <<k>>) <=> i < k
    <3>1. \A k : Len(<<k>>) = 1 /\ <<k>>[1] = k  OBVIOUS
    <3> QED  BY <3>1 DEF Before
  <2> DEFINE m == Min(failing)
  <2>4. m \in failing /\ m \in DOMAIN items  BY <2>2
  <2> HIDE DEF failing, m
  <2>5. <<m>> \in failed  BY <1>2, <2>4
  <2>6. first(<<m>>)
    <3>1. ASSUME NEW q \in failed \ {<<m>>} PROVE Before(<<m>>, q)
      <4>1. PICK k \in failing : q = <<k>>  BY <1>2
      <4>2. k # m /\ k \in Nat /\ m \in Nat /\ m <= k  BY <2>1, <2>2, <3>1, <4>1 DEF m
      <4>3. m < k  BY <4>2
      <4> QED  BY <2>3, <4>1, <4>3
    <3> QED  BY <3>1
  <2>7. ASSUME NEW p \in failed, first(p) PROVE p = <<m>>
    <3>1. PICK k \in failing : p = <<k>>  BY <1>2
    <3>2. CASE p # <<m>>
      <4>1. Before(p, <<m>>)  BY <2>5, <2>7, <3>2
      <4>2. k < m  BY <2>3, <3>1, <4>1
      <4>3. k \in Nat /\ m \in Nat /\ m <= k  BY <2>1, <2>2 DEF m
      <4> QED  BY <4>2, <4>3
    <3> QED  BY <3>2
  <2> HIDE DEF failed
  <2>8. (CHOOSE p \in failed : first(p)) = <<m>>  BY <2>5, <2>6, <2>7
  <2>9. failed # {}  BY <2>5
  <2>10. FirstOf(Outer) = errs[<<m>>]  BY <2>8, <2>9 DEF FirstOf, failed
  <2>11. FirstOf(Outer) = ItemError(m)  BY <1>1, <2>4, <2>10
  <2> QED  BY <1>4, <2>11 DEF m, failing
<1> QED  BY <1>3, <1>4

(* What depends on the list alone.                                         *)
LEMMA SameItems ==
    ASSUME UNCHANGED items
    PROVE  /\ Outer' = Outer /\ Places' = Places
           /\ \A i : Inner(i)' = Inner(i)
           /\ \A i : ItemError(i)' = ItemError(i) /\ (Panics(i)' <=> Panics(i))
           /\ \A p : At(p)' = At(p)
BY DEF Outer, Places, Inner, ItemError, Panics, At

(* One goroutine moves on while the others stay as they are.               *)
LEMMA OneMoves ==
    ASSUME MapInv, Now("map"), UNCHANGED <<call, todo, end, passed, items>>,
           NEW p \in Places, work[p] # "done", NEW status \in {"running", "done"},
           NEW error \in Places \cup {<<>>},
           work' = [work EXCEPT ![p] = status], errs' = [errs EXCEPT ![p] = error],
           \A i \in DOMAIN items : \A j \in DOMAIN items[i].inner :
               p = <<i, j>> /\ status = "done" =>
                   /\ items[i].inner[j].own.end # "panic"
                   /\ error = IF items[i].inner[j].own.end = "error" THEN <<i, j>> ELSE <<>>,
           \A i \in DOMAIN items :
               p = <<i>> /\ status = "done" =>
                   AllDone(Inner(i)) /\ ~Panics(i) /\ error = ItemError(i)
    PROVE  MapInv'
<1> USE DEF MapInv
<1>1. MappingType'
  BY SameItems DEF MappingType
<1>2. /\ \A q \in Places : q # p => work'[q] = work[q] /\ errs'[q] = errs[q]
      /\ work'[p] = status /\ errs'[p] = error
  BY DEF MappingType
<1>3. InnerDone'
  <2> SUFFICES ASSUME NEW i \in DOMAIN items, NEW j \in DOMAIN items[i].inner,
                      work'[<<i, j>>] = "done"
               PROVE  /\ items[i].inner[j].own.end # "panic"
                      /\ errs'[<<i, j>>] =
                             IF items[i].inner[j].own.end = "error" THEN <<i, j>> ELSE <<>>
    BY DEF InnerDone
  <2>1. <<i, j>> \in Places  BY PlaceMembers
  <2> QED  BY <1>2, <2>1 DEF InnerDone
<1>4. OuterDone'
  <2> SUFFICES ASSUME NEW i \in DOMAIN items, work'[<<i>>] = "done"
               PROVE  AllDone(Inner(i))' /\ ~Panics(i) /\ errs'[<<i>>] = ItemError(i)
    BY SameItems DEF OuterDone
  <2>1. <<i>> \in Places  BY PlaceMembers
  <2>2. AllDone(Inner(i)) /\ ~Panics(i) /\ errs'[<<i>>] = ItemError(i)
    BY <1>2, <2>1 DEF OuterDone
  <2>3. Inner(i) \subseteq Places  BY PlaceMembers DEF Inner
  <2>4. p \notin Inner(i)  BY <2>2 DEF AllDone
  <2>5. \A q \in Inner(i) : work'[q] = "done"  BY <1>2, <2>2, <2>3, <2>4 DEF AllDone
  <2> QED  BY <2>2, <2>5, SameItems DEF AllDone
<1>5. MappingOver'  BY DEF MappingOver, Now
<1>6. CallerInv' /\ ThroughInv'  BY DEF CallerInv, ThroughInv
<1> QED  BY <1>1, <1>3, <1>4, <1>5, <1>6

(* The next goroutine of a group is started.                               *)
LEMMA SpawnKeeps ==
    ASSUME MapInv, Now("map"), NEW group, group \subseteq Places, Spawn(group)
    PROVE  MapInv'
<1>1. PICK p \in group :
          work[p] = "unborn" /\ work' = [work EXCEPT ![p] = "running"]
              /\ UNCHANGED <<call, todo, end, passed, items, errs>>
  BY DEF Spawn
<1>2. p \in Places /\ work[p] # "done"  BY <1>1
<1>3. errs[p] \in Places \cup {<<>>} /\ errs' = [errs EXCEPT ![p] = errs[p]]
  BY <1>1, <1>2 DEF MapInv, MappingType
<1>4. "running" \in {"running", "done"} /\ "running" # "done"  OBVIOUS
<1> QED  BY <1>1, <1>2, <1>3, <1>4, OneMoves

(* The process ends.                                                       *)
LEMMA DiesKeeps ==
    ASSUME MapInv, Dies
    PROVE  MapInv'
<1>1. UNCHANGED <<call, passed, items, work, errs>> /\ end' = "panic" /\ todo' = <<>>
  BY DEF Dies, Stop, mapping
<1>2. MappingType'  BY <1>1, SameItems DEF MapInv, MappingType
<1>3. InnerDone'  BY <1>1 DEF MapInv, InnerDone
<1>4. OuterDone'
  <2>1. \A i : AllDone(Inner(i))' <=> AllDone(Inner(i))  BY <1>1, SameItems DEF AllDone
  <2> QED  BY <1>1, <2>1, SameItems DEF MapInv, OuterDone
<1>5. MappingOver' /\ CallerInv' /\ ThroughInv'
  BY <1>1 DEF MapInv, MappingOver, CallerInv, ThroughInv, Outcomes
<1> QED  BY <1>2, <1>3, <1>4, <1>5 DEF MapInv

(* An inner transaction, or one without any, is mapped.                    *)
LEMMA MapSingleKeeps ==
    ASSUME MapInv, Now("map"), NEW p \in DOMAIN work, MapSingle(p)
    PROVE  MapInv'
<1>1. CASE Dies  BY <1>1, DiesKeeps
<1>2. CASE At(p).own.end # "panic" /\ Done(p, IF At(p).own.end = "error" THEN p ELSE <<>>)
  <2> DEFINE error == IF At(p).own.end = "error" THEN p ELSE <<>>
  <2>1. p \in Places  BY DEF MapInv, MappingType
  <2>2. /\ work[p] # "done" /\ error \in Places \cup {<<>>}
        /\ work' = [work EXCEPT ![p] = "done"] /\ errs' = [errs EXCEPT ![p] = error]
        /\ UNCHANGED <<call, todo, end, passed, items>>
    BY <1>2, <2>1 DEF MapSingle, Done
  <2>3. ASSUME NEW i \in DOMAIN items, NEW j \in DOMAIN items[i].inner, p = <<i, j>>
        PROVE  /\ items[i].inner[j].own.end # "panic"
               /\ error = IF items[i].inner[j].own.end = "error" THEN <<i, j>> ELSE <<>>
    <3>1. At(p) = items[i].inner[j]  BY <2>3, PlaceMembers
    <3> QED  BY <1>2, <2>3, <3>1
  <2>4. ASSUME NEW i \in DOMAIN items, p = <<i>>
        PROVE  AllDone(Inner(i)) /\ ~Panics(i) /\ error = ItemError(i)
    <3>1. At(p) = items[i]  BY <2>4, PlaceMembers
    <3>2. items[i].inner = <<>>  BY <3>1, ItemTypes DEF MapInv, MapSingle
    <3>3. DOMAIN items[i].inner = {}  BY <3>2
    <3>4. AllDone(Inner(i))  BY <3>3 DEF AllDone, Inner
    <3>5. error = ItemError(i)  BY <2>4, <3>1, <3>3, ItemErrors
    <3>6. ~Panics(i)  BY <1>2, <3>1, <3>3 DEF Panics
    <3> QED  BY <3>4, <3>5, <3>6
  <2>5. "done" \in {"running", "done"}  OBVIOUS
  <2> HIDE DEF error
  <2> QED  BY <2>1, <2>2, <2>3, <2>4, <2>5, OneMoves, ZenonT(60)
<1> QED  BY <1>1, <1>2 DEF MapSingle, dtoToTransaction

(* An aggregate is mapped.                                                 *)
LEMMA MapAggregateKeeps ==
    ASSUME MapInv, Now("map"), NEW i \in DOMAIN items, MapAggregate(i)
    PROVE  MapInv'
<1> DEFINE bad == {j \in DOMAIN items[i].inner : items[i].inner[j].own.end = "error"}
<1>1. CASE Spawn(Inner(i))
  <2>1. Inner(i) \subseteq Places  BY PlaceMembers DEF Inner
  <2> QED  BY <1>1, <2>1, SpawnKeeps
<1>2. ASSUME AllDone(Inner(i)), Done(<<i>>, ItemError(i)), ~Panics(i)
      PROVE  MapInv'
  <2>1. /\ work[<<i>>] # "done" /\ work' = [work EXCEPT ![<<i>>] = "done"]
        /\ errs' = [errs EXCEPT ![<<i>>] = ItemError(i)]
        /\ UNCHANGED <<call, todo, end, passed, items>>
    BY <1>2 DEF MapAggregate, Done
  <2>2. <<i>> \in Places /\ ItemError(i) \in Places \cup {<<>>}
    BY PlaceMembers, ItemErrorPlace DEF MapInv
  <2>3. \A k, j : <<i>> # <<k, j>>  BY PlaceNames
  <2>4. \A k : <<i>> = <<k>> => k = i  BY PlaceNames
  <2>5. "done" \in {"running", "done"}  OBVIOUS
  <2> QED  BY <1>2, <2>1, <2>2, <2>3, <2>4, <2>5, OneMoves, ZenonT(60)
<1>3. CASE AllDone(Inner(i)) /\ ~Spawn(Inner(i))
  <2>1. FirstOf(Inner(i)) = IF bad = {} THEN <<>> ELSE <<i, Min(bad)>>
    BY <1>3, FirstInnerError DEF MapInv
  <2>2. \A j \in DOMAIN items[i].inner : items[i].inner[j].own.end # "panic"
    BY <1>3, PlaceMembers DEF MapInv, InnerDone, AllDone
  <2>3. CASE bad # {}
    <3>1. FirstOf(Inner(i)) = ItemError(i) /\ FirstOf(Inner(i)) # <<>>
      BY <2>1, <2>3, ItemErrors, PlaceNames
    <3>2. Done(<<i>>, ItemError(i))  BY <1>3, <3>1 DEF MapAggregate, AllDone
    <3>3. Len(ItemError(i)) = 2  BY <2>3, ItemErrors
    <3>4. ~(Len(ItemError(i)) < 2)  BY <3>3
    <3>5. ~Panics(i)  BY <2>2, <3>4 DEF Panics
    <3> QED  BY <1>2, <1>3, <3>2, <3>5
  <2>4. CASE bad = {}
    <3>1. FirstOf(Inner(i)) = <<>>  BY <2>1, <2>4
    <3>2. dtoToTransaction(<<i>>)  BY <1>3, <3>1 DEF MapAggregate
    <3>3. At(<<i>>) = items[i]  BY PlaceMembers
    <3>4. CASE items[i].own.end = "panic"
      BY <3>2, <3>3, <3>4, DiesKeeps DEF dtoToTransaction
    <3>5. CASE items[i].own.end # "panic"
      <4>1. ItemError(i) = IF items[i].own.end = "error" THEN <<i>> ELSE <<>>
        BY <2>4, ItemErrors
      <4>2. Done(<<i>>, ItemError(i))  BY <3>2, <3>3, <3>5, <4>1 DEF dtoToTransaction
      <4>3. ~Panics(i)  BY <2>2, <3>5 DEF Panics
      <4> QED  BY <1>2, <1>3, <4>2, <4>3
    <3> QED  BY <3>4, <3>5
  <2> QED  BY <2>3, <2>4
<1> QED  BY <1>1, <1>3 DEF MapAggregate, AllDone

(* The goroutines have ended.                                              *)
LEMMA MapReturnsKeeps ==
    ASSUME MapInv, Now("map"), MapReturns
    PROVE  MapInv'
<1>1. UNCHANGED <<call, items, work, errs>> /\ AllDone(Outer)
  BY DEF MapReturns, mapping, AllDone
<1>2. MappingType'  BY <1>1, SameItems DEF MapInv, MappingType
<1>3. InnerDone'  BY <1>1 DEF MapInv, InnerDone
<1>4. OuterDone'
  <2>1. \A i : AllDone(Inner(i))' <=> AllDone(Inner(i))  BY <1>1, SameItems DEF AllDone
  <2> QED  BY <1>1, <2>1, SameItems DEF MapInv, OuterDone
<1>5. AllDone(Outer)' /\ FirstOf(Outer)' = FirstOf(Outer)
  BY <1>1, SameItems DEF AllDone, FirstOf
<1>6. MappingOver'
  BY <1>5 DEF MapReturns, MappingOver, Stop
<1>7. ThroughInv'
  <2>1. ASSUME NEW p \in DOMAIN work PROVE At(p).own \in Replies
    <3>1. p \in Places /\ MappingType  BY DEF MapInv, MappingType
    <3>2. CASE \E i \in DOMAIN items : p = <<i>>
      <4>1. PICK i \in DOMAIN items : p = <<i>>  BY <3>2
      <4>2. At(p) = items[i]  BY <4>1, PlaceMembers
      <4> QED  BY <3>1, <4>2, ItemTypes
    <3>3. CASE \E i \in DOMAIN items : \E j \in DOMAIN items[i].inner : p = <<i, j>>
      <4>1. PICK i \in DOMAIN items : \E j \in DOMAIN items[i].inner : p = <<i, j>>  BY <3>3
      <4>2. PICK j \in DOMAIN items[i].inner : p = <<i, j>>  BY <4>1
      <4>3. At(p) = items[i].inner[j]  BY <4>2, PlaceMembers
      <4> QED  BY <3>1, <4>3, ItemTypes
    <3> QED  BY <3>1, <3>2, <3>3, PlaceMembers
  <2>2. UNION {At(p).own.passed : p \in DOMAIN work} \subseteq LetThrough
    BY <2>1 DEF Replies
  <2> QED  BY <2>2 DEF MapInv, ThroughInv, MapReturns, Then, Stop, Outcomes
<1>8. CallerInv'  BY <1>1 DEF MapInv, CallerInv, Now
<1> QED  BY <1>2, <1>3, <1>4, <1>6, <1>7, <1>8 DEF MapInv

(* Any step of a mapping.                                                  *)
LEMMA MapTransactionsKeeps ==
    ASSUME MapInv, MapTransactions
    PROVE  MapInv'
<1>1. Outer \subseteq Places  BY DEF Places
<1> QED
  BY <1>1, SpawnKeeps, MapSingleKeeps, MapAggregateKeeps, MapReturnsKeeps DEF MapTransactions

(* The other steps leave the mapping alone.                                *)
LEMMA OtherKeeps ==
    ASSUME MapInv, UNCHANGED <<call, mapping>>, ThroughInv', NEW name, name # "map", Now(name)
    PROVE  MapInv'
<1>1. UNCHANGED <<call, items, work, errs>>  BY DEF mapping
<1>2. MappingType'  BY <1>1, SameItems DEF MapInv, MappingType
<1>3. InnerDone'  BY <1>1 DEF MapInv, InnerDone
<1>4. OuterDone'
  <2>1. \A i : AllDone(Inner(i))' <=> AllDone(Inner(i))  BY <1>1, SameItems DEF AllDone
  <2> QED  BY <1>1, <2>1, SameItems DEF MapInv, OuterDone
<1>5. (AllDone(Outer)' <=> AllDone(Outer)) /\ FirstOf(Outer)' = FirstOf(Outer)
  BY <1>1, SameItems DEF AllDone, FirstOf
<1>6. end = "ok" /\ ~Now("map") /\ todo # <<>>  BY DEF Now
<1>7. items # <<>> => AllDone(Outer) /\ FirstOf(Outer) = <<>>
  BY <1>6 DEF MapInv, MappingOver
<1>8. MappingOver'  BY <1>1, <1>5, <1>7 DEF MappingOver
<1>9. CallerInv'  BY <1>1, <1>6 DEF MapInv, CallerInv
<1> QED  BY <1>2, <1>3, <1>4, <1>8, <1>9 DEF MapInv

(* The answers to the requests let nothing else through.                   *)
LEMMA ThroughSteps ==
    ASSUME ThroughInv,
           \/ GetNamespaceInfo \/ GetNamespaceInfosFromAccount \/ MosaicInfosOf
           \/ MosaicInfoOf \/ AskHeight \/ AskAtHeight \/ AskBlock
    PROVE  ThroughInv'
<1>1. ASSUME NEW reply \in Replies,
             \/ reply.end = "ok" /\ UNCHANGED end /\ passed' = passed \cup reply.passed
             \/ end' = reply.end /\ UNCHANGED passed
             \/ end' = reply.end /\ passed' = passed \cup reply.passed
             \/ UNCHANGED <<end, passed>>
      PROVE  ThroughInv'
  BY <1>1 DEF ThroughInv, Replies
<1>2. CASE GetNamespaceInfo
  <2>1. PICK reply \in IF Head(todo).id \in chain.live THEN NamespaceReplies ELSE {Refusal} :
            \/ UNCHANGED end /\ passed' = passed \cup reply.passed /\ reply.end = "ok"
            \/ end' = reply.end /\ UNCHANGED passed
    BY <1>2 DEF GetNamespaceInfo, Then, Stop
  <2>2. reply \in Replies  BY <2>1, RequestReplies
  <2> QED  BY <1>1, <2>1, <2>2
<1>3. CASE GetNamespaceInfosFromAccount
  <2>1. PICK reply \in NamespaceListReplies :
            \/ UNCHANGED end /\ passed' = passed \cup reply.passed /\ reply.end = "ok"
            \/ end' = reply.end /\ UNCHANGED passed
    BY <1>3 DEF GetNamespaceInfosFromAccount, Then, Stop
  <2>2. reply \in Replies  BY <2>1, RequestReplies
  <2> QED  BY <1>1, <2>1, <2>2
<1>4. CASE MosaicInfosOf
  <2>1. PICK reply \in GetMosaicInfos.replies :
            \/ UNCHANGED end /\ passed' = passed \cup reply.passed /\ reply.end = "ok"
            \/ end' = reply.end /\ UNCHANGED passed
    BY <1>4 DEF MosaicInfosOf, Then, Stop
  <2>2. reply \in Replies  BY <2>1, RequestReplies
  <2> QED  BY <1>1, <2>1, <2>2
<1>5. CASE MosaicInfoOf
  <2>1. PICK reply \in GetMosaicInfo.replies :
            \/ UNCHANGED end /\ passed' = passed \cup reply.passed /\ reply.end = "ok"
            \/ end' = reply.end /\ UNCHANGED passed
    BY <1>5 DEF MosaicInfoOf, Then, Stop
  <2>2. reply \in Replies  BY <2>1, RequestReplies
  <2> QED  BY <1>1, <2>1, <2>2
<1>6. CASE AskHeight
  <2>1. PICK reply \in GetBlockchainHeight.replies :
            (UNCHANGED end \/ end' = reply.end) /\ UNCHANGED passed
    BY <1>6 DEF AskHeight, Then, Stop
  <2>2. reply \in Replies  BY <2>1, RequestReplies
  <2> QED  BY <1>1, <2>1, <2>2
<1>7. CASE AskAtHeight
  <2>1. PICK reply \in IF call.op = "GetNetworkConfig" THEN GetNetworkConfigAtHeight.replies
                       ELSE GetNetworkVersionAtHeight.replies :
            /\ passed' = passed \cup reply.passed
            /\ (reply.end = "ok" /\ UNCHANGED end) \/ end' = reply.end
    BY <1>7 DEF AskAtHeight, Then, Stop
  <2>2. reply \in Replies  BY <2>1, RequestReplies
  <2> QED  BY <1>1, <2>1, <2>2
<1>8. CASE AskBlock
  <2>1. CASE told = 0
    BY <1>8, <2>1 DEF AskBlock, Stop, ThroughInv, Outcomes
  <2>2. CASE told # 0
    <3>1. PICK reply \in IF told <= chain.height THEN GetBlockByHeight.replies ELSE {Refusal} :
              /\ passed' = passed \cup reply.passed
              /\ (reply.end = "ok" /\ UNCHANGED end) \/ end' = reply.end
      BY <1>8, <2>2 DEF AskBlock, Then, Stop
    <3>2. reply \in Replies  BY <3>1, RequestReplies
    <3> QED  BY <1>1, <3>1, <3>2
  <2> QED  BY <2>1, <2>2
<1> QED  BY <1>2, <1>3, <1>4, <1>5, <1>6, <1>7, <1>8

(* A call begins.                                                          *)
LEMMA CallsKeeps ==
    ASSUME MapInv, Calls
    PROVE  MapInv'
<1>1. ASSUME UNCHANGED mapping, call = NoCall, CallerInv', ThroughInv' PROVE MapInv'
  <2>1. UNCHANGED <<items, work, errs>> /\ items = <<>>
    BY <1>1 DEF mapping, MapInv, CallerInv
  <2>2. MappingType'  BY <2>1, SameItems DEF MapInv, MappingType
  <2>3. InnerDone' /\ OuterDone' /\ MappingOver'
    <3>1. DOMAIN items' = {}  BY <2>1
    <3> QED  BY <2>1, <3>1 DEF InnerDone, OuterDone, MappingOver
  <2> QED  BY <1>1, <2>2, <2>3 DEF MapInv
<1>2. ASSUME NEW op \in DOMAIN Methods, Call(op) PROVE MapInv'
  <2>1. CallerInv'  BY <1>2 DEF Call, Stop, CallerInv, MapInv, mapping
  <2>2. ThroughInv'
    <3>1. CASE \E reply \in Methods[op].replies : Stop(reply.end) /\ passed' = reply.passed
      <4>1. PICK reply \in Methods[op].replies : Stop(reply.end) /\ passed' = reply.passed
        BY <3>1
      <4>2. reply \in Replies  BY <4>1, MethodReplies
      <4> QED  BY <4>1, <4>2 DEF Stop, ThroughInv, Replies
    <3>2. CASE (Stop("error") \/ Stop("panic")) /\ UNCHANGED passed
      BY <3>2 DEF Stop, MapInv, ThroughInv, Outcomes
    <3> QED  BY <1>2, <3>1, <3>2 DEF Call
  <2> QED  BY <1>1, <1>2, <2>1, <2>2 DEF Call
<1>3. ASSUME NEW op, NEW ids, NEW tasks, Begin(op, ids, tasks), op # "none" PROVE MapInv'
  <2>1. call'.op = op  BY <1>3 DEF Begin
  <2>2. CallerInv'  BY <1>3, <2>1 DEF CallerInv, NoCall
  <2>3. ThroughInv'  BY <1>3 DEF Begin, MapInv, ThroughInv
  <2> QED  BY <1>1, <1>3, <2>2, <2>3 DEF Begin
<1>4. CASE \E op \in DOMAIN Methods : Call(op)  BY <1>2, <1>4
<1>5. CASE \E op \in Guarded : Begin(op, <<>>, <<Do("refuse")>>)
  BY <1>3, <1>5 DEF Guarded, NamespaceCalls
<1>6. ASSUME NEW n \in Namespaces,
             \/ Begin("GetNamespaceInfo", <<n>>, <<Task("namespace", n, 0), Do("collect")>>)
             \/ Begin("GetLinkedMosaicId", <<n>>, GetLinkedMosaicId(n))
             \/ Begin("GetLinkedAddress", <<n>>, GetLinkedAddress(n))
      PROVE  MapInv'
  BY <1>3, <1>6
<1>7. ASSUME NEW id, Begin("GetMosaicInfoByAssetId", <<id>>, ByAssetId(id)) PROVE MapInv'
  BY <1>3, <1>7
<1>8. ASSUME NEW ids, Begin("GetMosaicInfosByAssetIds", ids, GetMosaicInfosByAssetIds(ids))
      PROVE  MapInv'
  BY <1>3, <1>8
<1>9. CASE \/ Begin("GetNamespaceInfosFromAccount", <<>>, <<Do("namespaces")>>)
           \/ Begin("GetNetworkConfig", <<>>, GetNetworkConfig)
           \/ Begin("GetNetworkVersion", <<>>, GetNetworkVersion)
           \/ Begin("findTransactions", <<>>, findTransactions)
           \/ Begin("AggregateBondedTransactions", <<>>, AggregateBondedTransactions)
           \/ Begin("GetBlockTransactions", <<>>, GetBlockTransactions)
           \/ Begin("GetTransactions", <<>>, GetTransactions)
           \/ Begin("GetTransaction", <<>>, GetTransaction)
           \/ Begin("GetTransactionEffectiveFee", <<>>, GetTransactionEffectiveFee)
  BY <1>3, <1>9
<1> QED  BY <1>4, <1>5, <1>6, <1>7, <1>8, <1>9 DEF Calls

(* What a node can send is a list of transactions.                         *)
LEMMA ListTypes == TransactionLists \subseteq Seq(Item)
<1>1. Refusal \in Replies  BY RequestReplies
<1>2. MapTransaction \subseteq Replies
  BY <1>1, TransactionSteps, AnswerReply DEF MapTransaction
<1>3. AggregateReplies \subseteq Replies
  BY <1>1, TransactionSteps, AnswerReply DEF AggregateReplies
<1>4. ASSUME NEW S, NEW n \in Nat PROVE Lists(S, n) \subseteq Seq(S)
  BY DEF Lists
<1>5. Single \subseteq InnerItem
  <2>1. \A own \in MapTransaction :
            [aggregate |-> FALSE, own |-> own, inner |-> <<>>] \in InnerItem
    BY <1>2 DEF InnerItem
  <2> QED  BY <2>1 DEF Single
<1>6. Single \subseteq Item
  <2>1. <<>> \in Seq(InnerItem)  OBVIOUS
  <2>2. \A own \in MapTransaction :
            [aggregate |-> FALSE, own |-> own, inner |-> <<>>] \in Item
    BY <1>2, <2>1 DEF Item
  <2> QED  BY <2>2 DEF Single
<1>7. Aggregates \subseteq Item
  <2>1. Lists(Single, MaxInner) \subseteq Seq(InnerItem)
    <3>1. Lists(Single, MaxInner) \subseteq Seq(Single)  BY <1>4, BoundsAssumption
    <3>2. Seq(Single) \subseteq Seq(InnerItem)  BY <1>5
    <3> QED  BY <3>1, <3>2
  <2>2. ASSUME NEW t \in Aggregates PROVE t \in Item
    <3>1. PICK own \in AggregateReplies, inner \in Lists(Single, MaxInner) :
              t = [aggregate |-> TRUE, own |-> own, inner |-> inner]
      BY DEF Aggregates
    <3> QED  BY <1>3, <2>1, <3>1 DEF Item
  <2> QED  BY <2>2
<1>8. Lists(Single, MaxList) \subseteq Seq(Item)
  <2>1. Lists(Single, MaxList) \subseteq Seq(Single)  BY <1>4, BoundsAssumption
  <2>2. Seq(Single) \subseteq Seq(Item)  BY <1>6
  <2> QED  BY <2>1, <2>2
<1>9. ASSUME NEW k \in 1..MaxList, NEW i \in 1..k, NEW list \in [1..k -> Single],
             NEW t \in Aggregates
      PROVE  [list EXCEPT ![i] = t] \in Seq(Item)
  <2>1. k \in Nat  BY BoundsAssumption
  <2>2. t \in Item /\ \A n \in 1..k : list[n] \in Item  BY <1>6, <1>7, <1>9
  <2>3. [list EXCEPT ![i] = t] \in [1..k -> Item]  BY <1>9, <2>2
  <2> DEFINE changed == [list EXCEPT ![i] = t]
  <2> HIDE DEF changed
  <2>4. changed \in [1..k -> Item]  BY <2>3 DEF changed
  <2>5. changed \in Seq(Item)  BY <2>1, <2>4
  <2> QED  BY <2>5 DEF changed
<1> QED  BY <1>8, <1>9 DEF TransactionLists

(* A list arrives, of which nothing is mapped.                             *)
LEMMA AskTransactionsKeeps ==
    ASSUME MapInv, IsList(todo), NEW one \in BOOLEAN, AskTransactions(one)
    PROVE  MapInv'
<1>1. \E name : name # "map" /\ Now(name)  BY DEF AskTransactions
<1>2. UNCHANGED <<call, passed>>  BY DEF AskTransactions
<1>3. CASE Stop("error") /\ UNCHANGED mapping
  <2>1. ThroughInv'  BY <1>2, <1>3 DEF MapInv, ThroughInv, Stop, Outcomes
  <2> QED  BY <1>1, <1>2, <1>3, <2>1, OtherKeeps
<1> DEFINE only == <<1>>
<1>4. ASSUME NEW list \in TransactionLists, items' = list, Then(<<Do("map")>>),
             work' = [p \in Places' |-> IF one /\ p = only THEN "running" ELSE "unborn"],
             errs' = [p \in Places' |-> <<>>]
      PROVE  MapInv'
  <2>1. MappingType'  BY <1>4, ListTypes DEF MappingType
  <2>2. \A p \in Places' : work'[p] # "done"  BY <1>4
  <2>3. InnerDone' /\ OuterDone'
    <3>1. \A i \in DOMAIN items' : <<i>> \in Places'  BY DEF Places, Outer
    <3>2. \A i \in DOMAIN items' : \A j \in DOMAIN items'[i].inner : <<i, j>> \in Places'
      BY DEF Places, Inner
    <3> QED  BY <2>2, <3>1, <3>2 DEF InnerDone, OuterDone
  <2>4. end' = "ok" /\ ThroughInv'
    BY <1>1, <1>2, <1>4 DEF Then, Now, MapInv, ThroughInv
  <2>5. Now("map")'
    <3> DEFINE S == {todo[n] : n \in DOMAIN todo}
               t == Do("map")
    <3>1. todo \in Seq(S) /\ todo # <<>>  BY <1>1 DEF IsList, Now
    <3>2. t.do = "map"  BY DEF Do, Task
    <3>3. todo' = <<t>> \o Tail(todo)  BY <1>4 DEF Then
    <3> HIDE DEF S, t
    <3>4. Tail(todo) \in Seq(S \cup {t}) /\ <<t>> \in Seq(S \cup {t})  BY <3>1
    <3>5. Head(todo') = t /\ todo' # <<>>  BY <3>3, <3>4
    <3> QED  BY <2>4, <3>2, <3>5 DEF Now
  <2>6. MappingOver' /\ CallerInv'
    BY <1>1, <1>2, <2>5 DEF MappingOver, MapInv, CallerInv, Now
  <2> QED  BY <2>1, <2>3, <2>4, <2>6 DEF MapInv
<1>5. ASSUME NEW list \in TransactionLists, items' = list
      PROVE  Places' = UNION {{<<i>>} \cup {<<i, j>> : j \in DOMAIN list[i].inner} :
                                  i \in DOMAIN list}
  BY <1>5 DEF Places, Outer, Inner
<1> QED  BY <1>3, <1>4, <1>5 DEF AskTransactions

(* The chain moves on.                                                     *)
LEMMA ChainKeeps ==
    ASSUME MapInv, UNCHANGED <<call, todo, end, passed, mapping>>
    PROVE  MapInv'
<1>1. UNCHANGED <<items, work, errs>>  BY DEF mapping
<1>2. MappingType'  BY <1>1, SameItems DEF MapInv, MappingType
<1>3. InnerDone'  BY <1>1 DEF MapInv, InnerDone
<1>4. OuterDone'
  <2>1. \A i : AllDone(Inner(i))' <=> AllDone(Inner(i))  BY <1>1, SameItems DEF AllDone
  <2> QED  BY <1>1, <2>1, SameItems DEF MapInv, OuterDone
<1>5. (AllDone(Outer)' <=> AllDone(Outer)) /\ FirstOf(Outer)' = FirstOf(Outer)
  BY <1>1, SameItems DEF AllDone, FirstOf
<1>6. Now("map")' <=> Now("map")  BY DEF Now
<1>7. MappingOver'  BY <1>1, <1>5, <1>6 DEF MapInv, MappingOver
<1>8. CallerInv' /\ ThroughInv'  BY <1>1 DEF MapInv, CallerInv, ThroughInv
<1> QED  BY <1>2, <1>3, <1>4, <1>7, <1>8 DEF MapInv

(* Nothing is mapped at the beginning.                                     *)
LEMMA InitMap == Init => MapInv /\ IsList(todo)
<1> SUFFICES ASSUME Init PROVE MapInv /\ IsList(todo)  OBVIOUS
<1>1. /\ items = <<>> /\ work = <<>> /\ errs = <<>> /\ todo = <<>> /\ passed = {}
      /\ end = "ok"
  BY DEF Init
<1>2. DOMAIN items = {}  BY <1>1
<1>3. Places = {}  BY <1>2 DEF Places, Outer
<1>4. MappingType  BY <1>1, <1>3 DEF MappingType
<1>5. InnerDone /\ OuterDone  BY <1>2 DEF InnerDone, OuterDone
<1>6. MappingOver /\ CallerInv /\ ThroughInv
  BY <1>1 DEF MappingOver, CallerInv, ThroughInv, Outcomes
<1> QED  BY <1>1, <1>4, <1>5, <1>6, WrittenLists DEF MapInv

(* Every step keeps what holds of a mapping.                               *)
LEMMA StepMap == MapInv /\ IsList(todo) /\ [Next]_vars => MapInv'
<1> SUFFICES ASSUME MapInv, IsList(todo), [Next]_vars PROVE MapInv'  OBVIOUS
<1>1. CASE Calls  BY <1>1, CallsKeeps
<1>2. CASE \/ GetNamespaceInfo \/ GetNamespaceInfosFromAccount \/ MosaicInfosOf
           \/ MosaicInfoOf \/ AskHeight \/ AskAtHeight \/ AskBlock
  <2>1. ThroughInv'  BY <1>2, ThroughSteps DEF MapInv
  <2>2. /\ UNCHANGED <<call, mapping>>
        /\ \E name : name # "map" /\ Now(name)
    BY <1>2 DEF GetNamespaceInfo, GetNamespaceInfosFromAccount, MosaicInfosOf, MosaicInfoOf,
       AskHeight, AskAtHeight, AskBlock
  <2> QED  BY <2>1, <2>2, OtherKeeps
<1>3. CASE \/ buildNamespaceHierarchy \/ SetParent \/ Collect \/ GetLinked
           \/ buildNamespacesHierarchy \/ RefuseIds \/ MakeNils \/ NamespaceIds \/ Resolve
           \/ AssertAggregates
  <2>1. UNCHANGED <<call, passed, mapping>> /\ end' \in {end, "error", "panic"}
    BY <1>3, ZenonT(60)
    DEF buildNamespaceHierarchy, SetParent, Collect, GetLinked, buildNamespacesHierarchy,
        RefuseIds, MakeNils, NamespaceIds, Resolve, AssertAggregates, Then, Stop
  <2>2. \E name : name # "map" /\ Now(name)
    BY <1>3 DEF buildNamespaceHierarchy, SetParent, Collect, GetLinked,
       buildNamespacesHierarchy, RefuseIds, MakeNils, NamespaceIds, Resolve, AssertAggregates
  <2>3. ThroughInv'  BY <2>1 DEF MapInv, ThroughInv, Outcomes
  <2>4. UNCHANGED <<call, mapping>>  BY <2>1
  <2> QED  BY <2>2, <2>3, <2>4, OtherKeeps, SMTT(30)
<1>4. CASE (\E one \in BOOLEAN : AskTransactions(one)) \/ MapTransactions
  BY <1>4, AskTransactionsKeeps, MapTransactionsKeeps
<1>5. CASE Relink \/ Expire \/ Rollback
  BY <1>5, ChainKeeps DEF Relink, Expire, Rollback, Between
<1>6. CASE UNCHANGED vars  BY <1>6, ChainKeeps DEF vars
<1> QED  BY <1>1, <1>2, <1>3, <1>4, <1>5, <1>6 DEF Next

(* So it always holds.                                                     *)
LEMMA MapInvariant == Spec => [](MapInv /\ IsList(todo))
<1>1. MapInv /\ IsList(todo) /\ [Next]_vars => (MapInv /\ IsList(todo))'
  BY StepMap, StepList
<1> QED  BY InitMap, <1>1, PTL DEF Spec

(* In whatever order the goroutines of a mapping end, and those of the     *)
(* aggregates inside it, the error that MapTransactions returns is the     *)
(* first in the list, and there is none only if all was converted.         *)
THEOREM FirstErrorInListOrder == Spec => []MappingInListOrder
<1>1. MapInv => MappingInListOrder
  <2> SUFFICES ASSUME MapInv, Mapped, end # "panic"
               PROVE  /\ \A i \in DOMAIN items : ~Panics(i)
                      /\ LET failing == {i \in DOMAIN items : ItemError(i) # <<>>}
                         IN  FirstOf(Outer) =
                                 IF failing = {} THEN <<>> ELSE ItemError(Min(failing))
                      /\ FirstOf(Outer) # <<>> => end = "error"
    BY DEF MappingInListOrder
  <2>1. AllDone(Outer) /\ (FirstOf(Outer) # <<>> => end = "error")
    BY DEF Mapped, MapInv, MappingOver
  <2>2. \A i \in DOMAIN items : ~Panics(i)
    BY <2>1, PlaceMembers DEF AllDone, MapInv, OuterDone
  <2> QED  BY <2>1, <2>2, FirstOuterError DEF MapInv
<1> QED  BY MapInvariant, <1>1, PTL

(* No call that succeeds has let a malformed field through, but for the    *)
(* signer of a cosignature that another one follows, a property type of    *)
(* more than one bit and an alias of an unknown type.                      *)
THEOREM MalformedIsRefused == Spec => []MalformedRefused
<1>1. MapInv => MalformedRefused
  BY DEF MapInv, ThroughInv, MalformedRefused, LetThrough
<1> QED  BY MapInvariant, <1>1, PTL

(***************************************************************************)
(* What a call has left to do about namespaces.  The list begins with what *)
(* is being done about the lineage at hand: a namespace is fetched, or the *)
(* k-th of the lineage is asked for its parent, or the lineage is built.   *)
(* Then come the lineages that wait for it, each with a pair of tasks: its *)
(* k-th gets the parent, and the parent's hierarchy is built once more.    *)
(* Last comes what the call does with the lineage.                         *)
(***************************************************************************)
Infos ==
    [ns : Namespaces, alias : Mosaics \cup {NoMosaic}, parent : Namespaces \cup {NoNamespace}]

TaskNames ==
    {"namespace", "hierarchy", "parent", "collect", "alias", "resolve", "refuse", "nils",
     "mosaics", "mosaic", "ids", "namespaces", "hierarchies", "height", "at height",
     "transaction", "transactions", "map", "assert", "block"}

OtherTasks ==
    {"refuse", "height", "at height", "transaction", "transactions", "map", "assert", "block"}

Tasks == [do : TaskNames, id : Namespaces \cup Mosaics \cup {NoNamespace}, k : Nat]

StackType == todo \in Seq(Tasks) /\ lineages \in Seq(Seq(Infos))

(* The first n of a lineage are each the named parent of the one before,   *)
Linked(lineage, n) == \A k \in 1..n - 1 : lineage[k + 1].ns = lineage[k].parent

(* and the last of them all names none.                                    *)
Rooted(lineage) == lineage[Len(lineage)].parent = NoNamespace

Complete(lineage) ==
    Len(lineage) >= 1 /\ Linked(lineage, Len(lineage)) /\ Rooted(lineage)

(* What is done with the lineage, from the b-th task on.                   *)
Base(b) ==
    \/ /\ call.op = "GetNamespaceInfo"
       /\ Len(todo) = b /\ todo[b] = Do("collect")
    \/ /\ call.op \in {"GetLinkedMosaicId", "GetLinkedAddress"}
       /\ Len(todo) = b /\ todo[b] = Do("alias")
    \/ /\ call.op = "GetMosaicInfoByAssetId"
       /\ Len(todo) = b /\ todo[b] = Do("resolve")
    \/ /\ call.op = "GetMosaicInfosByAssetIds"
       /\ Len(todo) = b + 1 /\ todo[b] = Do("resolve")
       /\ todo[b + 1].k # 0 /\ todo[b + 1] = Task("ids", NoNamespace, todo[b + 1].k)
    \/ /\ call.op = "GetNamespaceInfosFromAccount"
       /\ Len(todo) = b + 1 /\ todo[b] = Do("collect") /\ todo[b + 1] = Do("hierarchies")

(* The namespace that the l-th lineage begins with, if l = 0 the one that  *)
(* is being fetched.                                                       *)
First(l) == IF l = 0 THEN todo[1].id ELSE lineages[l][1].ns

(* The one that waits longest begins with n, which was asked for: it is    *)
(* the argument, or the id the loop over the ids has just gone past.       *)
About(n) ==
    /\ call.op = "GetNamespaceInfo" => call.ids[1] = n
    /\ call.op = "GetMosaicInfosByAssetIds" =>
           LET k == todo[Len(todo)].k - 1
           IN  k \in 1..Len(call.ids) /\ call.ids[k] = n

(* The l-th lineage waits, from the t-th task on, for the one before it.   *)
Frame(t, l) ==
    LET k == todo[t].k
    IN  /\ k >= 1 /\ k <= Len(lineages[l])
        /\ todo[t] = Task("parent", NoNamespace, k)
        /\ todo[t + 1] = Task("hierarchy", NoNamespace, k + 1)
        /\ Linked(lineages[l], k) /\ lineages[l][k].parent = First(l - 1)

(* After o tasks about the lineage at hand, which is there if h = 1, and   *)
(* m lineages that wait for it.                                            *)
Stack(o, h, m) ==
    /\ Base(o + 2 * m + 1)
    /\ h + m <= Len(lineages)
    /\ \A f \in 1..m : Frame(o + 2 * f - 1, h + f)
    /\ About(First(h + m))
    /\ call.op = "GetNamespaceInfosFromAccount" =>
           \A r \in h + m + 1..Len(lineages) : Len(lineages[r]) = 1

Fetching(m) ==
    /\ todo[1] = Task("namespace", todo[1].id, 0)
    /\ todo[1].id \in Namespaces
    /\ Stack(1, 0, m)

Climbing(m) ==
    LET k == todo[1].k
    IN  /\ todo[1] = Task("hierarchy", NoNamespace, k)
        /\ Stack(1, 1, m)
        /\ k >= 1 /\ k <= Len(lineages[1])
        /\ Linked(lineages[1], Len(lineages[1]))
        /\ k = Len(lineages[1]) \/ Rooted(lineages[1])

Built(m) ==
    /\ Stack(0, 1, m)
    /\ Complete(lineages[1])

(* No lineage is at hand.                                                  *)
Resting ==
    \/ todo = <<>>
    \/ todo = <<Do("refuse")>>
    \/ /\ call.op = "GetMosaicInfoByAssetId"
       /\ \E id \in Mosaics : todo = <<Task("mosaic", id, 0)>>
    \/ /\ call.op = "GetMosaicInfosByAssetIds"
       /\ \E k \in Nat \ {0} :
              \/ todo = <<Task("ids", NoNamespace, k)>>
              \/ todo = <<Do("nils"), Task("ids", NoNamespace, k)>>
              \/ todo = <<Do("mosaics"), Task("ids", NoNamespace, k)>>
              \/ \E id \in Mosaics :
                     todo = <<Task("mosaic", id, 0), Task("ids", NoNamespace, k)>>
    \/ /\ call.op = "GetNamespaceInfosFromAccount"
       /\ \/ todo = <<Do("namespaces")>>
          \/ /\ todo = <<Do("hierarchies")>>
             /\ \A r \in DOMAIN lineages : Len(lineages[r]) = 1

NamespaceShape ==
    call.op \in NamespaceCalls =>
        Resting \/ \E m \in Nat : Fetching(m) \/ Climbing(m) \/ Built(m)

(* The other calls do nothing about namespaces.                            *)
OtherShape ==
    call.op \notin NamespaceCalls => \A i \in DOMAIN todo : todo[i].do \in OtherTasks

(* What has been returned is whole.                                        *)
FoundInv ==
    call.op \in {"GetNamespaceInfo", "GetNamespaceInfosFromAccount"} =>
        /\ found \in Seq(Seq(Infos))
        /\ \A i \in DOMAIN found :
               /\ Complete(found[i])
               /\ call.op = "GetNamespaceInfo" => found[i][1].ns = call.ids[1]

IdsType ==
    call.op = "GetMosaicInfosByAssetIds" => call.ids \in Seq(Namespaces \cup Mosaics)

StartInv == call = NoCall => todo = <<>> /\ found = <<>>

LineageInv ==
    ChainType /\ StackType /\ NamespaceShape /\ OtherShape /\ FoundInv /\ IdsType /\ StartInv

(***************************************************************************)
(* Lists of tasks.                                                         *)
(***************************************************************************)

(* The parts of a task.                                                    *)
LEMMA TaskParts ==
    /\ \A do, id, k : /\ Task(do, id, k).do = do /\ Task(do, id, k).id = id
                      /\ Task(do, id, k).k = k
    /\ \A do : Do(do).do = do /\ Do(do) = Task(do, NoNamespace, 0)
    /\ \A do \in TaskNames, id \in Namespaces \cup Mosaics \cup {NoNamespace}, k \in Nat :
           Task(do, id, k) \in Tasks
    /\ \A do \in TaskNames : Do(do) \in Tasks
BY DEF Task, Do, Tasks

(* One list after another.                                                 *)
LEMMA After ==
    ASSUME NEW S, NEW p \in Seq(S), NEW q \in Seq(S)
    PROVE  /\ p \o q \in Seq(S) /\ Len(p \o q) = Len(p) + Len(q)
           /\ \A i \in 1..Len(p) : (p \o q)[i] = p[i]
           /\ \A i \in Len(p) + 1..Len(p) + Len(q) : (p \o q)[i] = q[i - Len(p)]
OBVIOUS

(* What is left after a task,                                              *)
LEMMA Pop ==
    ASSUME NEW S, NEW s \in Seq(S), s # <<>>
    PROVE  LET r == <<>> \o Tail(s)
           IN  /\ r \in Seq(S) /\ Len(r) = Len(s) - 1 /\ Len(s) >= 1
               /\ \A i \in 1..Len(r) : r[i] = s[i + 1]
OBVIOUS

(* with one task instead of it,                                            *)
LEMMA Put1 ==
    ASSUME NEW S, NEW s \in Seq(S), s # <<>>, NEW a \in S
    PROVE  LET r == <<a>> \o Tail(s)
           IN  /\ r \in Seq(S) /\ Len(r) = Len(s) /\ Len(s) >= 1
               /\ r[1] = a /\ \A i \in 2..Len(r) : r[i] = s[i]
<1>1. <<a>> \in Seq(S) /\ Len(<<a>>) = 1 /\ <<a>>[1] = a  OBVIOUS
<1>2. Tail(s) \in Seq(S) /\ Len(Tail(s)) = Len(s) - 1 /\ Len(s) >= 1  OBVIOUS
<1>3. \A i \in 1..Len(s) - 1 : Tail(s)[i] = s[i + 1]  OBVIOUS
<1> QED  BY <1>1, <1>2, <1>3

(* and with three.                                                         *)
LEMMA Put3 ==
    ASSUME NEW S, NEW s \in Seq(S), s # <<>>, NEW a \in S, NEW b \in S, NEW c \in S
    PROVE  LET r == <<a, b, c>> \o Tail(s)
           IN  /\ r \in Seq(S) /\ Len(r) = Len(s) + 2 /\ Len(s) >= 1
               /\ r[1] = a /\ r[2] = b /\ r[3] = c
               /\ \A i \in 4..Len(r) : r[i] = s[i - 2]
<1> DEFINE p == <<a, b, c>>
<1>1. p \in Seq(S) /\ Len(p) = 3 /\ p[1] = a /\ p[2] = b /\ p[3] = c  OBVIOUS
<1>2. Tail(s) \in Seq(S) /\ Len(Tail(s)) = Len(s) - 1 /\ Len(s) >= 1  OBVIOUS
<1>3. \A i \in 1..Len(s) - 1 : Tail(s)[i] = s[i + 1]  OBVIOUS
<1> HIDE DEF p
<1> DEFINE q == Tail(s)
<1> HIDE DEF q
<1>4. LET r == p \o q
      IN  /\ r \in Seq(S) /\ Len(r) = Len(s) + 2 /\ r[1] = a /\ r[2] = b /\ r[3] = c
          /\ \A i \in 4..Len(r) : r[i] = q[i - 3]
  <2>1. q \in Seq(S) /\ Len(q) = Len(s) - 1 /\ Len(s) \in Nat  BY <1>2 DEF q
  <2>2. /\ p \o q \in Seq(S) /\ Len(p \o q) = Len(p) + Len(q)
        /\ \A i \in 1..Len(p) : (p \o q)[i] = p[i]
        /\ \A i \in Len(p) + 1..Len(p) + Len(q) : (p \o q)[i] = q[i - Len(p)]
    BY <1>1, <2>1, After
  <2> DEFINE r == p \o q
  <2> HIDE DEF r
  <2>3. /\ r \in Seq(S) /\ Len(r) = 3 + Len(q)
        /\ \A i \in 1..3 : r[i] = p[i]
        /\ \A i \in 4..3 + Len(q) : r[i] = q[i - 3]
    BY <1>1, <2>2 DEF r
  <2>4. 1 \in 1..3 /\ 2 \in 1..3 /\ 3 \in 1..3 /\ 3 + Len(q) = Len(s) + 2  BY <2>1
  <2>5. r[1] = a /\ r[2] = b /\ r[3] = c  BY <1>1, <2>3, <2>4
  <2> QED  BY <2>3, <2>4, <2>5 DEF r
<1>5. \A i \in 4..Len(s) + 2 : Tail(s)[i - 3] = s[i - 2]  BY <1>2, <1>3
<1> QED  BY <1>2, <1>4, <1>5 DEF p, q

(***************************************************************************)
(* The stack.                                                              *)
(***************************************************************************)

(* What is done with a lineage moves with the list.                        *)
LEMMA BaseKept ==
    ASSUME UNCHANGED call, NEW b \in Nat, NEW c \in Nat, Base(b), StackType, StackType',
           Len(todo') - c = Len(todo) - b,
           b <= Len(todo) => todo'[c] = todo[b],
           b + 1 <= Len(todo) => todo'[c + 1] = todo[b + 1]
    PROVE  Base(c)'
<1>1. Len(todo) \in Nat /\ Len(todo') \in Nat  BY DEF StackType
<1>2. Len(todo) = b => Len(todo') = c /\ todo'[c] = todo[b]  BY <1>1
<1>3. Len(todo) = b + 1 =>
          Len(todo') = c + 1 /\ todo'[c] = todo[b] /\ todo'[c + 1] = todo[b + 1]
  BY <1>1
<1>4. call' = call  OBVIOUS
<1> QED  BY <1>2, <1>3, <1>4, Zenon DEF Base

(* So does a lineage that waits.                                           *)
LEMMA FrameKept ==
    ASSUME NEW t, NEW l, NEW u, NEW n, Frame(t, l), First(n - 1)' = First(l - 1),
           todo'[u] = todo[t], todo'[u + 1] = todo[t + 1], lineages'[n] = lineages[l]
    PROVE  Frame(u, n)'
BY DEF Frame, Linked

(* What was asked for stays, and so does the last task.                    *)
LEMMA AboutKept ==
    ASSUME UNCHANGED call, todo'[Len(todo')] = todo[Len(todo)],
           NEW i, NEW j, About(First(i)), First(j)' = First(i)
    PROVE  About(First(j))'
BY DEF About

(* A step down from the f-th of them.                                      *)
LEMMA OneDown ==
    ASSUME NEW m \in Nat, NEW f \in 1..m, NEW g \in {0, 1}
    PROVE  f - 1 \in 0..m /\ g + f - 1 = g + (f - 1)
OBVIOUS

(* All but the o tasks and h lineages on top stay, below p and g others.   *)
Moved(o, h, p, g) ==
    /\ Len(todo') - p = Len(todo) - o
    /\ \A i \in 1..Len(todo) - o : todo'[p + i] = todo[o + i]
    /\ Len(lineages') - g = Len(lineages) - h
    /\ \A i \in 1..Len(lineages) - h : lineages'[g + i] = lineages[h + i]

(* The same lineages wait for another step of the lineage at hand.         *)
LEMMA StackMoves ==
    ASSUME StackType, StackType', UNCHANGED call,
           NEW o \in {0, 1}, NEW h \in {0, 1}, NEW p \in {0, 1}, NEW g \in {0, 1}, NEW m \in Nat,
           Stack(o, h, m), First(g)' = First(h), Moved(o, h, p, g)
    PROVE  Stack(p, g, m)'
<1> DEFINE n == Len(todo)
           N == Len(todo')
           l == Len(lineages)
           L == Len(lineages')
<1>1. n \in Nat /\ N \in Nat /\ l \in Nat /\ L \in Nat  BY DEF StackType
<1>2. N - p = n - o /\ L - g = l - h  BY DEF Moved
<1>3. \A i \in 1..n - o : todo'[p + i] = todo[o + i]  BY DEF Moved
<1>4. \A i \in 1..l - h : lineages'[g + i] = lineages[h + i]  BY DEF Moved
<1>5. o + 2 * m + 1 <= n /\ h + m <= l /\ Base(o + 2 * m + 1) /\ About(First(h + m))
  <2>1. Base(o + 2 * m + 1) /\ h + m <= l /\ About(First(h + m))  BY DEF Stack
  <2>2. o + 2 * m + 1 <= n  BY <2>1 DEF Base
  <2> QED  BY <2>1, <2>2
<1>6. \A f \in 1..m : Frame(o + 2 * f - 1, h + f)  BY DEF Stack
<1>7. call.op = "GetNamespaceInfosFromAccount" => \A r \in h + m + 1..l : Len(lineages[r]) = 1
  BY DEF Stack
<1> HIDE DEF n, N, l, L
<1>8. g + m <= L  BY <1>1, <1>2, <1>5
<1>9. Base(p + 2 * m + 1)'
  <2> DEFINE i == 2 * m + 1
             b == o + i
             c == p + i
  <2>1. Base(b) /\ b \in Nat /\ c \in Nat /\ b = o + 2 * m + 1 /\ c = p + 2 * m + 1  BY <1>5
  <2>2. N - c = n - b  BY <1>1, <1>2
  <2>3. i \in 1..n - o /\ (b + 1 <= n => i + 1 \in 1..n - o)  BY <1>1, <1>5
  <2>4. b = o + i /\ c = p + i /\ b + 1 = o + (i + 1) /\ c + 1 = p + (i + 1)
    BY <1>1, <1>5
  <2> HIDE DEF i, b, c
  <2>5. todo'[c] = todo[b]  BY <1>3, <2>3, <2>4
  <2>6. b + 1 <= n => todo'[c + 1] = todo[b + 1]  BY <1>3, <2>3, <2>4
  <2>7. Base(c)'  BY <2>1, <2>2, <2>5, <2>6, BaseKept DEF n, N
  <2> QED  BY <2>1, <2>7
<1>10. \A f \in 0..m : First(g + f)' = First(h + f)
  <2>1. ASSUME NEW f \in 1..m PROVE First(g + f)' = First(h + f)
    <3>1. f \in 1..l - h /\ g + f # 0 /\ h + f # 0  BY <1>1, <1>5
    <3>2. lineages'[g + f] = lineages[h + f]  BY <1>4, <3>1
    <3> QED  BY <3>1, <3>2 DEF First
  <2>2. g + 0 = g /\ h + 0 = h  OBVIOUS
  <2>3. \A f \in 0..m : f = 0 \/ f \in 1..m  OBVIOUS
  <2> QED  BY <2>1, <2>2, <2>3
<1>11. ASSUME NEW f \in 1..m PROVE Frame(p + 2 * f - 1, g + f)'
  <2> DEFINE t == o + 2 * f - 1
             u == p + 2 * f - 1
             i == 2 * f - 1
  <2>1. Frame(t, h + f)  BY <1>6
  <2>2. i \in 1..n - o /\ i + 1 \in 1..n - o  BY <1>1, <1>5
  <2>3. t = o + i /\ u = p + i /\ t + 1 = o + (i + 1) /\ u + 1 = p + (i + 1)
    BY <1>1, <1>5
  <2>4. lineages'[g + f] = lineages[h + f]
    <3>1. f \in 1..l - h  BY <1>1, <1>5
    <3> QED  BY <1>4, <3>1
  <2>5. f - 1 \in 0..m /\ g + f - 1 = g + (f - 1) /\ h + f - 1 = h + (f - 1)  BY OneDown
  <2>6. First(g + f - 1)' = First(h + f - 1)  BY <1>10, <2>5
  <2> HIDE DEF t, u, i
  <2>7. todo'[u] = todo[t] /\ todo'[u + 1] = todo[t + 1]  BY <1>3, <2>2, <2>3
  <2>8. Frame(u, g + f)'  BY <2>1, <2>4, <2>6, <2>7, FrameKept
  <2> QED  BY <2>8 DEF u
<1>12. About(First(g + m))'
  <2>1. First(g + m)' = First(h + m)
    <3>1. m \in 0..m  OBVIOUS
    <3> QED  BY <1>10, <3>1
  <2>2. todo'[N] = todo[n]
    <3>1. PICK i \in 1..n - o : p + i = N /\ o + i = n
      <4>1. n - o \in 1..n - o /\ p + (n - o) = N /\ o + (n - o) = n  BY <1>1, <1>2, <1>5
      <4> QED  BY <4>1
    <3> QED  BY <1>3, <3>1
  <2> QED  BY <1>5, <2>1, <2>2, AboutKept DEF n, N
<1>13. ASSUME call.op = "GetNamespaceInfosFromAccount", NEW r \in g + m + 1..L
       PROVE  Len(lineages'[r]) = 1
  <2>1. PICK i \in 1..l - h : g + i = r /\ h + i \in h + m + 1..l
    <3>1. /\ r - g \in 1..l - h /\ g + (r - g) = r /\ h + (r - g) \in h + m + 1..l
      BY <1>1, <1>2, <1>5
    <3> QED  BY <3>1
  <2> QED  BY <1>4, <1>7, <1>13, <2>1
<1> QED  BY <1>8, <1>9, <1>11, <1>12, <1>13 DEF Stack, L

(***************************************************************************)
(* Where a call stands, from the name of its next task.                    *)
(***************************************************************************)

(* Each shape has its heads.                                               *)
LEMMA Heads ==
    ASSUME StackType, NEW m \in Nat
    PROVE  /\ Fetching(m) => todo # <<>> /\ Head(todo) = todo[1] /\ Head(todo).do = "namespace"
           /\ Climbing(m) => todo # <<>> /\ Head(todo) = todo[1] /\ Head(todo).do = "hierarchy"
           /\ Built(m) /\ m # 0 =>
                  todo # <<>> /\ Head(todo) = todo[1] /\ Head(todo).do = "parent"
           /\ Built(m) /\ m = 0 =>
                  todo # <<>> /\ Head(todo) = todo[1] /\ Base(1)
                      /\ Head(todo).do \in {"collect", "alias", "resolve"}
<1>1. ASSUME NEW o \in {0, 1}, NEW h, Stack(o, h, m)
      PROVE  todo # <<>> /\ Head(todo) = todo[1]
  <2>1. Len(todo) \in Nat /\ Len(todo) >= o + 2 * m + 1  BY <1>1 DEF StackType, Stack, Base
  <2>2. Len(todo) >= 1  BY <2>1
  <2> QED  BY <2>2 DEF StackType
<1>2. Fetching(m) => todo # <<>> /\ Head(todo) = todo[1] /\ Head(todo).do = "namespace"
  BY <1>1, TaskParts DEF Fetching
<1>3. Climbing(m) => todo # <<>> /\ Head(todo) = todo[1] /\ Head(todo).do = "hierarchy"
  BY <1>1, TaskParts DEF Climbing
<1>4. ASSUME Built(m), m # 0
      PROVE  todo # <<>> /\ Head(todo) = todo[1] /\ Head(todo).do = "parent"
  <2>1. Stack(0, 1, m) /\ 1 \in 1..m  BY <1>4 DEF Built
  <2>2. Frame(0 + 2 * 1 - 1, 1 + 1)  BY <2>1 DEF Stack
  <2>3. Frame(1, 2)  BY <2>2
  <2> QED  BY <1>1, <2>1, <2>3, TaskParts DEF Frame
<1>5. ASSUME Built(m), m = 0
      PROVE  todo # <<>> /\ Head(todo) = todo[1] /\ Base(1)
                 /\ Head(todo).do \in {"collect", "alias", "resolve"}
  <2>1. Stack(0, 1, m) /\ 0 + 2 * m + 1 = 1  BY <1>5 DEF Built
  <2>2. Base(1)  BY <2>1 DEF Stack
  <2> QED  BY <1>1, <2>1, <2>2, TaskParts DEF Base
<1> QED  BY <1>2, <1>3, <1>4, <1>5

(* Resting has the others.                                                *)
LEMMA RestingHeads ==
    ASSUME Resting
    PROVE  \/ todo = <<>>
           \/ Head(todo).do \in {"refuse", "mosaic", "ids", "nils", "mosaics", "namespaces",
                                 "hierarchies"}
<1>1. \A a, b : Head(<<a>>) = a /\ Head(<<a, b>>) = a  OBVIOUS
<1> QED  BY <1>1, TaskParts DEF Resting

(* So the next task tells the shape.                                       *)
LEMMA Where ==
    ASSUME LineageInv, NEW name, Now(name)
    PROVE  /\ name = "namespace" => \E m \in Nat : Fetching(m)
           /\ name = "hierarchy" => \E m \in Nat : Climbing(m)
           /\ name = "parent" => \E m \in Nat : m # 0 /\ Built(m)
           /\ name \in {"collect", "alias", "resolve"} => Built(0)
           /\ name \in {"mosaic", "ids", "nils", "mosaics", "namespaces", "hierarchies"} =>
                  Resting /\ todo # <<>>
           /\ name \in OtherTasks \ {"refuse"} => call.op \notin NamespaceCalls
           /\ name \notin OtherTasks => call.op \in NamespaceCalls
<1>1. todo # <<>> /\ Head(todo).do = name /\ StackType  BY DEF Now, LineageInv
<1>2. call.op \notin NamespaceCalls => name \in OtherTasks
  <2>1. todo \in Seq(Tasks)  BY <1>1 DEF StackType
  <2>2. 1 \in DOMAIN todo /\ Head(todo) = todo[1]  BY <1>1, <2>1
  <2> QED  BY <1>1, <2>2 DEF LineageInv, OtherShape
<1>3. CASE call.op \notin NamespaceCalls  BY <1>2, <1>3 DEF OtherTasks
<1>4. CASE call.op \in NamespaceCalls
  <2>1. CASE Resting  BY <1>1, <1>4, <2>1, RestingHeads DEF OtherTasks
  <2>2. CASE \E m \in Nat : Fetching(m) \/ Climbing(m) \/ Built(m)
    <3>1. PICK m \in Nat : Fetching(m) \/ Climbing(m) \/ Built(m)  BY <2>2
    <3>2. CASE Fetching(m)  BY <1>1, <1>4, <3>2, Heads DEF OtherTasks
    <3>3. CASE Climbing(m)  BY <1>1, <1>4, <3>3, Heads DEF OtherTasks
    <3>4. CASE Built(m) /\ m # 0  BY <1>1, <1>4, <3>4, Heads DEF OtherTasks
    <3>5. CASE Built(m) /\ m = 0  BY <1>1, <1>4, <3>5, Heads DEF OtherTasks
    <3> QED  BY <3>1, <3>2, <3>3, <3>4, <3>5
  <2> QED  BY <1>4, <2>1, <2>2 DEF LineageInv, NamespaceShape
<1> QED  BY <1>3, <1>4

(***************************************************************************)
(* Steps about namespaces.                                                 *)
(***************************************************************************)

(* What such a step has to keep.                                           *)
LEMMA NamespaceStep ==
    ASSUME LineageInv, ChainType', UNCHANGED call, call.op \in NamespaceCalls,
           StackType', FoundInv',
           Resting' \/ \E m \in Nat : Fetching(m)' \/ Climbing(m)' \/ Built(m)'
    PROVE  LineageInv'
<1>1. call # NoCall  BY DEF NoCall, NamespaceCalls
<1>2. NamespaceShape'  BY DEF NamespaceShape
<1>3. OtherShape' /\ IdsType' /\ StartInv'
  BY <1>1 DEF OtherShape, LineageInv, IdsType, StartInv
<1> QED  BY <1>2, <1>3 DEF LineageInv

(* A call that stops has nothing left to do.                               *)
LEMMA StopStep ==
    ASSUME LineageInv, ChainType', UNCHANGED <<call, found>>, lineages' \in Seq(Seq(Infos)),
           NEW how, Stop(how)
    PROVE  LineageInv'
<1>1. todo' = <<>> /\ todo' \in Seq(Tasks) /\ DOMAIN todo' = {}  BY DEF Stop
<1>2. Resting' /\ StackType'  BY <1>1 DEF Resting, StackType
<1>3. FoundInv' /\ IdsType' /\ StartInv'
  BY <1>1 DEF LineageInv, FoundInv, IdsType, StartInv
<1> QED  BY <1>1, <1>2, <1>3 DEF LineageInv, NamespaceShape, OtherShape

(* What was found is left alone.                                           *)
LEMMA SameFound == ASSUME LineageInv, UNCHANGED <<call, found>> PROVE FoundInv'
BY DEF LineageInv, FoundInv

(* What an answer says of a namespace.                                     *)
LEMMA AnswersTyped ==
    ASSUME ChainType, NEW n \in Namespaces
    PROVE  \A info \in InfosOf(n) : info \in Infos /\ info.ns = n
BY ParentAssumption DEF InfosOf, Infos, ChainType

(* The lists when a namespace was fetched.                                 *)
LEMMA Fetched ==
    ASSUME LineageInv, NEW m \in Nat, Fetching(m),
           Then(<<Task("hierarchy", NoNamespace, 1)>>),
           NEW answer \in InfosOf(todo[1].id), lineages' = <<<<answer>>>> \o lineages
    PROVE  /\ StackType' /\ Len(todo') = Len(todo)
           /\ todo'[1] = Task("hierarchy", NoNamespace, 1) /\ todo'[1].k = 1
           /\ \A i \in 1..Len(todo) - 1 : todo'[1 + i] = todo[1 + i]
           /\ Len(lineages') = 1 + Len(lineages)
           /\ \A i \in 1..Len(lineages) : lineages'[1 + i] = lineages[0 + i]
           /\ Len(lineages'[1]) = 1 /\ lineages'[1][1].ns = todo[1].id
<1> DEFINE n == todo[1].id
           info == <<answer>>
           t == Task("hierarchy", NoNamespace, 1)
<1>1. todo # <<>> /\ todo \in Seq(Tasks) /\ lineages \in Seq(Seq(Infos))
  BY Heads DEF LineageInv, StackType
<1>2. n \in Namespaces  BY DEF Fetching
<1>3. info \in Seq(Infos) /\ Len(info) = 1 /\ info[1].ns = n
  BY <1>2, AnswersTyped DEF LineageInv
<1>4. lineages' = <<info>> \o lineages  OBVIOUS
<1> HIDE DEF info, n
<1>5. <<info>> \in Seq(Seq(Infos)) /\ Len(<<info>>) = 1 /\ <<info>>[1] = info  BY <1>3
<1>6. /\ lineages' \in Seq(Seq(Infos)) /\ Len(lineages') = 1 + Len(lineages)
      /\ lineages'[1] = info
      /\ \A i \in 2..1 + Len(lineages) : lineages'[i] = lineages[i - 1]
  <2> DEFINE p == <<info>>
  <2>1. p \in Seq(Seq(Infos)) /\ Len(p) = 1 /\ p[1] = info  BY <1>5
  <2> HIDE DEF p
  <2>2. /\ p \o lineages \in Seq(Seq(Infos)) /\ Len(p \o lineages) = Len(p) + Len(lineages)
        /\ \A i \in 1..Len(p) : (p \o lineages)[i] = p[i]
        /\ \A i \in Len(p) + 1..Len(p) + Len(lineages) : (p \o lineages)[i] = lineages[i - Len(p)]
    BY <1>1, <2>1, After
  <2> DEFINE r == p \o lineages
  <2>3. lineages' = r  BY <1>4 DEF p
  <2> HIDE DEF r
  <2>4. /\ r \in Seq(Seq(Infos)) /\ Len(r) = 1 + Len(lineages) /\ r[1] = p[1]
        /\ \A i \in 2..1 + Len(lineages) : r[i] = lineages[i - 1]
    BY <2>1, <2>2 DEF r
  <2> QED  BY <2>1, <2>3, <2>4, Zenon
<1>7. \A i \in 1..Len(lineages) : lineages'[1 + i] = lineages[0 + i]
  <2> TAKE i \in 1..Len(lineages)
  <2> DEFINE b == 1 + i
  <2>1. b \in 2..1 + Len(lineages) /\ b - 1 = 0 + i  BY <1>1
  <2> HIDE DEF b
  <2>2. lineages'[b] = lineages[0 + i]  BY <1>6, <2>1
  <2> QED  BY <2>2 DEF b
<1>8. t \in Tasks /\ t.k = 1
  <2>1. t \in Tasks  BY TaskParts DEF TaskNames
  <2>2. t.k = 1  BY TaskParts
  <2> QED  BY <2>1, <2>2
<1>9. todo' = <<t>> \o Tail(todo)  BY DEF Then
<1> HIDE DEF t
<1>10. /\ todo' \in Seq(Tasks) /\ Len(todo') = Len(todo) /\ todo'[1] = t
       /\ \A i \in 2..Len(todo') : todo'[i] = todo[i]
  BY <1>1, <1>8, <1>9, Put1
<1>11. \A i \in 1..Len(todo) - 1 : todo'[1 + i] = todo[1 + i]  BY <1>1, <1>10
<1>12. StackType'  BY <1>6, <1>10 DEF StackType
<1> QED  BY <1>3, <1>6, <1>7, <1>8, <1>10, <1>11, <1>12 DEF n, t

(* A namespace is fetched: it begins the lineage at hand.                  *)
LEMMA GetNamespaceInfoLineage ==
    ASSUME LineageInv, ChainType', GetNamespaceInfo
    PROVE  LineageInv'
<1>1. Now("namespace") /\ UNCHANGED <<call, found>> /\ call.op \in NamespaceCalls /\ StackType
  <2>1. Now("namespace") /\ UNCHANGED <<call, found>>  BY DEF GetNamespaceInfo
  <2>2. "namespace" \notin OtherTasks  BY DEF OtherTasks
  <2> QED  BY <2>1, <2>2, Where DEF LineageInv
<1>2. PICK m \in Nat : Fetching(m)  BY <1>1, Where
<1>3. Head(todo) = todo[1] /\ todo # <<>> /\ todo \in Seq(Tasks) /\ lineages \in Seq(Seq(Infos))
  BY <1>1, <1>2, Heads DEF StackType
<1> DEFINE n == todo[1].id
<1>4. CASE \E how : Stop(how) /\ UNCHANGED lineages
  BY <1>1, <1>3, <1>4, StopStep
<1>5. ASSUME NEW info \in InfosOf(n), lineages' = <<<<info>>>> \o lineages,
             Then(<<Task("hierarchy", NoNamespace, 1)>>)
      PROVE  LineageInv'
  <2>1. /\ StackType' /\ Len(todo') = Len(todo)
        /\ todo'[1] = Task("hierarchy", NoNamespace, 1) /\ todo'[1].k = 1
        /\ \A i \in 1..Len(todo) - 1 : todo'[1 + i] = todo[1 + i]
        /\ Len(lineages') = 1 + Len(lineages)
        /\ \A i \in 1..Len(lineages) : lineages'[1 + i] = lineages[0 + i]
        /\ Len(lineages'[1]) = 1 /\ lineages'[1][1].ns = n
    BY <1>2, <1>5, Fetched
  <2>2. First(1)' = First(0)  BY <2>1 DEF First
  <2> HIDE DEF n
  <2>3. Stack(1, 1, m)'
    <3>1. Stack(1, 0, m)  BY <1>2 DEF Fetching
    <3>2. Len(todo') - 1 = Len(todo) - 1 /\ Len(lineages') - 1 = Len(lineages) - 0
          /\ 1..Len(lineages) = 1..Len(lineages) - 0
      BY <1>3, <2>1
    <3>3. Moved(1, 0, 1, 1)  BY <2>1, <3>2 DEF Moved
    <3> QED  BY <1>1, <2>1, <2>2, <3>1, <3>3, StackMoves
  <2>4. Climbing(m)'
    <3>1. Linked(lineages'[1], Len(lineages'[1]))  BY <2>1 DEF Linked
    <3>2. /\ todo'[1] = Task("hierarchy", NoNamespace, todo'[1].k)
          /\ todo'[1].k >= 1 /\ todo'[1].k <= Len(lineages'[1]) /\ todo'[1].k = Len(lineages'[1])
      BY <2>1
    <3> QED  BY <2>3, <3>1, <3>2 DEF Climbing
  <2>5. FoundInv'  BY <1>1, SameFound
  <2> QED  BY <1>1, <2>1, <2>4, <2>5, NamespaceStep
<1> QED  BY <1>3, <1>4, <1>5 DEF GetNamespaceInfo

(* The first task of a list.                                               *)
LEMMA FirstTask ==
    ASSUME NEW s \in Seq(Tasks), s # <<>>
    PROVE  s[1] \in Tasks /\ s[1].k \in Nat /\ 1 \in 1..Len(s)
<1>1. 1 \in 1..Len(s) /\ s[1] \in Tasks  OBVIOUS
<1>2. \A t \in Tasks : t.k \in Nat  BY DEF Tasks
<1> QED  BY <1>1, <1>2

(* A part of a lineage.                                                    *)
LEMMA LinkedPart ==
    ASSUME NEW lineage, NEW n \in Nat, Linked(lineage, n), NEW k \in Nat, k <= n
    PROVE  Linked(lineage, k)
<1>1. \A i \in 1..k - 1 : i \in 1..n - 1  OBVIOUS
<1> QED  BY <1>1 DEF Linked

(* The k-th of the lineage at hand is a root: the lineage is built.        *)
LEMMA RootReached ==
    ASSUME StackType, StackType', NEW m \in Nat, Climbing(m), UNCHANGED <<call, lineages>>,
           lineages[1][todo[1].k].parent = NoNamespace,
           Len(todo') = Len(todo) - 1, \A i \in 1..Len(todo') : todo'[i] = todo[i + 1]
    PROVE  Built(m)'
<1>1. todo # <<>> /\ todo \in Seq(Tasks) /\ Stack(1, 1, m)  BY Heads DEF StackType, Climbing
<1>2. Len(todo') = Len(todo) - 1 /\ \A i \in 1..Len(todo') : todo'[i] = todo[i + 1]
  OBVIOUS
<1>3. \A i \in 1..Len(todo) - 1 : todo'[0 + i] = todo[1 + i]
  <2> TAKE i \in 1..Len(todo) - 1
  <2>1. i \in 1..Len(todo') /\ 0 + i = i /\ 1 + i = i + 1  BY <1>2
  <2> QED  BY <1>2, <2>1
<1>4. First(1)' = First(1)  BY DEF First
<1>5. Stack(0, 1, m)'
  <2>1. /\ Len(todo) \in Nat /\ Len(todo') - 0 = Len(todo) - 1
        /\ Len(lineages') - 1 = Len(lineages) - 1
    BY <1>1, <1>2
  <2>2. \A i \in 1..Len(lineages) - 1 : lineages'[1 + i] = lineages[1 + i]  OBVIOUS
  <2>3. Moved(1, 1, 0, 1)  BY <1>3, <2>1, <2>2 DEF Moved
  <2> QED  BY <1>1, <1>4, <2>3, StackMoves
<1>6. Complete(lineages[1])
  <2>1. lineages[1] \in Seq(Infos)
    <3>1. 1 + m <= Len(lineages) /\ Len(lineages) \in Nat  BY <1>1 DEF Stack, StackType
    <3>2. 1 \in 1..Len(lineages)  BY <3>1
    <3> QED  BY <3>2 DEF StackType
  <2>2. Len(lineages[1]) \in Nat  BY <2>1
  <2>3. todo[1].k \in Nat  BY <1>1, FirstTask
  <2>4. Len(lineages[1]) >= 1  BY <2>2, <2>3 DEF Climbing
  <2>5. Linked(lineages[1], Len(lineages[1]))  BY DEF Climbing
  <2>6. Rooted(lineages[1])  BY DEF Climbing, Rooted
  <2> QED  BY <2>4, <2>5, <2>6 DEF Complete
<1> QED  BY <1>5, <1>6 DEF Built

(* The lineage at hand becomes the first of those that wait.               *)
LEMMA LineageWaits ==
    ASSUME StackType, StackType', NEW m \in Nat, Climbing(m), UNCHANGED <<call, lineages>>,
           lineages[1][todo[1].k].parent \in Namespaces,
           Len(todo') = Len(todo) + 2, \A i \in 2..Len(todo) : todo'[i + 2] = todo[i],
           todo'[1] = Task("namespace", todo'[1].id, 0),
           todo'[1].id = lineages[1][todo[1].k].parent,
           todo'[2] = Task("parent", NoNamespace, todo'[2].k), todo'[2].k = todo[1].k,
           todo'[3] = Task("hierarchy", NoNamespace, todo'[2].k + 1)
    PROVE  Fetching(m + 1)'
<1>1. todo # <<>> /\ todo \in Seq(Tasks) /\ Stack(1, 1, m)  BY Heads DEF StackType, Climbing
<1>2. todo[1].k \in Nat  BY <1>1, FirstTask
<1>3. /\ todo[1].k >= 1 /\ todo[1].k <= Len(lineages[1])
      /\ Linked(lineages[1], Len(lineages[1]))
  BY DEF Climbing
<1>4. Len(todo) \in Nat /\ Len(todo) >= 1  BY <1>1
<1>5. Len(lineages) \in Nat /\ 1 + m <= Len(lineages)  BY <1>1 DEF StackType, Stack
<1>6. Base(1 + 2 * m + 1)  BY <1>1 DEF Stack
<1>7. 1 + 2 * m + 1 <= Len(todo)
  <2> DEFINE b == 1 + 2 * m + 1
  <2>1. b \in Nat  OBVIOUS
  <2>2. Base(b)  BY <1>6
  <2> HIDE DEF b
  <2>3. Len(todo) = b \/ Len(todo) = b + 1  BY <2>2 DEF Base
  <2>4. b <= Len(todo)  BY <1>4, <2>1, <2>3
  <2> QED  BY <2>4 DEF b
<1>8. Base(1 + 2 * (m + 1) + 1)'
  <2> DEFINE u == 1 + 2 * m + 1
             v == 1 + 2 * (m + 1) + 1
  <2>1. /\ u \in Nat /\ v \in Nat /\ v = u + 2 /\ v + 1 = (u + 1) + 2 /\ u >= 2
        /\ Len(todo') - v = Len(todo) - u /\ u <= Len(todo)
    BY <1>4, <1>7
  <2>2. Base(u)  BY <1>6
  <2> HIDE DEF u, v
  <2>3. todo'[v] = todo[u]  BY <1>4, <2>1
  <2>4. u + 1 <= Len(todo) => todo'[v + 1] = todo[u + 1]
    <3> DEFINE w == u + 1
    <3>1. w <= Len(todo) => w \in 2..Len(todo)  BY <1>4, <2>1
    <3> HIDE DEF w
    <3>2. w <= Len(todo) => todo'[w + 2] = todo[w]  BY <3>1
    <3> QED  BY <2>1, <3>2 DEF w
  <2>5. Base(v)'  BY <2>1, <2>2, <2>3, <2>4, BaseKept
  <2> QED  BY <2>5 DEF v
<1>9. \A l \in Nat \ {0} : First(l)' = First(l)  BY DEF First
<1>10. ASSUME NEW f \in 1..m + 1 PROVE Frame(1 + 2 * f - 1, 0 + f)'
  <2>1. CASE f = 1
    <3>1. Linked(lineages[1], todo[1].k)
      <4>1. lineages[1] \in Seq(Infos)
        <5>1. 1 \in 1..Len(lineages)  BY <1>5
        <5> QED  BY <5>1 DEF StackType
      <4>2. Len(lineages[1]) \in Nat  BY <4>1
      <4> QED  BY <1>2, <1>3, <4>2, LinkedPart
    <3>2. First(1 - 1)' = todo'[1].id  BY DEF First
    <3>3. Frame(2, 1)'  BY <1>3, <3>1, <3>2 DEF Frame
    <3> QED  BY <2>1, <3>3
  <2>2. CASE f # 1
    <3> DEFINE e == f - 1
               t == 1 + 2 * e - 1
               u == 1 + 2 * f - 1
    <3>1. /\ e \in 1..m /\ 1 + e = f /\ u = t + 2 /\ u + 1 = (t + 1) + 2
          /\ t \in 2..Len(todo) /\ t + 1 \in 2..Len(todo) /\ e \in Nat \ {0}
          /\ f - 1 = e /\ (1 + e) - 1 = e
      BY <1>4, <1>7, <2>2
    <3>2. Frame(t, 1 + e)  BY <1>1, <3>1 DEF Stack
    <3> HIDE DEF e, t, u
    <3>3. Frame(t, f)  BY <3>1, <3>2
    <3>4. todo'[u] = todo[t] /\ todo'[u + 1] = todo[t + 1]  BY <3>1
    <3>5. First(f - 1)' = First(f - 1)  BY <1>9, <3>1
    <3>6. lineages'[f] = lineages[f]  OBVIOUS
    <3>7. Frame(u, f)'  BY <3>3, <3>4, <3>5, <3>6, FrameKept
    <3>8. 0 + f = f  OBVIOUS
    <3> QED  BY <3>7, <3>8 DEF u
  <2> QED  BY <2>1, <2>2
<1>11. 0 + (m + 1) = 1 + m /\ 0 + (m + 1) + 1 = 1 + m + 1 /\ m + 1 \in Nat /\ 1 + m \in Nat \ {0}
  OBVIOUS
<1>12. First(0 + (m + 1))' = First(1 + m)  BY <1>9, <1>11
<1>13. call.op = "GetNamespaceInfosFromAccount" =>
           \A r \in 0 + (m + 1) + 1..Len(lineages) : Len(lineages[r]) = 1
  BY <1>1, <1>11 DEF Stack
<1>14. Stack(1, 0, m + 1)'
  <2>1. 0 + (m + 1) <= Len(lineages)  BY <1>5
  <2>2. About(First(1 + m))  BY <1>1 DEF Stack
  <2>3. todo'[Len(todo')] = todo[Len(todo)]
    <3>1. Len(todo) \in 2..Len(todo)  BY <1>4, <1>7
    <3> QED  BY <3>1
  <2>4. About(First(0 + (m + 1)))'  BY <1>12, <2>2, <2>3, AboutKept
  <2> QED  BY <1>8, <1>10, <1>13, <2>1, <2>4 DEF Stack
<1> QED  BY <1>14 DEF Fetching

(* The tasks that fetch a parent.                                          *)
LEMMA AskingTasks ==
    ASSUME NEW parent \in Namespaces, NEW k \in Nat, NEW s \in Seq(Tasks), s # <<>>
    PROVE  LET a == Task("namespace", parent, 0)
               b == Task("parent", NoNamespace, k)
               c == Task("hierarchy", NoNamespace, k + 1)
               r == <<a, b, c>> \o Tail(s)
           IN  /\ a.id = parent /\ a = Task("namespace", a.id, 0)
               /\ b.k = k /\ b = Task("parent", NoNamespace, b.k)
               /\ c = Task("hierarchy", NoNamespace, b.k + 1)
               /\ Len(r) = Len(s) + 2 /\ r[1] = a /\ r[2] = b /\ r[3] = c
               /\ \A i \in 2..Len(s) : r[i + 2] = s[i]
<1> DEFINE a == Task("namespace", parent, 0)
           b == Task("parent", NoNamespace, k)
           c == Task("hierarchy", NoNamespace, k + 1)
           r == <<a, b, c>> \o Tail(s)
<1>1. {"namespace", "parent", "hierarchy"} \subseteq TaskNames  BY DEF TaskNames
<1>2. a \in Tasks /\ b \in Tasks /\ c \in Tasks  BY <1>1 DEF Task, Tasks
<1>3. a.id = parent /\ b.k = k  BY TaskParts
<1>4. /\ a = Task("namespace", a.id, 0) /\ b = Task("parent", NoNamespace, b.k)
      /\ c = Task("hierarchy", NoNamespace, b.k + 1)
  BY <1>3
<1> HIDE DEF a, b, c
<1>5. /\ Len(r) = Len(s) + 2 /\ r[1] = a /\ r[2] = b /\ r[3] = c
      /\ \A i \in 4..Len(r) : r[i] = s[i - 2]
  BY <1>2, Put3
<1> HIDE DEF r
<1>6. \A i \in 2..Len(s) : r[i + 2] = s[i]
  <2> TAKE i \in 2..Len(s)
  <2> DEFINE j == i + 2
  <2>1. j \in 4..Len(r) /\ j - 2 = i  BY <1>5
  <2> HIDE DEF j
  <2>2. r[j] = s[i]  BY <1>5, <2>1
  <2> QED  BY <2>2 DEF j
<1> QED  BY <1>3, <1>4, <1>5, <1>6 DEF a, b, c, r

(* It has a parent: that one is fetched.                                   *)
LEMMA ParentAsked ==
    ASSUME StackType, StackType', NEW m \in Nat, Climbing(m), UNCHANGED <<call, lineages>>,
           lineages[1][todo[1].k].parent \in Namespaces,
           todo' = <<Task("namespace", lineages[1][todo[1].k].parent, 0),
                     Task("parent", NoNamespace, todo[1].k),
                     Task("hierarchy", NoNamespace, todo[1].k + 1)>> \o Tail(todo)
    PROVE  Fetching(m + 1)'
<1> DEFINE k == todo[1].k
           parent == lineages[1][k].parent
           a == Task("namespace", parent, 0)
           b == Task("parent", NoNamespace, k)
           c == Task("hierarchy", NoNamespace, k + 1)
           r == <<a, b, c>> \o Tail(todo)
<1>1. todo # <<>> /\ todo \in Seq(Tasks)  BY Heads DEF StackType
<1>2. k \in Nat  BY <1>1, FirstTask
<1>3. parent \in Namespaces  OBVIOUS
<1>4. /\ a.id = parent /\ a = Task("namespace", a.id, 0)
      /\ b.k = k /\ b = Task("parent", NoNamespace, b.k)
      /\ c = Task("hierarchy", NoNamespace, b.k + 1)
      /\ Len(r) = Len(todo) + 2 /\ r[1] = a /\ r[2] = b /\ r[3] = c
      /\ \A i \in 2..Len(todo) : r[i + 2] = todo[i]
  <2> HIDE DEF k, parent
  <2> QED  BY <1>1, <1>2, <1>3, AskingTasks
<1>5. todo' = r  OBVIOUS
<1> HIDE DEF a, b, c, r
<1> QED  BY <1>4, <1>5, LineageWaits, ZenonT(60)

(* One or the other.                                                       *)
LEMMA HierarchyLineage ==
    ASSUME LineageInv, ChainType', buildNamespaceHierarchy
    PROVE  LineageInv'
<1>1. Now("hierarchy") /\ UNCHANGED <<call, found, lineages>> /\ StackType
  BY DEF buildNamespaceHierarchy, LineageInv
<1>2. call.op \in NamespaceCalls
  <2>1. "hierarchy" \notin OtherTasks  BY DEF OtherTasks
  <2> QED  BY <1>1, <2>1, Where
<1>3. PICK m \in Nat : Climbing(m)  BY <1>1, Where
<1>4. Head(todo) = todo[1] /\ todo # <<>> /\ todo \in Seq(Tasks) /\ lineages \in Seq(Seq(Infos))
  BY <1>1, <1>3, Heads DEF StackType
<1> DEFINE k == todo[1].k
           parent == lineages[1][k].parent
<1>5. lineages # <<>> /\ Head(lineages) = lineages[1] /\ lineages[1] \in Seq(Infos)
  <2>1. 1 + m <= Len(lineages) /\ Len(lineages) \in Nat  BY <1>3, <1>4 DEF Climbing, Stack
  <2>2. 1 \in 1..Len(lineages) /\ lineages # <<>>  BY <1>4, <2>1
  <2> QED  BY <1>4, <2>2
<1>6. k \in Nat /\ lineages[1][k] \in Infos
  <2>1. k \in Nat  BY <1>4, FirstTask
  <2>2. k >= 1 /\ k <= Len(lineages[1])  BY <1>3 DEF Climbing
  <2>3. k \in 1..Len(lineages[1])  BY <1>5, <2>1, <2>2
  <2> QED  BY <1>5, <2>1, <2>3
<1>7. parent \in Namespaces \cup {NoNamespace}  BY <1>6 DEF Infos
<1>8. Head(todo).k = k /\ Head(lineages)[Head(todo).k].parent = parent  BY <1>4, <1>5
<1>9. FoundInv'  BY <1>1, SameFound
<1>10. CASE parent = NoNamespace
  <2>1. todo' = <<>> \o Tail(todo)  BY <1>8, <1>10 DEF buildNamespaceHierarchy, Then
  <2>2. StackType'  BY <1>1, <1>4, <2>1, Pop DEF StackType
  <2>3. Len(todo') = Len(todo) - 1 /\ \A i \in 1..Len(todo') : todo'[i] = todo[i + 1]
    BY <1>4, <2>1, Pop
  <2>4. Built(m)'  BY <1>1, <1>3, <1>10, <2>2, <2>3, RootReached
  <2> QED  BY <1>1, <1>2, <1>9, <2>2, <2>4, NamespaceStep
<1>11. CASE parent # NoNamespace
  <2> DEFINE a == Task("namespace", parent, 0)
             b == Task("parent", NoNamespace, k)
             c == Task("hierarchy", NoNamespace, k + 1)
  <2>1. todo' = <<a, b, c>> \o Tail(todo)
    BY <1>8, <1>11, Zenon DEF buildNamespaceHierarchy, Then
  <2>2. parent \in Namespaces  BY <1>7, <1>11
  <2>3. a \in Tasks /\ b \in Tasks /\ c \in Tasks
    <3>1. {"namespace", "parent", "hierarchy"} \subseteq TaskNames  BY DEF TaskNames
    <3>2. \A do \in {"namespace", "parent", "hierarchy"},
             id \in Namespaces \cup Mosaics \cup {NoNamespace}, j \in Nat :
              Task(do, id, j) \in Tasks
      BY <3>1, TaskParts
    <3>3. k + 1 \in Nat /\ 0 \in Nat  BY <1>6
    <3> HIDE DEF k, parent
    <3> QED  BY <1>6, <2>2, <3>2, <3>3
  <2>4. <<a, b, c>> \o Tail(todo) \in Seq(Tasks)
    <3> HIDE DEF a, b, c
    <3> QED  BY <1>4, <2>3, Put3
  <2>5. StackType'  BY <1>1, <1>4, <2>1, <2>4 DEF StackType
  <2>6. Fetching(m + 1)'  BY <1>1, <1>3, <2>1, <2>2, <2>5, ParentAsked
  <2>7. m + 1 \in Nat  OBVIOUS
  <2> QED  BY <1>1, <1>2, <1>9, <2>5, <2>6, <2>7, NamespaceStep, Zenon
<1> QED  BY <1>10, <1>11

(* A lineage before another, whose first is the parent of its last.        *)
LEMMA Joined ==
    ASSUME NEW a \in Seq(Infos), NEW b \in Seq(Infos), NEW k \in 1..Len(a), Linked(a, k),
           Complete(b), a[k].parent = b[1].ns
    PROVE  LET whole == SubSeq(a, 1, k) \o b
           IN  /\ whole \in Seq(Infos) /\ Len(whole) = k + Len(b) /\ whole[1] = a[1]
               /\ Complete(whole)
<1> DEFINE p == SubSeq(a, 1, k)
           whole == p \o b
<1>1. k \in Nat /\ k >= 1 /\ Len(b) \in Nat /\ Len(b) >= 1  BY DEF Complete
<1>2. p \in Seq(Infos) /\ Len(p) = k /\ \A i \in 1..k : p[i] = a[i]  OBVIOUS
<1> HIDE DEF p
<1>3. /\ whole \in Seq(Infos) /\ Len(whole) = k + Len(b)
      /\ \A i \in 1..k : whole[i] = p[i]
      /\ \A i \in k + 1..k + Len(b) : whole[i] = b[i - k]
  <2>1. /\ p \o b \in Seq(Infos) /\ Len(p \o b) = Len(p) + Len(b)
        /\ \A i \in 1..Len(p) : (p \o b)[i] = p[i]
        /\ \A i \in Len(p) + 1..Len(p) + Len(b) : (p \o b)[i] = b[i - Len(p)]
    BY <1>2, After
  <2>2. Len(p) = k  BY <1>2
  <2> HIDE DEF whole
  <2>3. whole = p \o b  BY DEF whole
  <2> QED  BY <2>1, <2>2, <2>3
<1> HIDE DEF whole
<1>4. \A i \in 1..k : whole[i] = a[i]  BY <1>2, <1>3
<1>5. \A j \in 1..Len(b) : whole[k + j] = b[j]
  <2> TAKE j \in 1..Len(b)
  <2> DEFINE i == k + j
  <2>1. i \in k + 1..k + Len(b) /\ i - k = j  BY <1>1
  <2> HIDE DEF i
  <2>2. whole[i] = b[j]  BY <1>3, <2>1
  <2> QED  BY <2>2 DEF i
<1>6. ASSUME NEW i \in 1..k + Len(b) - 1 PROVE whole[i + 1].ns = whole[i].parent
  <2>1. CASE i < k
    <3>1. i \in 1..k - 1 /\ i \in 1..k /\ i + 1 \in 1..k  BY <1>1, <2>1
    <3>2. whole[i] = a[i] /\ whole[i + 1] = a[i + 1]  BY <1>4, <3>1
    <3> QED  BY <3>1, <3>2 DEF Linked
  <2>2. CASE i = k
    <3>1. whole[k] = a[k] /\ whole[k + 1] = b[1]  BY <1>1, <1>4, <1>5
    <3> QED  BY <2>2, <3>1
  <2>3. CASE i > k
    <3> DEFINE j == i - k
    <3>1. j \in 1..Len(b) - 1 /\ j \in 1..Len(b) /\ j + 1 \in 1..Len(b)
          /\ i = k + j /\ i + 1 = k + (j + 1)
      BY <1>1, <2>3
    <3> HIDE DEF j
    <3>2. whole[i] = b[j] /\ whole[i + 1] = b[j + 1]  BY <1>5, <3>1
    <3> QED  BY <3>1, <3>2 DEF Complete, Linked
  <2> QED  BY <1>1, <2>1, <2>2, <2>3
<1>7. Linked(whole, Len(whole))  BY <1>3, <1>6 DEF Linked
<1>8. whole[Len(whole)] = b[Len(b)]
  <2>1. Len(b) \in 1..Len(b)  BY <1>1
  <2> QED  BY <1>3, <1>5, <2>1
<1>9. Rooted(whole)  BY <1>8 DEF Complete, Rooted
<1>10. Len(whole) >= 1 /\ whole[1] = a[1]  BY <1>1, <1>3, <1>4
<1>11. Complete(whole)  BY <1>7, <1>9, <1>10 DEF Complete
<1> QED  BY <1>3, <1>10, <1>11 DEF whole, p

(* A list without its first two.                                           *)
LEMMA FromThird ==
    ASSUME NEW S, NEW s \in Seq(S), Len(s) >= 2
    PROVE  LET r == SubSeq(s, 3, Len(s))
           IN  /\ r \in Seq(S) /\ Len(r) = Len(s) - 2
               /\ \A i \in 1..Len(s) - 2 : r[i] = s[i + 2]
<1> DEFINE n == Len(s)
           r == SubSeq(s, 3, n)
<1>1. n \in Nat /\ n >= 2 /\ DOMAIN s = 1..n /\ \A i \in 1..n : s[i] \in S  OBVIOUS
<1>2. r = [i \in 1..(1 + n - 3) |-> s[i + 3 - 1]]  OBVIOUS
<1>3. 1 + n - 3 = n - 2 /\ n - 2 \in Nat  BY <1>1
<1> HIDE DEF n, r
<1>4. r = [i \in 1..n - 2 |-> s[i + 2]]  BY <1>2, <1>3
<1>5. \A i \in 1..n - 2 : s[i + 2] \in S  BY <1>1
<1>6. r \in Seq(S)  BY <1>3, <1>4, <1>5
<1>7. Len(r) = n - 2  BY <1>3, <1>4
<1> QED  BY <1>4, <1>6, <1>7 DEF n, r

(* Where the f-th of the lineages that still wait was.                     *)
LEMMA NextFrame ==
    ASSUME NEW m \in Nat, NEW f \in 1..m - 1, NEW tasks \in Nat, NEW started \in Nat,
           2 * m + 1 <= tasks, 1 + m <= started
    PROVE  LET e == f + 1
               t == 0 + 2 * e - 1
               u == 1 + 2 * f - 1
               n == 1 + f
           IN  /\ e \in 1..m /\ t = u + 1 /\ t + 1 = (u + 1) + 1
               /\ u \in 1..tasks - 1 /\ u + 1 \in 1..tasks - 1
               /\ n \in 2..started - 1 /\ n + 1 = 1 + e
               /\ n - 1 = f /\ (1 + e) - 1 = f + 1 /\ f \in 1..m
OBVIOUS

(* The lineage at hand ends the one that waited for it.                    *)
LEMMA ParentSet ==
    ASSUME StackType, StackType', UNCHANGED call, NEW m \in Nat, m # 0, Built(m),
           Len(todo') = Len(todo) - 1, \A i \in 1..Len(todo') : todo'[i] = todo[i + 1],
           Len(lineages') = Len(lineages) - 1,
           \A i \in 2..Len(lineages') : lineages'[i] = lineages[i + 1],
           lineages'[1][1] = lineages[2][1], Complete(lineages'[1]),
           Len(lineages'[1]) \in Nat, Len(lineages'[1]) >= todo[1].k + 1
    PROVE  Climbing(m - 1)'
<1> DEFINE k == todo[1].k
           whole == lineages'[1]
<1>1. todo # <<>> /\ todo \in Seq(Tasks) /\ Stack(0, 1, m) /\ Len(todo) \in Nat
      /\ Len(lineages) \in Nat
  BY Heads DEF StackType, Built
<1>2. Len(todo') = Len(todo) - 1 /\ \A i \in 1..Len(todo') : todo'[i] = todo[i + 1]
  OBVIOUS
<1>3. Frame(1, 2)
  <2>1. 1 \in 1..m /\ 0 + 2 * 1 - 1 = 1 /\ 1 + 1 = 2  OBVIOUS
  <2>2. Frame(0 + 2 * 1 - 1, 1 + 1)  BY <1>1, <2>1 DEF Stack
  <2> QED  BY <2>1, <2>2
<1>4. /\ k >= 1 /\ k <= Len(lineages[2]) /\ Linked(lineages[2], k)
      /\ todo[2] = Task("hierarchy", NoNamespace, k + 1)
  <2>1. 1 + 1 = 2  OBVIOUS
  <2> QED  BY <1>3, <2>1 DEF Frame
<1>5. /\ whole = lineages'[1] /\ whole[1] = lineages[2][1] /\ Len(whole) >= k + 1
      /\ Complete(whole) /\ Len(whole) \in Nat
  OBVIOUS
<1>6. k \in Nat  BY <1>1, FirstTask
<1> HIDE DEF k, whole
<1>7. Base(2 * m + 1) /\ 2 * m + 1 <= Len(todo) /\ 1 + m <= Len(lineages)
  <2>1. 0 + 2 * m + 1 = 2 * m + 1  OBVIOUS
  <2>2. Base(2 * m + 1) /\ 1 + m <= Len(lineages)  BY <1>1, <2>1 DEF Stack
  <2> QED  BY <1>1, <2>2 DEF Base
<1>8. Base(1 + 2 * (m - 1) + 1)'
  <2> DEFINE u == 2 * m + 1
             v == 1 + 2 * (m - 1) + 1
  <2>1. /\ u \in Nat /\ v \in Nat /\ u = v + 1 /\ u + 1 = (v + 1) + 1
        /\ v >= 1 /\ u <= Len(todo)
        /\ Len(todo') - v = Len(todo) - u /\ v \in 1..Len(todo')
        /\ u + 1 <= Len(todo) => v + 1 \in 1..Len(todo')
    <3>1. m >= 1  OBVIOUS
    <3>2. u \in Nat /\ v \in Nat /\ u = v + 1 /\ v >= 1  BY <3>1
    <3>3. u <= Len(todo)  BY <1>7
    <3> HIDE DEF u, v
    <3>4. Len(todo') = Len(todo) - 1  BY <1>2
    <3> QED  BY <1>1, <3>2, <3>3, <3>4
  <2>2. Base(u)  BY <1>7
  <2> HIDE DEF u, v
  <2>3. todo'[v] = todo[u]  BY <1>2, <2>1
  <2>4. u + 1 <= Len(todo) => todo'[v + 1] = todo[u + 1]  BY <1>2, <2>1
  <2>5. Base(v)'  BY <2>1, <2>2, <2>3, <2>4, BaseKept
  <2> QED  BY <2>5 DEF v
<1>9. \A l \in 1..m : First(l)' = First(l + 1)
  <2> TAKE l \in 1..m
  <2>1. l # 0 /\ l + 1 # 0  OBVIOUS
  <2>2. lineages'[l][1] = lineages[l + 1][1]
    <3>1. CASE l = 1  BY <1>5, <3>1
    <3>2. CASE l # 1
      <4>1. l \in 2..Len(lineages')  BY <1>1, <1>7, <3>2
      <4> QED  BY <4>1
    <3> QED  BY <3>1, <3>2
  <2> QED  BY <2>1, <2>2 DEF First
<1>10. ASSUME NEW f \in 1..m - 1 PROVE Frame(1 + 2 * f - 1, 1 + f)'
  <2> DEFINE e == f + 1
             t == 0 + 2 * e - 1
             u == 1 + 2 * f - 1
             n == 1 + f
  <2>1. /\ e \in 1..m /\ t = u + 1 /\ t + 1 = (u + 1) + 1
        /\ u \in 1..Len(todo') /\ u + 1 \in 1..Len(todo')
        /\ n \in 2..Len(lineages') /\ n + 1 = 1 + e
        /\ n - 1 = f /\ (1 + e) - 1 = f + 1 /\ f \in 1..m
    BY <1>1, <1>2, <1>7, NextFrame
  <2>2. Frame(t, 1 + e)  BY <1>1, <2>1 DEF Stack
  <2> HIDE DEF e, t, u, n
  <2>3. todo'[u] = todo[t] /\ todo'[u + 1] = todo[t + 1]  BY <1>2, <2>1
  <2>4. First(n - 1)' = First((1 + e) - 1)  BY <1>9, <2>1
  <2>5. lineages'[n] = lineages[1 + e]
    <3>1. lineages'[n] = lineages[n + 1]  BY <2>1
    <3> QED  BY <2>1, <3>1
  <2>6. Frame(u, n)'  BY <2>2, <2>3, <2>4, <2>5, FrameKept
  <2> QED  BY <2>6 DEF u, n
<1>11. First(1 + (m - 1))' = First(1 + m)
  <2>1. m \in 1..m /\ 1 + (m - 1) = m /\ 1 + m = m + 1  OBVIOUS
  <2> QED  BY <1>9, <2>1
<1>12. About(First(1 + (m - 1)))'
  <2>1. About(First(1 + m))  BY <1>1 DEF Stack
  <2>2. todo'[Len(todo')] = todo[Len(todo)]
    <3>1. PICK i \in Nat : i = Len(todo')  BY <1>1, <1>2
    <3>2. i \in 1..Len(todo') /\ i + 1 = Len(todo)  BY <1>1, <1>2, <1>7, <3>1
    <3> QED  BY <1>2, <3>1, <3>2
  <2> QED  BY <1>11, <2>1, <2>2, AboutKept
<1>13. ASSUME call.op = "GetNamespaceInfosFromAccount",
              NEW r \in 1 + (m - 1) + 1..Len(lineages')
       PROVE  Len(lineages'[r]) = 1
  <2>1. r \in 2..Len(lineages') /\ r + 1 \in 1 + m + 1..Len(lineages)  BY <1>1
  <2>2. lineages'[r] = lineages[r + 1]  BY <2>1
  <2> QED  BY <1>1, <1>13, <2>1, <2>2 DEF Stack
<1>14. Stack(1, 1, m - 1)'
  <2>1. 1 + (m - 1) <= Len(lineages')  BY <1>1, <1>7
  <2> QED  BY <1>8, <1>10, <1>12, <1>13, <2>1 DEF Stack
<1>15. todo'[1] = Task("hierarchy", NoNamespace, todo'[1].k) /\ todo'[1].k = k + 1
  <2>1. 1 \in 1..Len(todo') /\ 1 + 1 = 2  BY <1>1, <1>2, <1>7
  <2>2. todo'[1] = todo[2]  BY <1>2, <2>1
  <2>3. \A n : Task("hierarchy", NoNamespace, n).k = n  BY TaskParts
  <2>4. todo'[1].k = k + 1  BY <1>4, <2>2, <2>3
  <2> QED  BY <1>4, <2>2, <2>4
<1>16. k + 1 >= 1 /\ Linked(lineages'[1], Len(lineages'[1])) /\ Rooted(lineages'[1])
       /\ k + 1 <= Len(lineages'[1])
  BY <1>5, <1>6 DEF Complete
<1> QED  BY <1>14, <1>15, <1>16 DEF Climbing

(* The lists when nsInfo.Parent = parentNsInfo was done.                   *)
LEMMA ParentJoins ==
    ASSUME StackType, NEW m \in Nat, m # 0, Built(m), SetParent
    PROVE  /\ StackType' /\ Len(todo') = Len(todo) - 1
           /\ \A i \in 1..Len(todo') : todo'[i] = todo[i + 1]
           /\ Len(lineages') = Len(lineages) - 1
           /\ \A i \in 2..Len(lineages') : lineages'[i] = lineages[i + 1]
           /\ lineages[1] \in Seq(Infos) /\ lineages[2] \in Seq(Infos)
           /\ Complete(lineages[1])
           /\ todo[1].k \in 1..Len(lineages[2])
           /\ lineages[2][todo[1].k].parent = lineages[1][1].ns
           /\ lineages'[1][1] = lineages[2][1] /\ Complete(lineages'[1])
           /\ Len(lineages'[1]) = todo[1].k + Len(lineages[1])
<1>1. Head(todo) = todo[1] /\ todo # <<>> /\ todo \in Seq(Tasks) /\ lineages \in Seq(Seq(Infos))
  BY Heads DEF StackType
<1> DEFINE k == todo[1].k
           whole == SubSeq(lineages[2], 1, k) \o lineages[1]
           others == SubSeq(lineages, 3, Len(lineages))
<1>2. lineages' = <<whole>> \o others /\ todo' = <<>> \o Tail(todo)
  BY <1>1 DEF SetParent, Then
<1>3. Frame(1, 2) /\ Complete(lineages[1]) /\ 1 + m <= Len(lineages)
  <2>1. 1 \in 1..m /\ 0 + 2 * 1 - 1 = 1 /\ 1 + 1 = 2  OBVIOUS
  <2>2. Frame(0 + 2 * 1 - 1, 1 + 1)  BY <2>1 DEF Built, Stack
  <2> QED  BY <2>1, <2>2 DEF Built, Stack
<1>4. /\ Len(lineages) \in Nat /\ Len(lineages) >= 2
      /\ lineages[1] \in Seq(Infos) /\ lineages[2] \in Seq(Infos)
  <2>1. Len(lineages) \in Nat /\ Len(lineages) >= 2  BY <1>1, <1>3
  <2>2. 1 \in 1..Len(lineages) /\ 2 \in 1..Len(lineages)  BY <2>1
  <2> QED  BY <1>1, <2>1, <2>2
<1>5. k \in 1..Len(lineages[2]) /\ Linked(lineages[2], k)
      /\ lineages[2][k].parent = lineages[1][1].ns
  <2>1. k \in Nat  BY <1>1, FirstTask
  <2>2. First(2 - 1) = lineages[1][1].ns  BY DEF First
  <2>3. Len(lineages[2]) \in Nat  BY <1>4
  <2> QED  BY <1>3, <2>1, <2>2, <2>3 DEF Frame
<1>6. /\ whole \in Seq(Infos) /\ Len(whole) = k + Len(lineages[1]) /\ whole[1] = lineages[2][1]
      /\ Complete(whole)
  BY <1>3, <1>4, <1>5, Joined
<1>7. others \in Seq(Seq(Infos)) /\ Len(others) = Len(lineages) - 2
      /\ \A i \in 1..Len(lineages) - 2 : others[i] = lineages[i + 2]
  BY <1>1, <1>4, FromThird
<1> HIDE DEF whole, others
<1>8. <<whole>> \in Seq(Seq(Infos)) /\ Len(<<whole>>) = 1 /\ <<whole>>[1] = whole  BY <1>6
<1>9. /\ lineages' \in Seq(Seq(Infos)) /\ Len(lineages') = Len(lineages) - 1
      /\ lineages'[1] = whole
      /\ \A i \in 2..Len(lineages') : lineages'[i] = others[i - 1]
  BY <1>2, <1>4, <1>7, <1>8, After
<1>10. \A i \in 2..Len(lineages') : lineages'[i] = lineages[i + 1]
  <2> TAKE i \in 2..Len(lineages')
  <2> DEFINE j == i - 1
  <2>1. j \in 1..Len(lineages) - 2 /\ j + 2 = i + 1  BY <1>4, <1>9
  <2> HIDE DEF j
  <2>2. others[j] = lineages[i + 1]  BY <1>7, <2>1
  <2> QED  BY <1>9, <2>2 DEF j
<1>11. /\ StackType' /\ Len(todo') = Len(todo) - 1
       /\ \A i \in 1..Len(todo') : todo'[i] = todo[i + 1]
  BY <1>1, <1>2, <1>9, Pop DEF StackType
<1> QED  BY <1>3, <1>4, <1>5, <1>6, <1>9, <1>10, <1>11

(* The lineage that waited is built once more.                             *)
LEMMA SetParentLineage ==
    ASSUME LineageInv, ChainType', SetParent
    PROVE  LineageInv'
<1>1. Now("parent") /\ UNCHANGED <<call, found>> /\ StackType
  BY DEF SetParent, LineageInv
<1>2. call.op \in NamespaceCalls
  <2>1. "parent" \notin OtherTasks  BY DEF OtherTasks
  <2> QED  BY <1>1, <2>1, Where
<1>3. PICK m \in Nat : m # 0 /\ Built(m)  BY <1>1, Where
<1>4. /\ StackType' /\ Len(todo') = Len(todo) - 1
      /\ \A i \in 1..Len(todo') : todo'[i] = todo[i + 1]
      /\ Len(lineages') = Len(lineages) - 1
      /\ \A i \in 2..Len(lineages') : lineages'[i] = lineages[i + 1]
      /\ lineages[1] \in Seq(Infos) /\ Complete(lineages[1])
      /\ todo[1].k \in 1..Len(lineages[2])
      /\ lineages'[1][1] = lineages[2][1] /\ Complete(lineages'[1])
      /\ Len(lineages'[1]) = todo[1].k + Len(lineages[1])
  BY <1>1, <1>3, ParentJoins
<1>5. Len(lineages'[1]) \in Nat /\ Len(lineages'[1]) >= todo[1].k + 1
  <2>1. todo[1].k \in Nat /\ Len(lineages[1]) \in Nat /\ Len(lineages[1]) >= 1
    BY <1>4 DEF Complete
  <2> QED  BY <1>4, <2>1
<1>6. Climbing(m - 1)'  BY <1>1, <1>3, <1>4, <1>5, ParentSet
<1>7. m - 1 \in Nat  BY <1>3
<1>8. FoundInv'  BY <1>1, SameFound
<1> QED  BY <1>1, <1>2, <1>4, <1>6, <1>7, <1>8, NamespaceStep

(***************************************************************************)
(* The end of a lineage.                                                   *)
(***************************************************************************)

(* Lists of one and of two.                                                *)
LEMMA OneOrTwo ==
    ASSUME NEW S, NEW s \in Seq(S)
    PROVE  /\ Len(s) = 1 => s = <<s[1]>>
           /\ Len(s) = 2 => s = <<s[1], s[2]>> /\ s[2] \in S
<1>1. Len(s) = 1 => s = <<s[1]>>  OBVIOUS
<1>2. Len(s) = 2 => s = <<s[1], s[2]>>  OBVIOUS
<1>3. ASSUME Len(s) = 2 PROVE s[2] \in S
  <2>1. 2 \in 1..Len(s)  BY <1>3
  <2> QED  BY <2>1
<1> QED  BY <1>1, <1>2, <1>3

(* What is left when the lineage that nothing waits for is built.          *)
LEMMA BuiltTasks ==
    ASSUME StackType, Built(0)
    PROVE  /\ \/ call.op = "GetNamespaceInfo" /\ todo = <<Do("collect")>>
              \/ /\ call.op \in {"GetLinkedMosaicId", "GetLinkedAddress"}
                 /\ todo = <<Do("alias")>>
              \/ call.op = "GetMosaicInfoByAssetId" /\ todo = <<Do("resolve")>>
              \/ /\ call.op = "GetMosaicInfosByAssetIds"
                 /\ \E k \in Nat \ {0} : todo = <<Do("resolve"), Task("ids", NoNamespace, k)>>
              \/ /\ call.op = "GetNamespaceInfosFromAccount"
                 /\ todo = <<Do("collect"), Do("hierarchies")>>
           /\ lineages # <<>> /\ Head(lineages) = lineages[1]
           /\ lineages[1] \in Seq(Infos) /\ Complete(lineages[1]) /\ lineages[1][1] \in Infos
           /\ Tail(lineages) \in Seq(Seq(Infos))
           /\ call.op = "GetNamespaceInfo" => call.ids[1] = lineages[1][1].ns
           /\ call.op = "GetNamespaceInfosFromAccount" =>
                  \A r \in DOMAIN Tail(lineages) : Len(Tail(lineages)[r]) = 1
<1>1. Stack(0, 1, 0) /\ Complete(lineages[1]) /\ todo \in Seq(Tasks)
      /\ lineages \in Seq(Seq(Infos))
  BY DEF Built, StackType
<1>2. /\ Base(1) /\ 1 <= Len(lineages)
      /\ call.op = "GetNamespaceInfo" => call.ids[1] = First(1)
      /\ call.op = "GetNamespaceInfosFromAccount" =>
             \A r \in 2..Len(lineages) : Len(lineages[r]) = 1
  <2>1. 0 + 2 * 0 + 1 = 1 /\ 1 + 0 = 1 /\ 1 + 0 + 1 = 2  OBVIOUS
  <2> QED  BY <1>1, <2>1 DEF Stack, About
<1>3. \A k : Len(todo) = 1 + 1 /\ todo[1 + 1] = k => Len(todo) = 2 /\ todo[2] = k
  OBVIOUS
<1>4. /\ Len(todo) = 1 => todo = <<todo[1]>>
      /\ Len(todo) = 2 => todo = <<todo[1], todo[2]>> /\ todo[2].k \in Nat
  <2>1. Len(todo) = 2 => todo[2] \in Tasks  BY <1>1, OneOrTwo
  <2>2. \A t \in Tasks : t.k \in Nat  BY DEF Tasks
  <2> QED  BY <1>1, <2>1, <2>2, OneOrTwo
<1>5. \/ call.op = "GetNamespaceInfo" /\ todo = <<Do("collect")>>
      \/ /\ call.op \in {"GetLinkedMosaicId", "GetLinkedAddress"}
         /\ todo = <<Do("alias")>>
      \/ call.op = "GetMosaicInfoByAssetId" /\ todo = <<Do("resolve")>>
      \/ /\ call.op = "GetMosaicInfosByAssetIds"
         /\ \E k \in Nat \ {0} : todo = <<Do("resolve"), Task("ids", NoNamespace, k)>>
      \/ /\ call.op = "GetNamespaceInfosFromAccount"
         /\ todo = <<Do("collect"), Do("hierarchies")>>
  <2>1. CASE /\ call.op = "GetMosaicInfosByAssetIds"
             /\ Len(todo) = 2 /\ todo[1] = Do("resolve")
             /\ todo[2].k # 0 /\ todo[2] = Task("ids", NoNamespace, todo[2].k)
    <3> DEFINE k == todo[2].k
    <3>1. k \in Nat \ {0} /\ todo = <<Do("resolve"), Task("ids", NoNamespace, k)>>
      BY <1>4, <2>1
    <3> HIDE DEF k
    <3> QED  BY <2>1, <3>1
  <2>2. CASE /\ call.op = "GetNamespaceInfosFromAccount"
             /\ Len(todo) = 2 /\ todo[1] = Do("collect") /\ todo[2] = Do("hierarchies")
    BY <1>4, <2>2
  <2>3. CASE /\ Len(todo) = 1
             /\ \/ call.op = "GetNamespaceInfo" /\ todo[1] = Do("collect")
                \/ /\ call.op \in {"GetLinkedMosaicId", "GetLinkedAddress"}
                   /\ todo[1] = Do("alias")
                \/ call.op = "GetMosaicInfoByAssetId" /\ todo[1] = Do("resolve")
    BY <1>4, <2>3
  <2>4. 1 + 1 = 2  OBVIOUS
  <2> QED  BY <1>2, <2>1, <2>2, <2>3, <2>4 DEF Base
<1>6. lineages # <<>> /\ Head(lineages) = lineages[1] /\ lineages[1] \in Seq(Infos)
  <2>1. 1 \in 1..Len(lineages) /\ lineages # <<>>  BY <1>1, <1>2
  <2> QED  BY <1>1, <2>1
<1>7. lineages[1][1] \in Infos
  <2>1. Len(lineages[1]) \in Nat /\ Len(lineages[1]) >= 1  BY <1>1, <1>6 DEF Complete
  <2>2. 1 \in 1..Len(lineages[1])  BY <2>1
  <2> QED  BY <1>6, <2>2
<1>8. /\ Tail(lineages) \in Seq(Seq(Infos)) /\ DOMAIN Tail(lineages) = 1..Len(lineages) - 1
      /\ \A r \in 1..Len(lineages) - 1 : Tail(lineages)[r] = lineages[r + 1]
  BY <1>1, <1>6
<1>9. ASSUME call.op = "GetNamespaceInfosFromAccount", NEW r \in DOMAIN Tail(lineages)
      PROVE  Len(Tail(lineages)[r]) = 1
  <2> DEFINE i == r + 1
  <2>1. Len(lineages) \in Nat  BY <1>1
  <2>2. r \in 1..Len(lineages) - 1 /\ i \in 2..Len(lineages)  BY <1>8, <2>1
  <2>3. Tail(lineages)[r] = lineages[i]  BY <1>8, <2>2
  <2> HIDE DEF i
  <2> QED  BY <1>2, <1>9, <2>2, <2>3
<1>10. call.op = "GetNamespaceInfo" => call.ids[1] = lineages[1][1].ns
  BY <1>2 DEF First
<1> QED  BY <1>1, <1>5, <1>6, <1>7, <1>8, <1>9, <1>10

(* The names of these tasks are different.                                 *)
LEMMA EndTasks ==
    /\ \A do, id, k : Head(<<Task(do, id, k)>>).do = do
    /\ \A do, id, k, t : Head(<<Task(do, id, k), t>>).do = do
    /\ \A do : Head(<<Do(do)>>).do = do
    /\ \A do, t : Head(<<Do(do), t>>).do = do
<1>1. \A a, b : Head(<<a>>) = a /\ Head(<<a, b>>) = a  OBVIOUS
<1> QED  BY <1>1, TaskParts

(* Short lists of tasks have their type.                                   *)
LEMMA ShortLists ==
    /\ <<>> \in Seq(Tasks)
    /\ \A t \in Tasks : <<t>> \in Seq(Tasks) /\ Len(<<t>>) = 1 /\ <<t>>[1] = t
    /\ \A t \in Tasks, u \in Tasks :
           <<t, u>> \in Seq(Tasks) /\ Len(<<t, u>>) = 2 /\ <<t, u>>[1] = t /\ <<t, u>>[2] = u
OBVIOUS

(* The lineage joins what is found.                                        *)
LEMMA CollectLineage ==
    ASSUME LineageInv, ChainType', Collect
    PROVE  LineageInv'
<1>1. /\ Now("collect") /\ UNCHANGED call /\ StackType
      /\ found' = Append(found, Head(lineages)) /\ lineages' = Tail(lineages)
      /\ todo' = <<>> \o Tail(todo)
  BY DEF Collect, LineageInv, Then
<1>2. Built(0) /\ call.op \in NamespaceCalls
  <2>1. "collect" \notin OtherTasks  BY DEF OtherTasks
  <2> QED  BY <1>1, <2>1, Where
<1>3. Head(todo).do = "collect"  BY <1>1 DEF Now
<1>4. \/ call.op = "GetNamespaceInfo" /\ todo = <<Do("collect")>>
      \/ /\ call.op = "GetNamespaceInfosFromAccount"
         /\ todo = <<Do("collect"), Do("hierarchies")>>
  BY <1>1, <1>2, <1>3, BuiltTasks, EndTasks
<1>5. \/ call.op = "GetNamespaceInfo" /\ todo' = <<>>
      \/ call.op = "GetNamespaceInfosFromAccount" /\ todo' = <<Do("hierarchies")>>
  BY <1>1, <1>4, RestOfTasks
<1>6. StackType'
  <2>1. Do("hierarchies") \in Tasks  BY TaskParts DEF TaskNames
  <2>2. todo' \in Seq(Tasks)  BY <1>5, <2>1, ShortLists
  <2> QED  BY <1>1, <1>2, <2>2, BuiltTasks DEF StackType
<1>7. Resting'
  <2>1. CASE call.op = "GetNamespaceInfo"  BY <1>5, <2>1 DEF Resting
  <2>2. CASE call.op = "GetNamespaceInfosFromAccount"
    <3>1. todo' = <<Do("hierarchies")>>  BY <1>5, <2>2
    <3>2. \A r \in DOMAIN lineages' : Len(lineages'[r]) = 1  BY <1>1, <1>2, <2>2, BuiltTasks
    <3> QED  BY <1>1, <2>2, <3>1, <3>2 DEF Resting
  <2> QED  BY <1>5, <2>1, <2>2
<1>8. FoundInv'
  <2> DEFINE l == Head(lineages)
  <2>1. /\ found \in Seq(Seq(Infos))
        /\ \A i \in DOMAIN found :
               /\ Complete(found[i])
               /\ call.op = "GetNamespaceInfo" => found[i][1].ns = call.ids[1]
    BY <1>4 DEF LineageInv, FoundInv
  <2>2. /\ l \in Seq(Infos) /\ Complete(l)
        /\ call.op = "GetNamespaceInfo" => l[1].ns = call.ids[1]
    BY <1>1, <1>2, BuiltTasks
  <2> HIDE DEF l
  <2>3. found' = Append(found, l)  BY <1>1 DEF l
  <2>4. found' \in Seq(Seq(Infos)) /\ Len(found') = Len(found) + 1 /\ Len(found) \in Nat
        /\ (\A i \in 1..Len(found) : found'[i] = found[i]) /\ found'[Len(found) + 1] = l
    BY <2>1, <2>2, <2>3
  <2>5. ASSUME NEW i \in DOMAIN found'
        PROVE  /\ Complete(found'[i])
               /\ call.op = "GetNamespaceInfo" => found'[i][1].ns = call.ids[1]
    <3>1. i \in 1..Len(found) \/ i = Len(found) + 1  BY <2>4
    <3>2. CASE i \in 1..Len(found)
      <4>1. i \in DOMAIN found /\ found'[i] = found[i]  BY <2>1, <2>4, <3>2
      <4> QED  BY <2>1, <4>1
    <3>3. CASE i = Len(found) + 1  BY <2>2, <2>4, <3>3
    <3> QED  BY <3>1, <3>2, <3>3
  <2> QED  BY <1>1, <2>4, <2>5 DEF FoundInv
<1> QED  BY <1>1, <1>2, <1>6, <1>7, <1>8, NamespaceStep

(* Its first's alias is what was asked for.                                *)
LEMMA GetLinkedLineage ==
    ASSUME LineageInv, ChainType', GetLinked
    PROVE  LineageInv'
<1>1. /\ Now("alias") /\ UNCHANGED call /\ StackType /\ lineages' = Tail(lineages)
      /\ todo' = <<>> \o Tail(todo)
  BY DEF GetLinked, LineageInv, Then
<1>2. Built(0) /\ call.op \in NamespaceCalls
  <2>1. "alias" \notin OtherTasks  BY DEF OtherTasks
  <2> QED  BY <1>1, <2>1, Where
<1>3. Head(todo).do = "alias"  BY <1>1 DEF Now
<1>4. call.op \in {"GetLinkedMosaicId", "GetLinkedAddress"} /\ todo = <<Do("alias")>>
  BY <1>1, <1>2, <1>3, BuiltTasks, EndTasks
<1>5. todo' = <<>>  BY <1>1, <1>4, RestOfTasks
<1>6. StackType'  BY <1>1, <1>2, <1>5, BuiltTasks, ShortLists DEF StackType
<1>7. Resting' /\ FoundInv'  BY <1>1, <1>4, <1>5 DEF Resting, FoundInv
<1> QED  BY <1>1, <1>2, <1>6, <1>7, NamespaceStep

(* Its first's alias is asked for.                                         *)
LEMMA ResolveLineage ==
    ASSUME LineageInv, ChainType', Resolve
    PROVE  LineageInv'
<1> DEFINE alias == Head(lineages)[1].alias
           mosaic == Task("mosaic", alias, 0)
<1>1. /\ Now("resolve") /\ UNCHANGED <<call, found>> /\ StackType /\ lineages' = Tail(lineages)
      /\ IF alias = NoMosaic THEN Stop("error") ELSE todo' = <<mosaic>> \o Tail(todo)
  BY DEF Resolve, LineageInv, Then
<1>2. Built(0) /\ call.op \in NamespaceCalls
  <2>1. "resolve" \notin OtherTasks  BY DEF OtherTasks
  <2> QED  BY <1>1, <2>1, Where
<1>3. Head(todo).do = "resolve"  BY <1>1 DEF Now
<1>4. \/ call.op = "GetMosaicInfoByAssetId" /\ todo = <<Do("resolve")>>
      \/ /\ call.op = "GetMosaicInfosByAssetIds"
         /\ \E k \in Nat \ {0} : todo = <<Do("resolve"), Task("ids", NoNamespace, k)>>
  BY <1>1, <1>2, <1>3, BuiltTasks, EndTasks
<1>5. lineages' \in Seq(Seq(Infos)) /\ alias \in Mosaics \cup {NoMosaic}
  BY <1>1, <1>2, BuiltTasks DEF Infos
<1>6. CASE alias = NoMosaic  BY <1>1, <1>5, <1>6, StopStep
<1>7. CASE alias # NoMosaic
  <2>1. alias \in Mosaics  BY <1>5, <1>7
  <2> HIDE DEF alias
  <2>2. mosaic \in Tasks
    <3>1. "mosaic" \in TaskNames  BY DEF TaskNames
    <3> QED  BY <2>1, <3>1, TaskParts
  <2>3. FoundInv'  BY <1>1, <1>4 DEF FoundInv
  <2>4. CASE call.op = "GetMosaicInfoByAssetId" /\ todo = <<Do("resolve")>>
    <3>1. <<mosaic>> \o Tail(<<Do("resolve")>>) = <<mosaic>>
      <4> HIDE DEF mosaic
      <4>1. \A a, b : <<b>> \o Tail(<<a>>) = <<b>>  OBVIOUS
      <4> QED  BY <4>1
    <3>2. todo' = <<mosaic>>  BY <1>1, <1>7, <2>4, <3>1
    <3>3. Resting'  BY <1>1, <2>1, <2>4, <3>2 DEF Resting
    <3>4. StackType'  BY <1>5, <2>2, <3>2, ShortLists DEF StackType
    <3> QED  BY <1>1, <1>2, <2>3, <3>3, <3>4, NamespaceStep
  <2>5. ASSUME call.op = "GetMosaicInfosByAssetIds", NEW k \in Nat \ {0},
               todo = <<Do("resolve"), Task("ids", NoNamespace, k)>>
        PROVE  LineageInv'
    <3>1. todo' = <<mosaic, Task("ids", NoNamespace, k)>>
      <4> HIDE DEF mosaic
      <4> QED  BY <1>1, <1>7, <2>5, RestOfTasks
    <3>2. Resting'  BY <1>1, <2>1, <2>5, <3>1 DEF Resting
    <3>3. Task("ids", NoNamespace, k) \in Tasks  BY TaskParts DEF TaskNames
    <3>4. StackType'  BY <1>5, <2>2, <3>1, <3>3, ShortLists DEF StackType
    <3> QED  BY <1>1, <1>2, <2>3, <3>2, <3>4, NamespaceStep
  <2> QED  BY <1>4, <2>4, <2>5
<1> QED  BY <1>6, <1>7

(***************************************************************************)
(* Steps of a call that has no lineage at hand.                            *)
(***************************************************************************)

(* What is left then, from the name of the next task.                      *)
LEMMA RestingTasks ==
    ASSUME LineageInv, NEW name, Now(name),
           name \in {"mosaic", "ids", "nils", "mosaics", "namespaces", "hierarchies"}
    PROVE  /\ call.op \in NamespaceCalls
           /\ name = "mosaic" =>
                  \E id \in Mosaics :
                      \/ /\ call.op = "GetMosaicInfoByAssetId"
                         /\ todo = <<Task("mosaic", id, 0)>>
                      \/ /\ call.op = "GetMosaicInfosByAssetIds"
                         /\ \E k \in Nat \ {0} :
                                todo = <<Task("mosaic", id, 0), Task("ids", NoNamespace, k)>>
           /\ name \in {"nils", "mosaics"} =>
                  /\ call.op = "GetMosaicInfosByAssetIds"
                  /\ \E k \in Nat \ {0} : todo = <<Do(name), Task("ids", NoNamespace, k)>>
           /\ name = "ids" =>
                  /\ call.op = "GetMosaicInfosByAssetIds"
                  /\ \E k \in Nat \ {0} : todo = <<Task("ids", NoNamespace, k)>>
           /\ name = "namespaces" =>
                  call.op = "GetNamespaceInfosFromAccount" /\ todo = <<Do("namespaces")>>
           /\ name = "hierarchies" =>
                  /\ call.op = "GetNamespaceInfosFromAccount" /\ todo = <<Do("hierarchies")>>
                  /\ \A r \in DOMAIN lineages : Len(lineages[r]) = 1
<1>1. Resting /\ todo # <<>> /\ Head(todo).do = name  BY Where DEF Now
<1>2. name \notin OtherTasks  BY DEF OtherTasks
<1>3. call.op \in NamespaceCalls  BY <1>2, Where
<1>4. \/ name = "refuse"
      \/ /\ call.op = "GetMosaicInfoByAssetId" /\ name = "mosaic"
         /\ \E id \in Mosaics : todo = <<Task("mosaic", id, 0)>>
      \/ /\ call.op = "GetMosaicInfosByAssetIds"
         /\ \E k \in Nat \ {0} :
                \/ name = "ids" /\ todo = <<Task("ids", NoNamespace, k)>>
                \/ name = "nils" /\ todo = <<Do("nils"), Task("ids", NoNamespace, k)>>
                \/ name = "mosaics" /\ todo = <<Do("mosaics"), Task("ids", NoNamespace, k)>>
                \/ /\ name = "mosaic"
                   /\ \E id \in Mosaics :
                          todo = <<Task("mosaic", id, 0), Task("ids", NoNamespace, k)>>
      \/ /\ call.op = "GetNamespaceInfosFromAccount"
         /\ \/ name = "namespaces" /\ todo = <<Do("namespaces")>>
            \/ /\ name = "hierarchies" /\ todo = <<Do("hierarchies")>>
               /\ \A r \in DOMAIN lineages : Len(lineages[r]) = 1
  BY <1>1, EndTasks DEF Resting
<1> QED  BY <1>2, <1>3, <1>4 DEF OtherTasks

(* The next id is looked at.                                               *)
LEMMA NamespaceIdsLineage ==
    ASSUME LineageInv, ChainType', NamespaceIds
    PROVE  LineageInv'
<1>1. Now("ids") /\ UNCHANGED <<call, found, lineages>> /\ StackType
  BY DEF NamespaceIds, LineageInv
<1>2. PICK k \in Nat \ {0} :
          call.op = "GetMosaicInfosByAssetIds" /\ todo = <<Task("ids", NoNamespace, k)>>
  BY <1>1, RestingTasks
<1>3. call.op \in NamespaceCalls /\ FoundInv'  BY <1>1, <1>2 DEF NamespaceCalls, FoundInv
<1>4. Head(todo).k = k
  <2>1. \A a : Head(<<a>>) = a  OBVIOUS
  <2> QED  BY <1>2, <2>1, TaskParts
<1> DEFINE next == Task("ids", NoNamespace, k + 1)
           id == call.ids[k]
<1>5. k + 1 \in Nat \ {0} /\ next \in Tasks
  <2>1. k + 1 \in Nat \ {0} /\ "ids" \in TaskNames  BY DEF TaskNames
  <2>2. \A j \in Nat : Task("ids", NoNamespace, j) \in Tasks  BY <2>1, TaskParts
  <2> QED  BY <2>1, <2>2
<1>6. CASE k > Len(call.ids)
  <2>1. Then(<<>>)  BY <1>4, <1>6 DEF NamespaceIds
  <2>2. todo' = <<>>  BY <1>2, <2>1, RestOfTasks DEF Then
  <2>3. Resting' /\ StackType'  BY <1>1, <2>2, ShortLists DEF Resting, StackType
  <2> QED  BY <1>1, <1>3, <2>3, NamespaceStep
<1>7. CASE ~(k > Len(call.ids))
  <2>1. call.ids \in Seq(Namespaces \cup Mosaics) /\ k \in 1..Len(call.ids)
    <3>1. call.ids \in Seq(Namespaces \cup Mosaics)  BY <1>2 DEF LineageInv, IdsType
    <3> QED  BY <1>7, <3>1
  <2>2. id \in Namespaces \cup Mosaics  BY <2>1
  <2>3. CASE id \in Mosaics
    <3>1. Then(<<next>>)  BY <1>4, <1>7, <2>3 DEF NamespaceIds
    <3>2. todo' = <<next>>
      <4> HIDE DEF next
      <4>1. \A a, b : <<b>> \o Tail(<<a>>) = <<b>>  OBVIOUS
      <4> QED  BY <1>2, <3>1, <4>1 DEF Then
    <3>3. Resting'  BY <1>1, <1>2, <1>5, <3>2 DEF Resting
    <3>4. StackType'  BY <1>1, <1>5, <3>2, ShortLists DEF StackType
    <3> QED  BY <1>1, <1>3, <3>3, <3>4, NamespaceStep
  <2>4. CASE id \notin Mosaics
    <3> DEFINE a == Task("namespace", id, 0)
               b == Do("resolve")
    <3>1. Then(<<a, b, next>>)  BY <1>4, <1>7, <2>4 DEF NamespaceIds
    <3>2. id \in Namespaces  BY <2>2, <2>4
    <3>3. a \in Tasks /\ b \in Tasks /\ a.id = id /\ a = Task("namespace", a.id, 0)
          /\ next.k = k + 1 /\ next = Task("ids", NoNamespace, next.k)
      <4>1. {"namespace", "resolve"} \subseteq TaskNames  BY DEF TaskNames
      <4>2. a.id = id /\ next.k = k + 1  BY TaskParts
      <4> HIDE DEF id
      <4>3. a \in Tasks /\ b \in Tasks  BY <3>2, <4>1, TaskParts
      <4> QED  BY <4>2, <4>3
    <3> DEFINE s == <<Task("ids", NoNamespace, k)>>
    <3>4. s \in Seq(Tasks) /\ s # <<>> /\ Len(s) = 1
      <4>1. Task("ids", NoNamespace, k) \in Tasks  BY TaskParts DEF TaskNames
      <4> QED  BY <4>1, ShortLists
    <3>5. todo' = <<a, b, next>> \o Tail(s)  BY <1>2, <3>1 DEF Then
    <3> HIDE DEF a, b, next, s
    <3>6. /\ todo' \in Seq(Tasks) /\ Len(todo') = 3
          /\ todo'[1] = a /\ todo'[2] = b /\ todo'[3] = next
      <4>1. Len(s) + 2 = 3  BY <3>4
      <4> QED  BY <1>5, <3>3, <3>4, <3>5, <4>1, Put3, SMTT(30)
    <3>7. StackType'  BY <1>1, <3>6 DEF StackType
    <3>8. Base(2)'
      <4>1. /\ Len(todo') = 2 + 1 /\ todo'[2] = Do("resolve")
            /\ todo'[2 + 1].k # 0
            /\ todo'[2 + 1] = Task("ids", NoNamespace, todo'[2 + 1].k)
        <5>1. k + 1 # 0 /\ 2 + 1 = 3  OBVIOUS
        <5> QED  BY <3>3, <3>6, <5>1 DEF b
      <4> QED  BY <1>1, <1>2, <4>1 DEF Base
    <3>9. Stack(1, 0, 0)'
      <4>1. 1 + 2 * 0 + 1 = 2 /\ 0 + 0 = 0 /\ 1..0 = {}  OBVIOUS
      <4>2. Len(lineages') \in Nat  BY <3>7 DEF StackType
      <4>3. About(First(0))'
        <5>1. First(0)' = call.ids[k] /\ k \in 1..Len(call.ids)
          BY <2>1, <3>3, <3>6 DEF First, id
        <5>2. todo'[Len(todo')].k - 1 = k  BY <3>3, <3>6
        <5> QED  BY <1>1, <1>2, <5>1, <5>2 DEF About
      <4> QED  BY <1>1, <1>2, <3>8, <4>1, <4>2, <4>3 DEF Stack
    <3>10. Fetching(0)'  BY <3>2, <3>3, <3>6, <3>9 DEF Fetching
    <3> QED  BY <1>1, <1>3, <3>7, <3>10, NamespaceStep
  <2> QED  BY <2>3, <2>4
<1> QED  BY <1>6, <1>7

(* The next of an account's namespaces.                                    *)
LEMMA HierarchiesLineage ==
    ASSUME LineageInv, ChainType', buildNamespacesHierarchy
    PROVE  LineageInv'
<1>1. Now("hierarchies") /\ UNCHANGED <<call, found, lineages>> /\ StackType
  BY DEF buildNamespacesHierarchy, LineageInv
<1>2. /\ call.op = "GetNamespaceInfosFromAccount" /\ todo = <<Do("hierarchies")>>
      /\ \A r \in DOMAIN lineages : Len(lineages[r]) = 1
  BY <1>1, RestingTasks
<1>3. call.op \in NamespaceCalls  BY <1>2 DEF NamespaceCalls
<1>4. FoundInv'  BY <1>1, SameFound
<1>5. CASE lineages = <<>>
  <2>1. Then(<<>>)  BY <1>5 DEF buildNamespacesHierarchy
  <2>2. todo' = <<>>  BY <1>2, <2>1, RestOfTasks DEF Then
  <2>3. Resting' /\ StackType'  BY <1>1, <2>2, ShortLists DEF Resting, StackType
  <2> QED  BY <1>1, <1>3, <1>4, <2>3, NamespaceStep
<1>6. CASE lineages # <<>>
  <2> DEFINE a == Task("hierarchy", NoNamespace, 1)
             b == Do("collect")
             c == Do("hierarchies")
             s == <<Do("hierarchies")>>
  <2>1. Then(<<a, b, c>>)  BY <1>6 DEF buildNamespacesHierarchy
  <2>2. {"hierarchy", "collect", "hierarchies"} \subseteq TaskNames  BY DEF TaskNames
  <2>3. a \in Tasks /\ b \in Tasks /\ c \in Tasks  BY <2>2, TaskParts
  <2>4. a.k = 1 /\ a = Task("hierarchy", NoNamespace, a.k) /\ b = Do("collect")
        /\ c = Do("hierarchies")
    BY TaskParts
  <2>5. s \in Seq(Tasks) /\ s # <<>> /\ Len(s) = 1  BY <2>3, ShortLists
  <2>6. todo' = <<a, b, c>> \o Tail(s)  BY <1>2, <2>1 DEF Then
  <2> HIDE DEF a, b, c, s
  <2>7. /\ todo' \in Seq(Tasks) /\ Len(todo') = 3
        /\ todo'[1] = a /\ todo'[2] = b /\ todo'[3] = c
    <3>1. Len(s) + 2 = 3  BY <2>5
    <3> QED  BY <2>3, <2>5, <2>6, <3>1, Put3
  <2>8. StackType'  BY <1>1, <2>7 DEF StackType
  <2>9. Base(2)'
    <3>1. /\ Len(todo') = 2 + 1 /\ todo'[2] = Do("collect")
          /\ todo'[2 + 1] = Do("hierarchies")
      <4>1. 2 + 1 = 3  OBVIOUS
      <4> QED  BY <2>4, <2>7, <4>1
    <3> QED  BY <1>1, <1>2, <3>1 DEF Base
  <2>10. 1 <= Len(lineages) /\ Len(lineages) \in Nat /\ 1 \in DOMAIN lineages
    BY <1>1, <1>6 DEF StackType
  <2>11. Stack(1, 1, 0)'
    <3>1. 1 + 2 * 0 + 1 = 2 /\ 1 + 0 = 1 /\ 1..0 = {}  OBVIOUS
    <3>2. \A r \in 1 + 0 + 1..Len(lineages) : r \in DOMAIN lineages
      BY <1>1, <2>10 DEF StackType
    <3>3. \A r \in 1 + 0 + 1..Len(lineages) : Len(lineages[r]) = 1  BY <1>2, <3>2
    <3>4. About(First(1))'  BY <1>1, <1>2 DEF About
    <3> QED  BY <1>1, <2>9, <2>10, <3>1, <3>3, <3>4 DEF Stack
  <2>12. Climbing(0)'
    <3>1. Len(lineages[1]) = 1  BY <1>2, <2>10
    <3>2. Linked(lineages[1], Len(lineages[1]))  BY <3>1 DEF Linked
    <3>3. todo'[1] = Task("hierarchy", NoNamespace, todo'[1].k) /\ todo'[1].k = 1
      BY <2>4, <2>7
    <3> QED  BY <1>1, <2>11, <3>1, <3>2, <3>3 DEF Climbing
  <2> QED  BY <1>1, <1>3, <1>4, <2>8, <2>12, NamespaceStep
<1> QED  BY <1>5, <1>6

(* Each of them begins a lineage.                                          *)
LEMMA FromAccountLineage ==
    ASSUME LineageInv, ChainType', GetNamespaceInfosFromAccount
    PROVE  LineageInv'
<1>1. Now("namespaces") /\ UNCHANGED <<call, found>> /\ StackType
  BY DEF GetNamespaceInfosFromAccount, LineageInv
<1>2. call.op = "GetNamespaceInfosFromAccount" /\ todo = <<Do("namespaces")>>
  BY <1>1, RestingTasks
<1>3. call.op \in NamespaceCalls /\ FoundInv'
  BY <1>1, <1>2, SameFound DEF NamespaceCalls
<1>4. CASE \E how : Stop(how) /\ UNCHANGED lineages
  BY <1>1, <1>4, StopStep DEF StackType
<1>5. ASSUME NEW owned \in Lists(UNION {InfosOf(n) : n \in chain.live}, MaxInner),
             lineages' = [i \in DOMAIN owned |-> <<owned[i]>>],
             Then(<<Do("hierarchies")>>)
      PROVE  LineageInv'
  <2> DEFINE answers == UNION {InfosOf(n) : n \in chain.live}
  <2>1. PICK n \in Nat : owned \in [1..n -> answers]  BY BoundsAssumption DEF Lists
  <2>2. \A info \in answers : info \in Infos
    <3>1. ChainType /\ chain.live \subseteq Namespaces  BY DEF LineageInv, ChainType
    <3> QED  BY <3>1, AnswersTyped
  <2> HIDE DEF answers
  <2>3. ASSUME NEW i \in 1..n
        PROVE  lineages'[i] \in Seq(Infos) /\ Len(lineages'[i]) = 1
    <3>1. owned[i] \in Infos  BY <2>1, <2>2
    <3>2. lineages'[i] = <<owned[i]>>  BY <1>5, <2>1
    <3> QED  BY <3>1, <3>2
  <2>4. DOMAIN lineages' = 1..n /\ lineages' = [i \in 1..n |-> lineages'[i]]  BY <1>5, <2>1
  <2>5. lineages' \in [1..n -> Seq(Infos)]  BY <2>3, <2>4
  <2>6. lineages' \in Seq(Seq(Infos))  BY <2>5
  <2>7. \A r \in DOMAIN lineages' : Len(lineages'[r]) = 1  BY <2>3, <2>4
  <2>8. todo' = <<Do("hierarchies")>>
    <3>1. \A a, b : <<b>> \o Tail(<<a>>) = <<b>>  OBVIOUS
    <3> QED  BY <1>2, <1>5, <3>1 DEF Then
  <2>9. Resting'  BY <1>1, <1>2, <2>7, <2>8 DEF Resting
  <2>10. Do("hierarchies") \in Tasks  BY TaskParts DEF TaskNames
  <2>11. StackType'  BY <2>6, <2>8, <2>10, ShortLists DEF StackType
  <2> QED  BY <1>1, <1>3, <2>9, <2>11, NamespaceStep
<1> QED  BY <1>4, <1>5 DEF GetNamespaceInfosFromAccount

(* The infos of mosaics, or nil.                                           *)
LEMMA MosaicsLineage ==
    ASSUME LineageInv, ChainType', MakeNils \/ MosaicInfosOf \/ MosaicInfoOf
    PROVE  LineageInv'
<1>1. UNCHANGED <<call, lineages>> /\ StackType /\ lineages' \in Seq(Seq(Infos))
  BY DEF MakeNils, MosaicInfosOf, MosaicInfoOf, LineageInv, StackType
<1>2. ASSUME call.op \in {"GetMosaicInfoByAssetId", "GetMosaicInfosByAssetIds"}
      PROVE  FoundInv' /\ call.op \in NamespaceCalls
  BY <1>1, <1>2 DEF FoundInv, NamespaceCalls
<1>3. CASE \E how : Stop(how) /\ UNCHANGED found
  BY <1>1, <1>3, StopStep
<1>4. ASSUME NEW k \in Nat \ {0}, NEW t, todo = <<t, Task("ids", NoNamespace, k)>>,
             call.op = "GetMosaicInfosByAssetIds", Then(<<>>)
      PROVE  LineageInv'
  <2>1. todo' = <<Task("ids", NoNamespace, k)>>  BY <1>4, RestOfTasks DEF Then
  <2>2. Resting'  BY <1>1, <1>4, <2>1 DEF Resting
  <2>3. Task("ids", NoNamespace, k) \in Tasks  BY TaskParts DEF TaskNames
  <2>4. StackType'  BY <1>1, <2>1, <2>3, ShortLists DEF StackType
  <2> QED  BY <1>1, <1>2, <1>4, <2>2, <2>4, NamespaceStep
<1>5. ASSUME NEW t, todo = <<t>>, call.op = "GetMosaicInfoByAssetId", Then(<<>>)
      PROVE  LineageInv'
  <2>1. todo' = <<>>  BY <1>5, RestOfTasks DEF Then
  <2>2. Resting' /\ StackType'  BY <1>1, <2>1, ShortLists DEF Resting, StackType
  <2> QED  BY <1>1, <1>2, <1>5, <2>2, NamespaceStep
<1>6. CASE MakeNils
  <2>1. Now("nils") /\ Then(<<>>)  BY <1>6 DEF MakeNils
  <2>2. call.op = "GetMosaicInfosByAssetIds"
        /\ \E k \in Nat \ {0} : todo = <<Do("nils"), Task("ids", NoNamespace, k)>>
    BY <2>1, RestingTasks
  <2> QED  BY <1>4, <2>1, <2>2
<1>7. CASE MosaicInfosOf
  <2>1. Now("mosaics") /\ (Then(<<>>) \/ \E how : Stop(how) /\ UNCHANGED found)
    BY <1>7 DEF MosaicInfosOf
  <2>2. call.op = "GetMosaicInfosByAssetIds"
        /\ \E k \in Nat \ {0} : todo = <<Do("mosaics"), Task("ids", NoNamespace, k)>>
    BY <2>1, RestingTasks
  <2> QED  BY <1>3, <1>4, <2>1, <2>2
<1>8. CASE MosaicInfoOf
  <2>1. Now("mosaic") /\ (Then(<<>>) \/ \E how : Stop(how) /\ UNCHANGED found)
    BY <1>8 DEF MosaicInfoOf
  <2>2. \E id \in Mosaics :
            \/ /\ call.op = "GetMosaicInfoByAssetId"
               /\ todo = <<Task("mosaic", id, 0)>>
            \/ /\ call.op = "GetMosaicInfosByAssetIds"
               /\ \E k \in Nat \ {0} :
                      todo = <<Task("mosaic", id, 0), Task("ids", NoNamespace, k)>>
    BY <2>1, RestingTasks
  <2> QED  BY <1>3, <1>4, <1>5, <2>1, <2>2
<1> QED  BY <1>6, <1>7, <1>8

(***************************************************************************)
(* The other calls.                                                        *)
(***************************************************************************)

(* They do nothing about namespaces.                                       *)
LEMMA OtherStep ==
    ASSUME LineageInv, ChainType', UNCHANGED <<call, lineages, found>>,
           call.op \notin NamespaceCalls, todo # <<>>,
           \/ UNCHANGED todo
           \/ \E how : Stop(how)
           \/ \E s \in {<<>>, <<Do("map")>>} : Then(s)
    PROVE  LineageInv'
<1>1. call # NoCall /\ StackType /\ OtherShape /\ lineages' \in Seq(Seq(Infos))
  BY DEF LineageInv, StartInv, StackType
<1>2. CASE \E how : Stop(how)  BY <1>1, <1>2, StopStep
<1>3. ASSUME todo' \in Seq(Tasks), \A i \in DOMAIN todo' : todo'[i].do \in OtherTasks
      PROVE  LineageInv'
  <2>1. OtherShape' /\ NamespaceShape' /\ StackType'
    BY <1>1, <1>3 DEF OtherShape, NamespaceShape, StackType
  <2>2. FoundInv' /\ IdsType' /\ StartInv'
    BY <1>1, SameFound DEF LineageInv, IdsType, StartInv
  <2> QED  BY <2>1, <2>2 DEF LineageInv
<1>4. todo \in Seq(Tasks) /\ \A i \in DOMAIN todo : todo[i].do \in OtherTasks
  BY <1>1 DEF StackType, OtherShape
<1>5. CASE UNCHANGED todo  BY <1>3, <1>4, <1>5
<1>6. CASE Then(<<>>)
  <2>1. todo' = <<>> \o Tail(todo)  BY <1>6 DEF Then
  <2>2. /\ todo' \in Seq(Tasks) /\ Len(todo') = Len(todo) - 1 /\ Len(todo) \in Nat
        /\ \A i \in 1..Len(todo') : todo'[i] = todo[i + 1]
    BY <1>4, <2>1, Pop
  <2>3. ASSUME NEW i \in DOMAIN todo' PROVE todo'[i].do \in OtherTasks
    <3>1. i \in 1..Len(todo') /\ i + 1 \in DOMAIN todo  BY <1>4, <2>2
    <3> QED  BY <1>4, <2>2, <3>1
  <2> QED  BY <1>3, <2>2, <2>3
<1>7. CASE Then(<<Do("map")>>)
  <2> DEFINE t == Do("map")
  <2>1. t \in Tasks /\ t.do \in OtherTasks  BY TaskParts DEF TaskNames, OtherTasks
  <2> HIDE DEF t
  <2>2. todo' = <<t>> \o Tail(todo)  BY <1>7 DEF Then, t
  <2>3. /\ todo' \in Seq(Tasks) /\ Len(todo') = Len(todo) /\ Len(todo) \in Nat
        /\ todo'[1] = t /\ \A i \in 2..Len(todo') : todo'[i] = todo[i]
    BY <1>4, <2>1, <2>2, Put1
  <2>4. ASSUME NEW i \in DOMAIN todo' PROVE todo'[i].do \in OtherTasks
    <3>1. i \in DOMAIN todo /\ (i = 1 \/ i \in 2..Len(todo'))  BY <1>4, <2>3
    <3> QED  BY <1>4, <2>1, <2>3, <3>1
  <2> QED  BY <1>3, <2>3, <2>4
<1> QED  BY <1>2, <1>5, <1>6, <1>7

(* A call that is not about namespaces takes a step.                       *)
LEMMA OtherLineage ==
    ASSUME LineageInv, ChainType',
           \/ AskHeight \/ AskAtHeight \/ AskBlock \/ (\E one \in BOOLEAN : AskTransactions(one))
           \/ MapTransactions \/ AssertAggregates
    PROVE  LineageInv'
<1>1. ASSUME NEW name, Now(name), name \in OtherTasks \ {"refuse"}
      PROVE  call.op \notin NamespaceCalls /\ todo # <<>>
  BY <1>1, Where DEF Now
<1>2. {"height", "at height", "block", "transaction", "transactions", "map", "assert"}
          \subseteq OtherTasks \ {"refuse"}
  BY DEF OtherTasks
<1>3. CASE AskHeight
  BY <1>1, <1>2, <1>3, OtherStep DEF AskHeight
<1>4. CASE AskAtHeight
  BY <1>1, <1>2, <1>4, OtherStep DEF AskAtHeight
<1>5. CASE AskBlock
  BY <1>1, <1>2, <1>5, OtherStep DEF AskBlock
<1>6. CASE \E one \in BOOLEAN : AskTransactions(one)
  BY <1>1, <1>2, <1>6, OtherStep DEF AskTransactions
<1>7. CASE MapTransactions
  <2>1. Now("map") /\ UNCHANGED <<call, lineages, found>>
    BY <1>7, MapSteps DEF MapTransactions
  <2>2. UNCHANGED todo \/ (\E how : Stop(how)) \/ Then(<<>>)
    BY <1>7, MapSteps DEF MapReturns
  <2> QED  BY <1>1, <1>2, <2>1, <2>2, OtherStep
<1>8. CASE AssertAggregates
  BY <1>1, <1>2, <1>8, OtherStep DEF AssertAggregates
<1> QED  BY <1>3, <1>4, <1>5, <1>6, <1>7, <1>8

(* A call begins.                                                          *)
LEMMA CallsLineage ==
    ASSUME LineageInv, ChainType', Calls
    PROVE  LineageInv'
<1>1. call = NoCall /\ found = <<>> /\ StackType /\ UNCHANGED <<lineages, found>>
  BY DEF Calls, Call, Begin, LineageInv, StartInv
<1>2. found' = <<>> /\ DOMAIN found' = {} /\ found' \in Seq(Seq(Infos))  BY <1>1
<1>3. FoundInv'  BY <1>2 DEF FoundInv
<1>4. ASSUME todo' \in Seq(Tasks), call'.op \in NamespaceCalls,
             call'.op # "GetMosaicInfosByAssetIds" \/ call'.ids \in Seq(Namespaces \cup Mosaics),
             Resting' \/ Fetching(0)'
      PROVE  LineageInv'
  <2>1. call' # NoCall  BY <1>4 DEF NoCall, NamespaceCalls
  <2>2. NamespaceShape' /\ OtherShape' /\ IdsType' /\ StartInv' /\ StackType'
    BY <1>1, <1>4, <2>1 DEF NamespaceShape, OtherShape, IdsType, StartInv, StackType
  <2> QED  BY <1>3, <2>2 DEF LineageInv
<1>5. ASSUME todo' \in Seq(Tasks), call'.op \notin NamespaceCalls, call' # NoCall \/ todo' = <<>>,
             \A i \in DOMAIN todo' : todo'[i].do \in OtherTasks
      PROVE  LineageInv'
  <2>1. call'.op # "GetMosaicInfosByAssetIds"  BY <1>5 DEF NamespaceCalls
  <2>2. NamespaceShape' /\ OtherShape' /\ IdsType' /\ StartInv' /\ StackType'
    BY <1>1, <1>2, <1>5, <2>1 DEF NamespaceShape, OtherShape, IdsType, StartInv, StackType
  <2> QED  BY <1>3, <2>2 DEF LineageInv
<1>6. ASSUME NEW op \in DOMAIN Methods, Call(op) PROVE LineageInv'
  <2>1. todo' = <<>> /\ call' = [op |-> op, ids |-> <<>>]  BY <1>6 DEF Call, Stop
  <2>2. DOMAIN todo' = {} /\ todo' \in Seq(Tasks)  BY <2>1
  <2>3. op \notin NamespaceCalls  BY DEF Methods, NamespaceCalls
  <2> QED  BY <1>5, <2>1, <2>2, <2>3
<1>7. ASSUME NEW op, NEW tasks, NEW a \in OtherTasks, Begin(op, <<>>, tasks), op # "none",
             op \notin NamespaceCalls,
             \/ tasks = <<Do(a)>>
             \/ \E b \in OtherTasks : tasks = <<Do(a), Do(b)>>
      PROVE  LineageInv'
  <2>1. todo' = tasks /\ call'.op = op /\ call' # NoCall  BY <1>7 DEF Begin, NoCall
  <2>2. OtherTasks \subseteq TaskNames  BY DEF OtherTasks, TaskNames
  <2>3. \A b \in OtherTasks : Do(b) \in Tasks /\ Do(b).do = b  BY <2>2, TaskParts
  <2>4. CASE tasks = <<Do(a)>>
    <3>1. todo' \in Seq(Tasks) /\ Len(todo') = 1 /\ todo'[1] = Do(a)
      BY <2>1, <2>3, <2>4, ShortLists
    <3>2. DOMAIN todo' = {1}  BY <3>1
    <3> QED  BY <1>5, <1>7, <2>1, <2>3, <3>1, <3>2
  <2>5. ASSUME NEW b \in OtherTasks, tasks = <<Do(a), Do(b)>> PROVE LineageInv'
    <3>1. todo' \in Seq(Tasks) /\ Len(todo') = 2 /\ todo'[1] = Do(a) /\ todo'[2] = Do(b)
      BY <2>1, <2>3, <2>5, ShortLists
    <3>2. \A i \in DOMAIN todo' : i = 1 \/ i = 2  BY <3>1
    <3>3. \A i \in DOMAIN todo' : todo'[i].do \in OtherTasks  BY <2>3, <3>1, <3>2
    <3> QED  BY <1>5, <1>7, <2>1, <3>1, <3>3
  <2> QED  BY <1>7, <2>4, <2>5
<1>8. ASSUME NEW op \in NamespaceCalls, NEW ids, NEW a \in TaskNames,
             Begin(op, ids, <<Do(a)>>),
             op # "GetMosaicInfosByAssetIds" \/ ids \in Seq(Namespaces \cup Mosaics),
             a = "refuse" \/ (a = "namespaces" /\ op = "GetNamespaceInfosFromAccount")
      PROVE  LineageInv'
  <2>1. todo' = <<Do(a)>> /\ call'.op = op /\ call'.ids = ids  BY <1>8 DEF Begin
  <2>2. todo' \in Seq(Tasks)  BY <2>1, TaskParts, ShortLists
  <2>3. Resting'  BY <1>8, <2>1 DEF Resting
  <2> QED  BY <1>4, <1>8, <2>1, <2>2, <2>3
<1>9. ASSUME NEW op, NEW n \in Namespaces, NEW a \in TaskNames,
             Begin(op, <<n>>, <<Task("namespace", n, 0), Do(a)>>),
             \/ op = "GetNamespaceInfo" /\ a = "collect"
             \/ op \in {"GetLinkedMosaicId", "GetLinkedAddress"} /\ a = "alias"
             \/ op = "GetMosaicInfoByAssetId" /\ a = "resolve"
      PROVE  LineageInv'
  <2> DEFINE t == Task("namespace", n, 0)
             u == Do(a)
  <2>1. todo' = <<t, u>> /\ call'.op = op /\ call'.ids = <<n>>  BY <1>9 DEF Begin
  <2>2. t \in Tasks /\ u \in Tasks /\ t.id = n /\ t = Task("namespace", t.id, 0)
    <3>1. "namespace" \in TaskNames  BY DEF TaskNames
    <3> QED  BY <3>1, TaskParts
  <2>3. u = Do(a)  OBVIOUS
  <2> HIDE DEF t, u
  <2>4. todo' \in Seq(Tasks) /\ Len(todo') = 2 /\ todo'[1] = t /\ todo'[2] = u
    BY <2>1, <2>2, ShortLists
  <2>5. StackType'  BY <1>1, <2>4 DEF StackType
  <2>6. Base(2)'  BY <1>9, <2>1, <2>3, <2>4 DEF Base
  <2>7. Stack(1, 0, 0)'
    <3>1. 1 + 2 * 0 + 1 = 2 /\ 0 + 0 = 0 /\ 1..0 = {}  OBVIOUS
    <3>2. 0 <= Len(lineages')  BY <2>5 DEF StackType
    <3>3. First(0)' = n  BY <2>2, <2>4 DEF First
    <3>4. call'.ids[1] = n  BY <2>1
    <3>5. call'.op # "GetNamespaceInfosFromAccount"  BY <1>9, <2>1
    <3>6. About(First(0))'  BY <1>9, <2>1, <3>3, <3>4 DEF About
    <3> QED  BY <2>6, <3>1, <3>2, <3>5, <3>6 DEF Stack
  <2>8. Fetching(0)'  BY <2>2, <2>4, <2>7 DEF Fetching
  <2>9. op \in NamespaceCalls /\ op # "GetMosaicInfosByAssetIds"  BY <1>9 DEF NamespaceCalls
  <2> QED  BY <1>4, <2>1, <2>4, <2>8, <2>9
<1>10. CASE \E op \in Guarded : Begin(op, <<>>, <<Do("refuse")>>)
  <2>1. PICK op \in Guarded : Begin(op, <<>>, <<Do("refuse")>>)  BY <1>10
  <2>2. "refuse" \in OtherTasks /\ "refuse" \in TaskNames /\ op # "none"
    BY DEF OtherTasks, TaskNames, Guarded, NamespaceCalls
  <2>3. <<>> \in Seq(Namespaces \cup Mosaics)  OBVIOUS
  <2>4. CASE op \in NamespaceCalls  BY <1>8, <2>1, <2>2, <2>3, <2>4
  <2>5. CASE op \notin NamespaceCalls  BY <1>7, <2>1, <2>2, <2>5
  <2> QED  BY <2>4, <2>5
<1>11. ASSUME NEW n \in Namespaces,
              \/ Begin("GetNamespaceInfo", <<n>>, <<Task("namespace", n, 0), Do("collect")>>)
              \/ Begin("GetLinkedMosaicId", <<n>>, GetLinkedMosaicId(n))
              \/ Begin("GetLinkedAddress", <<n>>, GetLinkedAddress(n))
       PROVE  LineageInv'
  <2>1. {"collect", "alias"} \subseteq TaskNames  BY DEF TaskNames
  <2> QED  BY <1>9, <1>11, <2>1 DEF GetLinkedMosaicId, GetLinkedAddress
<1>12. CASE Begin("GetNamespaceInfosFromAccount", <<>>, <<Do("namespaces")>>)
  <2>1. "namespaces" \in TaskNames /\ "GetNamespaceInfosFromAccount" \in NamespaceCalls
    BY DEF TaskNames, NamespaceCalls
  <2> QED  BY <1>8, <1>12, <2>1
<1>13. ASSUME NEW id \in Namespaces \cup Mosaics,
              Begin("GetMosaicInfoByAssetId", <<id>>, ByAssetId(id))
       PROVE  LineageInv'
  <2>1. CASE id \in Mosaics
    <3> DEFINE t == Task("mosaic", id, 0)
    <3>1. todo' = <<t>> /\ call'.op = "GetMosaicInfoByAssetId"
      BY <1>13, <2>1 DEF Begin, ByAssetId
    <3>2. t \in Tasks  BY TaskParts DEF TaskNames
    <3>3. todo' \in Seq(Tasks)  BY <3>1, <3>2, ShortLists
    <3>4. Resting'  BY <2>1, <3>1 DEF Resting
    <3> QED  BY <1>4, <3>1, <3>3, <3>4 DEF NamespaceCalls
  <2>2. CASE id \notin Mosaics
    <3>1. id \in Namespaces /\ "resolve" \in TaskNames  BY <2>2 DEF TaskNames
    <3> QED  BY <1>9, <1>13, <2>2, <3>1 DEF ByAssetId
  <2> QED  BY <2>1, <2>2
<1>14. ASSUME NEW ids \in Lists(Namespaces \cup Mosaics, MaxInner),
              Begin("GetMosaicInfosByAssetIds", ids, GetMosaicInfosByAssetIds(ids))
       PROVE  LineageInv'
  <2>1. ids \in Seq(Namespaces \cup Mosaics)
    <3>1. PICK n \in Nat : ids \in [1..n -> Namespaces \cup Mosaics]
      BY BoundsAssumption DEF Lists
    <3> QED  BY <3>1
  <2>2. CASE ids = <<>>
    <3>1. "refuse" \in TaskNames /\ "GetMosaicInfosByAssetIds" \in NamespaceCalls
      BY DEF TaskNames, NamespaceCalls
    <3> QED  BY <1>8, <1>14, <2>1, <2>2, <3>1 DEF GetMosaicInfosByAssetIds
  <2>3. CASE ids # <<>>
    <3> DEFINE a == IF MosaicsOf(ids) = <<>> THEN "nils" ELSE "mosaics"
               u == Task("ids", NoNamespace, 1)
    <3>1. todo' = <<Do(a), u>> /\ call'.op = "GetMosaicInfosByAssetIds" /\ call'.ids = ids
      BY <1>14, <2>3 DEF Begin, GetMosaicInfosByAssetIds
    <3>2. a \in {"nils", "mosaics"}  OBVIOUS
    <3> HIDE DEF a
    <3>3. Resting'
      <4>1. 1 \in Nat \ {0}  OBVIOUS
      <4> QED  BY <3>1, <3>2, <4>1 DEF Resting
    <3>4. Do(a) \in Tasks /\ u \in Tasks  BY <3>2, TaskParts DEF TaskNames
    <3>5. todo' \in Seq(Tasks)  BY <3>1, <3>4, ShortLists
    <3> QED  BY <1>4, <2>1, <3>1, <3>3, <3>5 DEF NamespaceCalls
  <2> QED  BY <2>2, <2>3
<1>15. CASE \/ Begin("GetNetworkConfig", <<>>, GetNetworkConfig)
            \/ Begin("GetNetworkVersion", <<>>, GetNetworkVersion)
            \/ Begin("findTransactions", <<>>, findTransactions)
            \/ Begin("AggregateBondedTransactions", <<>>, AggregateBondedTransactions)
            \/ Begin("GetBlockTransactions", <<>>, GetBlockTransactions)
            \/ Begin("GetTransactions", <<>>, GetTransactions)
            \/ Begin("GetTransaction", <<>>, GetTransaction)
            \/ Begin("GetTransactionEffectiveFee", <<>>, GetTransactionEffectiveFee)
  <2>1. /\ GetNetworkConfig = <<Do("height"), Do("at height")>>
        /\ GetNetworkVersion = <<Do("height"), Do("at height")>>
        /\ findTransactions = <<Do("transactions")>>
        /\ AggregateBondedTransactions = <<Do("transactions"), Do("assert")>>
        /\ GetBlockTransactions = <<Do("transactions")>>
        /\ GetTransactions = <<Do("transactions")>> /\ GetTransaction = <<Do("transaction")>>
        /\ GetTransactionEffectiveFee = <<Do("transaction"), Do("block")>>
    BY TwoTasks DEF GetNetworkConfig, GetNetworkVersion, findTransactions,
       AggregateBondedTransactions, GetBlockTransactions, GetTransactions, GetTransaction,
       GetTransactionEffectiveFee
  <2>2. {"height", "at height", "transaction", "transactions", "assert", "block"}
            \subseteq OtherTasks
    BY DEF OtherTasks
  <2>3. {"GetNetworkConfig", "GetNetworkVersion", "findTransactions",
         "AggregateBondedTransactions", "GetBlockTransactions", "GetTransactions",
         "GetTransaction", "GetTransactionEffectiveFee"} \cap NamespaceCalls = {}
    BY DEF NamespaceCalls
  <2>4. CASE \/ Begin("findTransactions", <<>>, findTransactions)
             \/ Begin("GetBlockTransactions", <<>>, GetBlockTransactions)
             \/ Begin("GetTransactions", <<>>, GetTransactions)
             \/ Begin("GetTransaction", <<>>, GetTransaction)
    BY <1>7, <2>1, <2>2, <2>3, <2>4
  <2>5. CASE \/ Begin("GetNetworkConfig", <<>>, GetNetworkConfig)
             \/ Begin("GetNetworkVersion", <<>>, GetNetworkVersion)
    BY <1>7, <2>1, <2>2, <2>3, <2>5
  <2>6. CASE \/ Begin("AggregateBondedTransactions", <<>>, AggregateBondedTransactions)
             \/ Begin("GetTransactionEffectiveFee", <<>>, GetTransactionEffectiveFee)
    BY <1>7, <2>1, <2>2, <2>3, <2>6
  <2> QED  BY <1>15, <2>4, <2>5, <2>6
<1> QED  BY <1>6, <1>10, <1>11, <1>12, <1>13, <1>14, <1>15 DEF Calls

(* Nothing of this depends on the chain.                                   *)
LEMMA SameLineage ==
    ASSUME LineageInv, ChainType', UNCHANGED <<call, todo, lineages, found>>
    PROVE  LineageInv'
<1>1. \A l : First(l)' = First(l)  BY DEF First
<1>2. \A b : Base(b)' <=> Base(b)  BY DEF Base
<1>3. \A t, l : Frame(t, l)' <=> Frame(t, l)  BY <1>1 DEF Frame
<1>4. \A o, h, m : Stack(o, h, m)' <=> Stack(o, h, m)
  <2>1. \A l : About(First(l))' <=> About(First(l))  BY <1>1 DEF About
  <2> QED  BY <1>1, <1>2, <1>3, <2>1 DEF Stack
<1>5. \A m : /\ Fetching(m)' <=> Fetching(m)
             /\ Climbing(m)' <=> Climbing(m)
             /\ Built(m)' <=> Built(m)
  BY <1>4 DEF Fetching, Climbing, Built
<1>6. Resting' <=> Resting  BY DEF Resting
<1>7. NamespaceShape'  BY <1>5, <1>6 DEF LineageInv, NamespaceShape
<1>8. StackType' /\ OtherShape' /\ FoundInv' /\ IdsType' /\ StartInv'
  BY DEF LineageInv, StackType, OtherShape, FoundInv, IdsType, StartInv
<1> QED  BY <1>7, <1>8 DEF LineageInv

(* It holds at the beginning,                                              *)
LEMMA InitLineage == Init => LineageInv
<1> SUFFICES ASSUME Init PROVE LineageInv  OBVIOUS
<1>1. call = NoCall /\ todo = <<>> /\ found = <<>> /\ lineages = <<>>  BY DEF Init
<1>2. DOMAIN todo = {} /\ DOMAIN found = {} /\ todo \in Seq(Tasks)
      /\ lineages \in Seq(Seq(Infos)) /\ found \in Seq(Seq(Infos))
  BY <1>1
<1>3. ChainType  BY InitHeight DEF HeightInv
<1>4. call.op = "none"  BY <1>1 DEF NoCall
<1>5. StackType /\ NamespaceShape /\ OtherShape /\ FoundInv /\ IdsType /\ StartInv
  BY <1>1, <1>2, <1>4
     DEF StackType, NamespaceShape, Resting, OtherShape, FoundInv, IdsType, StartInv
<1> QED  BY <1>3, <1>5 DEF LineageInv

(* and every step keeps it.                                                *)
LEMMA StepLineage == LineageInv /\ HeightInv' /\ [Next]_vars => LineageInv'
<1> SUFFICES ASSUME LineageInv, HeightInv', [Next]_vars PROVE LineageInv'  OBVIOUS
<1>1. ChainType'  BY DEF HeightInv
<1>2. CASE Calls  BY <1>1, <1>2, CallsLineage
<1>3. CASE GetNamespaceInfo  BY <1>1, <1>3, GetNamespaceInfoLineage
<1>4. CASE buildNamespaceHierarchy  BY <1>1, <1>4, HierarchyLineage
<1>5. CASE SetParent  BY <1>1, <1>5, SetParentLineage
<1>6. CASE Collect  BY <1>1, <1>6, CollectLineage
<1>7. CASE GetNamespaceInfosFromAccount  BY <1>1, <1>7, FromAccountLineage
<1>8. CASE buildNamespacesHierarchy  BY <1>1, <1>8, HierarchiesLineage
<1>9. CASE GetLinked  BY <1>1, <1>9, GetLinkedLineage
<1>10. CASE RefuseIds
  BY <1>1, <1>10, StopStep DEF RefuseIds, LineageInv, StackType
<1>11. CASE MakeNils \/ MosaicInfosOf \/ MosaicInfoOf  BY <1>1, <1>11, MosaicsLineage
<1>12. CASE NamespaceIds  BY <1>1, <1>12, NamespaceIdsLineage
<1>13. CASE Resolve  BY <1>1, <1>13, ResolveLineage
<1>14. CASE \/ AskHeight \/ AskAtHeight \/ AskBlock
            \/ (\E one \in BOOLEAN : AskTransactions(one))
            \/ MapTransactions \/ AssertAggregates
  BY <1>1, <1>14, OtherLineage
<1>15. CASE Relink \/ Expire \/ Rollback
  BY <1>1, <1>15, SameLineage DEF Relink, Expire, Rollback, Between
<1>16. CASE UNCHANGED vars  BY <1>1, <1>16, SameLineage DEF vars
<1> QED
  BY <1>2, <1>3, <1>4, <1>5, <1>6, <1>7, <1>8, <1>9, <1>10, <1>11, <1>12, <1>13, <1>14,
     <1>15, <1>16 DEF Next

(* So it always holds, with what holds of the height.                      *)
LEMMA LineageInvariant == Spec => [](LineageInv /\ HeightInv)
<1>1. Init => LineageInv /\ HeightInv  BY InitLineage, InitHeight
<1>2. LineageInv /\ HeightInv /\ [Next]_vars => (LineageInv /\ HeightInv)'
  BY StepLineage, StepHeight
<1> QED  BY <1>1, <1>2, PTL DEF Spec

(***************************************************************************)
(* The theorems.                                                           *)
(***************************************************************************)

(* The NamespaceInfos that GetNamespaceInfo and                            *)
(* GetNamespaceInfosFromAccount return carry their whole lineage, up to a  *)
(* root, however deep it is and whatever expires between the requests.     *)
THEOREM WholeLineage == Spec => []LineageComplete
<1>1. LineageInv => LineageComplete
  BY DEF LineageInv, FoundInv, LineageComplete, Complete, Linked, Rooted
<1> QED  BY LineageInvariant, <1>1, PTL

(* The state has its type, and the error that a goroutine leaves is that   *)
(* of a transaction of the list.                                           *)
THEOREM TypeCorrect == Spec => []TypeOK
<1>1. LineageInv /\ HeightInv /\ MapInv => TypeOK
  <2> SUFFICES ASSUME LineageInv, HeightInv, MapInv PROVE TypeOK  OBVIOUS
  <2>1. end \in {"ok", "error", "panic"}  BY DEF MapInv, ThroughInv, Outcomes
  <2>2. told \in 0..MaxHeight /\ chain.live \subseteq Namespaces
    BY DEF HeightInv, ChainType
  <2>3. ASSUME NEW i \in DOMAIN lineages, NEW k \in DOMAIN lineages[i]
        PROVE  lineages[i][k].ns \in Namespaces
    <3>1. lineages[i] \in Seq(Infos)  BY <2>3 DEF LineageInv, StackType
    <3>2. lineages[i][k] \in Infos  BY <2>3, <3>1
    <3> QED  BY <3>2 DEF Infos
  <2>4. DOMAIN work = Places /\ DOMAIN errs = Places
        /\ \A p \in DOMAIN errs : errs[p] \in Places \cup {<<>>}
    BY DEF MapInv, MappingType
  <2> QED  BY <2>1, <2>2, <2>3, <2>4 DEF TypeOK
<1> QED  BY LineageInvariant, MapInvariant, <1>1, PTL

===============================================================================

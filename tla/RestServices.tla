---------------------------- MODULE RestServices ----------------------------
(***************************************************************************)
(* The services of sdk.Client (sdk/account.go, blockchain.go, contract.go, *)
(* metadata.go, mosaic.go, namespace.go, network.go, resolver.go,          *)
(* transaction.go): what a call makes of its arguments, of the answers of  *)
(* the node and of the chain, which may change between two requests of one *)
(* call.  The services keep no state, so a behaviour is one call.  How a   *)
(* request is sent is in NodeFailover.                                     *)
(***************************************************************************)
EXTENDS Conversions

LOCAL INSTANCE FiniteSetsExt

CONSTANTS
    Namespaces,     \* the namespaces of the chain,
    Parent,         \* their parents,
    NoNamespace,    \* the parent of a root,
    Mosaics,        \* the mosaics,
    NoMosaic,       \* the alias of a namespace that is not aliased to a mosaic
    MaxHeight,      \* the height of the chain,
    MaxChanges,     \* how often the chain changes during a call
    MaxList,        \* how long a list of transactions or of ids is,
    MaxInner        \* and one of inner transactions

ASSUME ParentAssumption ==
    /\ Parent \in [Namespaces -> Namespaces \cup {NoNamespace}]
    /\ NoNamespace \notin Namespaces /\ NoMosaic \notin Mosaics
    /\ Namespaces \cap Mosaics = {}

ASSUME BoundsAssumption == MaxHeight \in Nat /\ MaxList \in Nat /\ MaxInner \in Nat

VARIABLES
    call,       \* the method called, with the ids it was given
    todo,       \* what it still has to do, innermost first
    end,        \* "ok" until it fails
    passed,     \* the malformed fields it let through
    requests,   \* the requests it made
    lineages,   \* the NamespaceInfos under construction, each with its parents
    found,      \* what it returns: infos, or nil
    told,       \* the height it was told
    items,      \* the transactions to be mapped,
    work,       \* the goroutines that map them,
    errs,       \* the errors they found, as the place of the transaction
    chain,      \* namespaces, aliases and height as the node knows them
    aliases,    \* the aliases there have been since the call began
    changes

mapping == <<items, work, errs>>
ledger == <<chain, aliases, changes>>
vars == <<call, todo, end, passed, requests, lineages, found, told, mapping, ledger>>

(***************************************************************************)
(* Requests.                                                               *)
(***************************************************************************)
Refusal == [end |-> "error", passed |-> {}]
Nothing == [end |-> "ok", passed |-> {}]
Panic == [end |-> "panic", passed |-> {}]

(* no node reachable; status 404; another status that is not 2xx; a status *)
(* that is 2xx and neither 200 nor 202; a body that is not JSON of the     *)
(* right shape; no body; null; an object or a list.                        *)
Responses == {"unreachable", "404", "5xx", "204", "undecodable", "empty", "null", "body"}

(* Client.do: an error of the transport, HttpError, an error of the        *)
(* decoder.  The end of a body that never began is not an error.           *)
doNewRequest(response) == response \in {"unreachable", "404", "5xx", "undecodable"}

(* Its table of errors for 400, 404 and 409 is never reached: do has       *)
(* returned before.                                                        *)
handleResponseStatusCode(response) == response = "204"

(* What the decoder fills: a struct; a pointer to one, which null makes    *)
(* nil; a list; a list made beforehand, as long as that of the ids, of     *)
(* nils, on which toStruct is called when nothing is decoded into it.      *)
Decoded(target, dtos, response) ==
    CASE response = "body" -> UNION {toStruct(dto) : dto \in dtos}
      [] response = "empty" /\ target \in {"struct", "pointer"} -> {Zero(dto) : dto \in dtos}
      [] response = "null" /\ target = "struct" -> {Zero(dto) : dto \in dtos}
      [] response = "null" /\ target = "pointer" -> {Panic}
      [] response = "empty" /\ target = "nils" -> {Nothing, Panic}
      [] OTHER -> {Nothing}

(* What a method makes of a response.                                      *)
Answered(target, dtos, response) ==
    IF doNewRequest(response) \/ handleResponseStatusCode(response) THEN {Refusal}
    ELSE Decoded(target, dtos, response)

(* MetadataService.getMetadata: nothing found is metadata without fields.  *)
getMetadata(dto, response) ==
    IF response = "404" THEN {Zero(dto)} ELSE Answered("struct", {dto}, response)

Every(Replies(_)) == UNION {Replies(response) : response \in Responses}

(***************************************************************************)
(* The methods that make one request: what their tests of the arguments    *)
(* refuse, the arguments they do not survive, and the possible answers.    *)
(***************************************************************************)
Method(refuses, panics, replies) ==
    [refuses |-> refuses, panics |-> panics, replies |-> replies]

Get(dtos) == Every(LAMBDA response : Answered("struct", dtos, response))
GetPointer(dtos) == Every(LAMBDA response : Answered("pointer", dtos, response))
GetNils(dtos) == Every(LAMBDA response : Answered("nils", {ListOf(d) : d \in dtos}, response))
GetList(dtos) == Every(LAMBDA response : Answered("list", {ListOf(d) : d \in dtos}, response))

AccountProperties ==
    {accountPropertiesDTO(v) : v \in {"addresses", "mosaicIds", "entityTypes", "dropped"}}
AccountInfos == {accountInfoDTO(linked) : linked \in BOOLEAN}
BlockInfos == {blockInfoDTO(beneficiary) : beneficiary \in BOOLEAN}
NamespaceInfos == {namespaceInfoDTO(type) : type \in {"address", "mosaic", "none"}}

GetAccountProperties == Method({"nil", "blank"}, {}, Get(AccountProperties))
GetAccountsProperties == Method({"none"}, {"nil element"}, GetList(AccountProperties))
GetAccountInfo == Method({"nil", "blank"}, {}, Get(AccountInfos))
GetAccountsInfo == Method({"none"}, {"nil element"}, GetList(AccountInfos))
GetMultisigAccountInfo == Method({"nil"}, {}, Get({multisigAccountInfoDTO}))
GetMultisigAccountGraphInfo ==
    Method({"nil"}, {}, Every(LAMBDA response :
        Answered("list", {multisigAccountGraphInfoDTOS}, response)))
GetAccountNames == Method({"none"}, {"nil element"}, GetList({accountNamesDTO}))

GetNamespaceNames == Method({"none"}, {"nil element"}, GetList({namespaceNameDTO}))

GetAddressMetadatasInfo == Method({"none"}, {}, GetList({addressMetadataInfoDTO}))
GetMosaicMetadatasInfo == Method({"none"}, {"nil element"}, GetList({mosaicMetadataInfoDTO}))
GetNamespaceMetadatasInfo ==
    Method({"none"}, {"nil element"}, GetList({namespaceMetadataInfoDTO}))

(* Metadata of no type gets the address that was asked about, which has to *)
(* be one then.                                                            *)
GetMetadataByAddress ==
    Method({"blank"}, {}, {Refusal} \cup Every(LAMBDA response :
        getMetadata(addressMetadataInfoDTO, response)))
GetMetadataByMosaicId ==
    Method({"nil"}, {}, Every(LAMBDA response : getMetadata(mosaicMetadataInfoDTO, response)))
GetMetadataByNamespaceId ==
    Method({"nil"}, {}, Every(LAMBDA response : getMetadata(namespaceMetadataInfoDTO, response)))

GetBlockByHeight == Method({"zero height"}, {}, GetPointer(BlockInfos))
GetBlocksByHeightWithLimit == Method({"zero height", "zero limit"}, {}, GetList(BlockInfos))
GetBlockchainHeight == Method({}, {}, GetPointer({<<>>}))
GetBlockchainScore == Method({}, {}, GetPointer({<<>>}))
GetBlockchainStorage == Method({}, {}, Get({<<>>}))

GetMosaicInfo == Method({"nil"}, {}, Get({mosaicInfoDTO}))
GetMosaicInfos == Method({"none"}, {"nil element"}, GetList({mosaicInfoDTO}))
GetMosaicsNames == Method({"none"}, {"nil element"}, GetList({mosaicNameDTO}))

GetContractsInfo == Method({"none"}, {}, GetList({contractInfoDTO}))
GetContractsByAddress == Method({"blank"}, {}, GetList({contractInfoDTO}))

(* A network the SDK does not know is refused, and so is no name.          *)
GetNetworkType == Method({}, {}, Get({Step("name", 0, "error", "error")}))
GetNetworkConfigAtHeight == Method({}, {}, Get({blockchainConfigDTO}))
GetNetworkVersionAtHeight == Method({}, {}, Get({<<>>}))

GetTransactionStatus == Method({}, {}, Get({transactionStatusDTO}))
GetTransactionStatuses == Method({}, {}, GetNils({transactionStatusDTO}))

(* Announce, AnnounceAggregateBonded, AnnounceAggregateBondedCosignature.  *)
announceTransaction == Method({}, {"nil"}, Get({<<>>}))

Methods ==
    [GetAccountProperties |-> GetAccountProperties,
     GetAccountsProperties |-> GetAccountsProperties,
     GetAccountInfo |-> GetAccountInfo, GetAccountsInfo |-> GetAccountsInfo,
     GetMultisigAccountInfo |-> GetMultisigAccountInfo,
     GetMultisigAccountGraphInfo |-> GetMultisigAccountGraphInfo,
     GetAccountNames |-> GetAccountNames, GetNamespaceNames |-> GetNamespaceNames,
     GetAddressMetadatasInfo |-> GetAddressMetadatasInfo,
     GetMosaicMetadatasInfo |-> GetMosaicMetadatasInfo,
     GetNamespaceMetadatasInfo |-> GetNamespaceMetadatasInfo,
     GetMetadataByAddress |-> GetMetadataByAddress,
     GetMetadataByMosaicId |-> GetMetadataByMosaicId,
     GetMetadataByNamespaceId |-> GetMetadataByNamespaceId,
     GetBlockByHeight |-> GetBlockByHeight,
     GetBlocksByHeightWithLimit |-> GetBlocksByHeightWithLimit,
     GetBlockchainHeight |-> GetBlockchainHeight, GetBlockchainScore |-> GetBlockchainScore,
     GetBlockchainStorage |-> GetBlockchainStorage,
     GetMosaicInfo |-> GetMosaicInfo, GetMosaicInfos |-> GetMosaicInfos,
     GetMosaicsNames |-> GetMosaicsNames, GetContractsInfo |-> GetContractsInfo,
     GetContractsByAddress |-> GetContractsByAddress, GetNetworkType |-> GetNetworkType,
     GetNetworkConfigAtHeight |-> GetNetworkConfigAtHeight,
     GetNetworkVersionAtHeight |-> GetNetworkVersionAtHeight,
     GetTransactionStatus |-> GetTransactionStatus,
     GetTransactionStatuses |-> GetTransactionStatuses,
     announceTransaction |-> announceTransaction]

(* GetNamespaceInfosFromAccount and GetNamespaceInfosFromAccounts, up to    *)
(* the request; GetNamespaceInfo likewise.                                 *)
NamespaceListReplies == GetList(NamespaceInfos)
NamespaceReplies == Get(NamespaceInfos)

(***************************************************************************)
(* Transactions: MapTransaction picks the DTO by the type.                 *)
(***************************************************************************)
TransactionDTOs ==
    {accountPropertiesAddressTransactionDTO, accountPropertiesMosaicTransactionDTO,
     accountPropertiesEntityTypeTransactionDTO, addressAliasTransactionDTO,
     networkConfigTransactionDTO, blockchainUpgradeTransactionDTO,
     accountLinkTransactionDTO, lockFundsTransactionDTO,
     modifyMetadataAddressTransactionDTO, modifyMetadataMosaicTransactionDTO,
     modifyMetadataNamespaceTransactionDTO, modifyContractTransactionDTO,
     modifyMultisigAccountTransactionDTO, mosaicAliasTransactionDTO,
     mosaicDefinitionTransactionDTO, mosaicSupplyChangeTransactionDTO,
     registerNamespaceTransactionDTO(TRUE), registerNamespaceTransactionDTO(FALSE),
     secretLockTransactionDTO, secretProofTransactionDTO, transferTransactionDTO}

(* A type it does not know leaves no DTO, which is an error, and so is     *)
(* JSON that does not fit the DTO.                                         *)
MapTransaction == {Refusal} \cup UNION {toStruct(dto) : dto \in TransactionDTOs}

AggregateReplies == {Refusal} \cup toStruct(aggregateTransactionDTO)

Lists(S, n) == UNION {[1..k -> S] : k \in 0..n}

Single == {[aggregate |-> FALSE, own |-> own, inner |-> <<>>] : own \in MapTransaction}

Aggregates ==
    {[aggregate |-> TRUE, own |-> own, inner |-> inner] :
        own \in AggregateReplies, inner \in Lists(Single, MaxInner)}

(* What a node can send, with one aggregate at most.                       *)
TransactionLists ==
    LET withOne(k, i) ==
            {[list EXCEPT ![i] = t] : list \in [1..k -> Single], t \in Aggregates}
    IN  Lists(Single, MaxList)
            \cup UNION {UNION {withOne(k, i) : i \in 1..k} : k \in 1..MaxList}

(***************************************************************************)
(* A call.                                                                 *)
(***************************************************************************)
NoCall == [op |-> "none", ids |-> <<>>]

Task(do, id, k) == [do |-> do, id |-> id, k |-> k]
Do(name) == Task(name, NoNamespace, 0)

Now(name) == end = "ok" /\ todo # <<>> /\ Head(todo).do = name

Returned == call # NoCall /\ todo = <<>>

(* The rest is not done: an error is returned, or the process dies.        *)
Stop(how) == end' = how /\ todo' = <<>>

Then(tasks) == todo' = tasks \o Tail(todo) /\ UNCHANGED end

Requested == requests' = requests + 1

Init ==
    /\ call = NoCall
    /\ todo = <<>>
    /\ end = "ok"
    /\ passed = {}
    /\ requests = 0
    /\ lineages = <<>>
    /\ found = <<>>
    /\ told = 0
    /\ items = <<>> /\ work = <<>> /\ errs = <<>>
    /\ \E m \in Mosaics \cup {NoMosaic} :
           chain = [live |-> Namespaces, alias |-> [n \in Namespaces |-> m], height |-> MaxHeight]
    /\ aliases = {<<n, chain.alias[n]>> : n \in Namespaces}
    /\ changes = 0

Begin(op, ids, tasks) ==
    /\ call = NoCall
    /\ call' = [op |-> op, ids |-> ids]
    /\ todo' = tasks
    /\ UNCHANGED <<end, passed, requests, lineages, found, told, mapping, ledger>>

(* A method of one request, from its arguments to its return.              *)
Call(op) ==
    /\ call = NoCall
    /\ call' = [op |-> op, ids |-> <<>>]
    /\ \/ /\ Methods[op].refuses # {}
          /\ Stop("error")
          /\ UNCHANGED <<passed, requests>>
       \/ /\ Methods[op].panics # {}
          /\ Stop("panic")
          /\ UNCHANGED <<passed, requests>>
       \/ \E reply \in Methods[op].replies :
              /\ Stop(reply.end)
              /\ passed' = reply.passed
              /\ Requested
    /\ UNCHANGED <<lineages, found, told, mapping, ledger>>

(***************************************************************************)
(* Namespaces.                                                             *)
(***************************************************************************)

(* What an answer says of a namespace.  The node is taken to say what is   *)
(* so, but it may leave out the parent, which makes a root of the          *)
(* namespace, and the alias, or it gives the alias a type that is not      *)
(* known.                                                                  *)
InfosOf(n) ==
    [ns : {n}, alias : {chain.alias[n], NoMosaic}, parent : {Parent[n], NoNamespace}]

(* GetNamespaceInfo, inside any call: the request, the conversion, then    *)
(* buildNamespaceHierarchy.  A namespace that has expired is not found.    *)
GetNamespaceInfo ==
    /\ Now("namespace")
    /\ Requested
    /\ LET n == Head(todo).id
       IN  \E reply \in IF n \in chain.live THEN NamespaceReplies ELSE {Refusal} :
               IF reply.end = "ok"
               THEN /\ \E info \in InfosOf(n) : lineages' = <<<<info>>>> \o lineages
                    /\ Then(<<Task("hierarchy", NoNamespace, 1)>>)
                    /\ passed' = passed \cup reply.passed
               ELSE Stop(reply.end) /\ UNCHANGED <<lineages, passed>>
    /\ UNCHANGED <<call, found, told, mapping, ledger>>

(* buildNamespaceHierarchy of the k-th in the lineage at hand: its parent, *)
(* which comes with its own lineage, then the parent's hierarchy again.    *)
buildNamespaceHierarchy ==
    /\ Now("hierarchy")
    /\ LET k == Head(todo).k
           parent == Head(lineages)[k].parent
       IN  Then(IF parent = NoNamespace THEN <<>>
                ELSE <<Task("namespace", parent, 0), Task("parent", NoNamespace, k),
                       Task("hierarchy", NoNamespace, k + 1)>>)
    /\ UNCHANGED <<call, passed, requests, lineages, found, told, mapping, ledger>>

(* SetParent that forgets to, so that the parent's hierarchy is not there. *)
SetParentForgotten ==
    /\ Now("parent")
    /\ lineages' = Tail(lineages)
    /\ todo' = Tail(Tail(todo))
    /\ UNCHANGED <<call, end, passed, requests, found, told, mapping, ledger>>

(* nsInfo.Parent = parentNsInfo                                            *)
SetParent ==
    /\ Now("parent")
    /\ LET k == Head(todo).k
           whole == SubSeq(lineages[2], 1, k) \o lineages[1]
       IN  lineages' = <<whole>> \o SubSeq(lineages, 3, Len(lineages))
    /\ Then(<<>>)
    /\ UNCHANGED <<call, passed, requests, found, told, mapping, ledger>>

(* The NamespaceInfo joins what is returned.                               *)
Collect ==
    /\ Now("collect")
    /\ found' = Append(found, Head(lineages))
    /\ lineages' = Tail(lineages)
    /\ Then(<<>>)
    /\ UNCHANGED <<call, passed, requests, told, mapping, ledger>>

(* The list of an account's namespaces,                                    *)
GetNamespaceInfosFromAccount ==
    /\ Now("namespaces")
    /\ Requested
    /\ \E reply \in NamespaceListReplies,
          owned \in Lists(UNION {InfosOf(n) : n \in chain.live}, MaxInner) :
           IF reply.end = "ok"
           THEN /\ lineages' = [i \in DOMAIN owned |-> <<owned[i]>>]
                /\ Then(<<Do("hierarchies")>>)
                /\ passed' = passed \cup reply.passed
           ELSE Stop(reply.end) /\ owned = <<>> /\ UNCHANGED <<lineages, passed>>
    /\ UNCHANGED <<call, found, told, mapping, ledger>>

(* and the loop over it.                                                   *)
buildNamespacesHierarchy ==
    /\ Now("hierarchies")
    /\ Then(IF lineages = <<>> THEN <<>>
            ELSE <<Task("hierarchy", NoNamespace, 1), Do("collect"), Do("hierarchies")>>)
    /\ UNCHANGED <<call, passed, requests, lineages, found, told, mapping, ledger>>

(* info.Alias.MosaicId(), info.Alias.Address()                             *)
GetLinked ==
    /\ Now("alias")
    /\ found' = Append(found, Head(lineages)[1].alias)
    /\ lineages' = Tail(lineages)
    /\ Then(<<>>)
    /\ UNCHANGED <<call, passed, requests, told, mapping, ledger>>

(***************************************************************************)
(* Resolving ids.                                                          *)
(***************************************************************************)

(* Those of the first k ids that are of one type, appended one by one.     *)
OfType(ids, type) ==
    LET upto[k \in 0..Len(ids)] ==
            IF k = 0 THEN <<>>
            ELSE IF ids[k] \in type THEN Append(upto[k - 1], ids[k]) ELSE upto[k - 1]
    IN  upto

MosaicsOf(ids) == OfType(ids, Mosaics)[Len(ids)]
NamespacesOf(ids) == OfType(ids, Namespaces)[Len(ids)]

(* GetMosaicInfoByAssetId.                                                 *)
ByAssetId(id) ==
    IF id \in Mosaics THEN <<Task("mosaic", id, 0)>>
    ELSE <<Task("namespace", id, 0), Do("resolve")>>

(* The mosaics in one request, then the namespaces one by one.  Without    *)
(* mosaics the list the infos are appended to is the one made at the       *)
(* beginning, which is as long as the list of ids and holds nil.           *)
GetMosaicInfosByAssetIds(ids) ==
    IF ids = <<>> THEN <<Do("refuse")>>
    ELSE <<Do(IF MosaicsOf(ids) = <<>> THEN "nils" ELSE "mosaics"),
           Task("ids", NoNamespace, 1)>>

(* len(assetIds) == 0, or one of them is nil.                              *)
RefuseIds ==
    /\ Now("refuse")
    /\ Stop("error")
    /\ UNCHANGED <<call, passed, requests, lineages, found, told, mapping, ledger>>

MakeNils ==
    /\ Now("nils")
    /\ found' = [i \in DOMAIN call.ids |-> NoMosaic]
    /\ Then(<<>>)
    /\ UNCHANGED <<call, passed, requests, lineages, told, mapping, ledger>>

(* Whatever the node sends takes the place of the list: infos of fewer     *)
(* mosaics than were asked for, of none, in any order.                     *)
MosaicInfosOf ==
    /\ Now("mosaics")
    /\ Requested
    /\ \E reply \in GetMosaicInfos.replies, sent \in Lists(Mosaics, MaxInner) :
           IF reply.end = "ok"
           THEN found' = sent /\ Then(<<>>) /\ passed' = passed \cup reply.passed
           ELSE Stop(reply.end) /\ sent = <<>> /\ UNCHANGED <<found, passed>>
    /\ UNCHANGED <<call, lineages, told, mapping, ledger>>

(* The loop over the namespaces, which are the ids left from the k-th on   *)
(* that are not mosaics.                                                   *)
NamespaceIds ==
    /\ Now("ids")
    /\ LET k == Head(todo).k
           next == Task("ids", NoNamespace, k + 1)
       IN  Then(IF k > Len(call.ids) THEN <<>>
                ELSE IF call.ids[k] \in Mosaics THEN <<next>>
                ELSE <<Task("namespace", call.ids[k], 0), Do("resolve"), next>>)
    /\ UNCHANGED <<call, passed, requests, lineages, found, told, mapping, ledger>>

(* The lineage's last is its root: a child's alias is not looked at.       *)
ResolveRoot ==
    /\ Now("resolve")
    /\ LET alias == lineages[1][Len(lineages[1])].alias
       IN  IF alias = NoMosaic THEN Stop("error") ELSE Then(<<Task("mosaic", alias, 0)>>)
    /\ lineages' = Tail(lineages)
    /\ UNCHANGED <<call, passed, requests, found, told, mapping, ledger>>

(* A namespace without a mosaic is an error, whatever else was found.      *)
Resolve ==
    /\ Now("resolve")
    /\ LET alias == Head(lineages)[1].alias
       IN  IF alias = NoMosaic THEN Stop("error") ELSE Then(<<Task("mosaic", alias, 0)>>)
    /\ lineages' = Tail(lineages)
    /\ UNCHANGED <<call, passed, requests, found, told, mapping, ledger>>

MosaicInfoOf ==
    /\ Now("mosaic")
    /\ Requested
    /\ \E reply \in GetMosaicInfo.replies :
           IF reply.end = "ok"
           THEN /\ found' = Append(found, Head(todo).id)
                /\ Then(<<>>)
                /\ passed' = passed \cup reply.passed
           ELSE Stop(reply.end) /\ UNCHANGED <<found, passed>>
    /\ UNCHANGED <<call, lineages, told, mapping, ledger>>

(***************************************************************************)
(* Calls whose second request depends on the answer to the first.          *)
(***************************************************************************)

(* AskHeight that counts the block that is being harvested.                *)
AskHeightNext ==
    /\ Now("height")
    /\ Requested
    /\ told' = chain.height + 1
    /\ Then(<<>>)
    /\ UNCHANGED <<call, passed, lineages, found, mapping, ledger>>

(* GetBlockchainHeight; an empty body is height 0.                         *)
AskHeight ==
    /\ Now("height")
    /\ Requested
    /\ \E reply \in GetBlockchainHeight.replies, height \in {0, chain.height} :
           IF reply.end = "ok"
           THEN told' = height /\ Then(<<>>)
           ELSE Stop(reply.end) /\ height = 0 /\ UNCHANGED told
    /\ UNCHANGED <<call, passed, lineages, found, mapping, ledger>>

(* GetNetworkConfigAtHeight, GetNetworkVersionAtHeight.                    *)
AskAtHeight ==
    /\ Now("at height")
    /\ Requested
    /\ \E reply \in IF call.op = "GetNetworkConfig" THEN GetNetworkConfigAtHeight.replies
                    ELSE GetNetworkVersionAtHeight.replies :
           /\ IF reply.end = "ok" THEN Then(<<>>) ELSE Stop(reply.end)
           /\ passed' = passed \cup reply.passed
    /\ UNCHANGED <<call, lineages, found, told, mapping, ledger>>

(* GetBlockByHeight of the transaction's height, which is 0 as long as it  *)
(* is not confirmed.  A block that was rolled back is not found.           *)
AskBlock ==
    /\ Now("block")
    /\ IF told = 0
       THEN Stop("error") /\ UNCHANGED <<passed, requests>>
       ELSE /\ Requested
            /\ \E reply \in IF told <= chain.height THEN GetBlockByHeight.replies ELSE {Refusal} :
                   /\ IF reply.end = "ok" THEN Then(<<>>) ELSE Stop(reply.end)
                   /\ passed' = passed \cup reply.passed
    /\ UNCHANGED <<call, lineages, found, told, mapping, ledger>>

(***************************************************************************)
(* Mapping transactions: one goroutine per transaction, and in that of an  *)
(* aggregate one per inner transaction.  A place is <<i>> or <<i, j>>.     *)
(***************************************************************************)
Inner(i) == {<<i, j>> : j \in DOMAIN items[i].inner}
Outer == {<<i>> : i \in DOMAIN items}
At(p) == IF Len(p) = 1 THEN items[p[1]] ELSE items[p[1]].inner[p[2]]

Before(p, q) == p[Len(p)] < q[Len(q)]

(* The first of a group that has an error: for _, err = range errs.        *)
FirstOf(group) ==
    LET failed == {p \in group : errs[p] # <<>>}
    IN  IF failed = {} THEN <<>>
        ELSE errs[CHOOSE p \in failed : \A q \in failed \ {p} : Before(p, q)]

(* findTransactions, GetBlockTransactions, GetTransactions; GetTransaction *)
(* maps the one transaction itself.                                        *)
AskTransactions(one) ==
    /\ Now(IF one THEN "transaction" ELSE "transactions")
    /\ Requested
    /\ \/ /\ Stop("error")
          /\ UNCHANGED <<told, mapping>>
       \/ \E list \in TransactionLists, height \in {0, chain.height} :
              /\ one => Len(list) = 1
              /\ ~one => height = 0
              /\ items' = list
              /\ LET places == UNION {{<<i>>} \cup {<<i, j>> : j \in DOMAIN list[i].inner} :
                                        i \in DOMAIN list}
                 IN  /\ work' = [p \in places |-> IF one /\ p = <<1>> THEN "running" ELSE "unborn"]
                     /\ errs' = [p \in places |-> <<>>]
              /\ told' = height
              /\ Then(<<Do("map")>>)
    /\ UNCHANGED <<call, passed, lineages, found, ledger>>

(* go func(i, t) of the loop that maps this group, in the loop's order.    *)
Spawn(group) ==
    \E p \in group :
        /\ work[p] = "unborn"
        /\ \A q \in group \ {p} : Before(q, p) => work[q] # "unborn"
        /\ work' = [work EXCEPT ![p] = "running"]
        /\ UNCHANGED <<call, todo, end, passed, requests, lineages, found, told, items, errs,
                       ledger>>

(* txs[i], errs[i] = ...; wg.Done()                                        *)
Done(p, error) ==
    /\ work' = [work EXCEPT ![p] = "done"]
    /\ errs' = [errs EXCEPT ![p] = error]
    /\ UNCHANGED <<call, todo, end, passed, requests, lineages, found, told, items, ledger>>

Dies ==
    /\ Stop("panic")
    /\ UNCHANGED <<call, passed, requests, lineages, found, told, mapping, ledger>>

dtoToTransaction(p) ==
    IF At(p).own.end = "panic" THEN Dies
    ELSE Done(p, IF At(p).own.end = "error" THEN p ELSE <<>>)

MapSingle(p) ==
    /\ work[p] = "running" /\ ~At(p).aggregate
    /\ dtoToTransaction(p)

(* MapAggregate with the group of the outer mapping, to which it belongs.  *)
MapAggregateSharedGroup(i) ==
    /\ work[<<i>>] = "running" /\ items[i].aggregate
    /\ \/ Spawn(Inner(i))
       \/ /\ \A p \in DOMAIN work : work[p] = "done"
          /\ Done(<<i>>, FirstOf(Inner(i)))

(* The inner transactions come first; their error is the aggregate's.      *)
MapAggregate(i) ==
    /\ work[<<i>>] = "running" /\ items[i].aggregate
    /\ \/ Spawn(Inner(i))
       \/ /\ \A p \in Inner(i) : work[p] = "done"
          /\ IF FirstOf(Inner(i)) # <<>> THEN Done(<<i>>, FirstOf(Inner(i)))
             ELSE dtoToTransaction(<<i>>)

(* MapReturns when each goroutine does its own wg.Add.                     *)
MapReturnsEarly ==
    /\ \A p \in Outer : work[p] # "running"
    /\ IF FirstOf(Outer) = <<>> THEN Then(<<>>) ELSE Stop("error")
    /\ UNCHANGED <<call, passed, requests, lineages, found, told, mapping, ledger>>

(* wg.Wait(), and the first error if there is one.                         *)
MapReturns ==
    /\ \A p \in Outer : work[p] = "done"
    /\ IF FirstOf(Outer) = <<>>
       THEN Then(<<>>) /\ passed' = passed \cup UNION {At(p).own.passed : p \in DOMAIN work}
       ELSE Stop("error") /\ UNCHANGED passed
    /\ UNCHANGED <<call, requests, lineages, found, told, mapping, ledger>>

MapTransactions ==
    /\ Now("map")
    /\ \/ Spawn(Outer)
       \/ \E p \in DOMAIN work : MapSingle(p)
       \/ \E i \in DOMAIN items : MapAggregate(i)
       \/ MapReturns

(* The type assertion on each, in AggregateBondedTransactions.             *)
AssertAggregates ==
    /\ Now("assert")
    /\ IF \A i \in DOMAIN items : items[i].aggregate THEN Then(<<>>) ELSE Stop("panic")
    /\ UNCHANGED <<call, passed, requests, lineages, found, told, mapping, ledger>>

(***************************************************************************)
(* The chain moves on between the requests of a call.                      *)
(***************************************************************************)
Between(ops) ==
    /\ call.op \in ops /\ todo # <<>> /\ requests > 0
    /\ changes < MaxChanges
    /\ changes' = changes + 1
    /\ UNCHANGED <<call, todo, end, passed, requests, lineages, found, told, mapping>>

NamespaceCalls ==
    {"GetNamespaceInfo", "GetNamespaceInfosFromAccount", "GetLinkedMosaicId",
     "GetLinkedAddress", "GetMosaicInfoByAssetId", "GetMosaicInfosByAssetIds"}

HeightCalls == {"GetNetworkConfig", "GetNetworkVersion", "GetTransactionEffectiveFee"}

Relink ==
    /\ Between(NamespaceCalls)
    /\ \E n \in Namespaces, m \in Mosaics \cup {NoMosaic} :
           /\ m # chain.alias[n]
           /\ chain' = [chain EXCEPT !.alias[n] = m]
           /\ aliases' = aliases \cup {<<n, m>>}

Expire ==
    /\ Between(NamespaceCalls)
    /\ \E n \in chain.live : chain' = [chain EXCEPT !.live = @ \ {n}]
    /\ UNCHANGED aliases

Rollback ==
    /\ Between(HeightCalls)
    /\ chain.height > 0
    /\ chain' = [chain EXCEPT !.height = @ - 1]
    /\ UNCHANGED aliases

(***************************************************************************)
(* The calls of more than one request, and those that map transactions.    *)
(***************************************************************************)
findTransactions == <<Do("transactions")>>
AggregateBondedTransactions == findTransactions \o <<Do("assert")>>
GetBlockTransactions == <<Do("transactions")>>
GetTransactions == <<Do("transactions")>>
GetTransaction == <<Do("transaction")>>
GetTransactionEffectiveFee == GetTransaction \o <<Do("block")>>
GetNetworkConfig == <<Do("height"), Do("at height")>>
GetNetworkVersion == <<Do("height"), Do("at height")>>
GetLinkedMosaicId(n) == <<Task("namespace", n, 0), Do("alias")>>
GetLinkedAddress(n) == <<Task("namespace", n, 0), Do("alias")>>

(* The methods that refuse some argument before they ask for anything.     *)
Guarded ==
    NamespaceCalls \cup {"findTransactions", "AggregateBondedTransactions", "GetBlockTransactions"}

Calls ==
    \/ \E op \in DOMAIN Methods : Call(op)
    \/ \E op \in Guarded : Begin(op, <<>>, <<Do("refuse")>>)
    \/ \E n \in Namespaces :
           \/ Begin("GetNamespaceInfo", <<n>>, <<Task("namespace", n, 0), Do("collect")>>)
           \/ Begin("GetLinkedMosaicId", <<n>>, GetLinkedMosaicId(n))
           \/ Begin("GetLinkedAddress", <<n>>, GetLinkedAddress(n))
    \/ Begin("GetNamespaceInfosFromAccount", <<>>, <<Do("namespaces")>>)
    \/ \E id \in Namespaces \cup Mosaics :
           Begin("GetMosaicInfoByAssetId", <<id>>, ByAssetId(id))
    \/ \E ids \in Lists(Namespaces \cup Mosaics, MaxInner) :
           Begin("GetMosaicInfosByAssetIds", ids, GetMosaicInfosByAssetIds(ids))
    \/ Begin("GetNetworkConfig", <<>>, GetNetworkConfig)
    \/ Begin("GetNetworkVersion", <<>>, GetNetworkVersion)
    \/ Begin("findTransactions", <<>>, findTransactions)
    \/ Begin("AggregateBondedTransactions", <<>>, AggregateBondedTransactions)
    \/ Begin("GetBlockTransactions", <<>>, GetBlockTransactions)
    \/ Begin("GetTransactions", <<>>, GetTransactions)
    \/ Begin("GetTransaction", <<>>, GetTransaction)
    \/ Begin("GetTransactionEffectiveFee", <<>>, GetTransactionEffectiveFee)

Next ==
    \/ Calls
    \/ GetNamespaceInfo
    \/ buildNamespaceHierarchy
    \/ SetParent
    \/ Collect
    \/ GetNamespaceInfosFromAccount
    \/ buildNamespacesHierarchy
    \/ GetLinked
    \/ RefuseIds
    \/ MakeNils
    \/ MosaicInfosOf
    \/ NamespaceIds
    \/ Resolve
    \/ MosaicInfoOf
    \/ AskHeight
    \/ AskAtHeight
    \/ AskBlock
    \/ \E one \in BOOLEAN : AskTransactions(one)
    \/ MapTransactions
    \/ AssertAggregates
    \/ Relink
    \/ Expire
    \/ Rollback

Spec == Init /\ [][Next]_vars

(* The goroutines of a mapping are scheduled; that a node answers is not   *)
(* assumed.                                                                *)
FairSpec == Spec /\ WF_vars(MapTransactions)

(***************************************************************************)
(* Properties.                                                             *)
(***************************************************************************)
Succeeded == Returned /\ end = "ok"

(* The state has its type; an error is that of a transaction of the list.  *)
TypeOK ==
    /\ end \in {"ok", "error", "panic"}
    /\ told \in 0..MaxHeight
    /\ chain.live \subseteq Namespaces
    /\ \A i \in DOMAIN lineages : \A k \in DOMAIN lineages[i] : lineages[i][k].ns \in Namespaces
    /\ DOMAIN work = DOMAIN errs
    /\ \A p \in DOMAIN errs : errs[p] # <<>> => errs[p] \in DOMAIN work

(* What a loop without goroutines would return: the first error in the     *)
(* order of the list, an aggregate's inner ones before its own.            *)
ItemError(i) ==
    LET bad == {j \in DOMAIN items[i].inner : items[i].inner[j].own.end = "error"}
    IN  CASE bad # {} -> <<i, Min(bad)>>
          [] bad = {} /\ items[i].own.end = "error" -> <<i>>
          [] OTHER -> <<>>

Panics(i) ==
    \/ \E j \in DOMAIN items[i].inner : items[i].inner[j].own.end = "panic"
    \/ Len(ItemError(i)) < 2 /\ items[i].own.end = "panic"

Mapped == items # <<>> /\ ~Now("map")

(* MapTransactions (transaction_model.go:3431): whatever the order in      *)
(* which its goroutines and those of nested aggregates end, the error it   *)
(* returns is the one that comes first in the node's list; there is none   *)
(* only if every transaction was converted; and a conversion that panics   *)
(* ends the process even when another one has failed.                      *)
MappingInListOrder ==
    Mapped =>
        \/ end = "panic"
        \/ /\ \A i \in DOMAIN items : ~Panics(i)
           /\ LET failing == {i \in DOMAIN items : ItemError(i) # <<>>}
              IN  FirstOf(Outer) = IF failing = {} THEN <<>> ELSE ItemError(Min(failing))
           /\ FirstOf(Outer) # <<>> => end = "error"

(* The malformed fields that a conversion lets through: the signer of a    *)
(* cosignature that is followed by another one (transaction_model.go:1377, *)
(* the loop overwrites the error), an account property of a type with more *)
(* than one bit (account_internal.go:94, no case of the switch) and an     *)
(* alias of an unknown type (namespace_internal.go:79, likewise).          *)
LetThrough == {<<"cosignatures", 1>>, <<"propertyType", 1>>, <<"aliasType", 0>>}

(* Every toStruct: whichever of its requests an answer came with, and with *)
(* however many flaws, a call that returns without an error has refused    *)
(* every key, address, hash, signature, id, secret, text and type that     *)
(* could not be decoded, but for those three.                              *)
MalformedRefused == Succeeded => passed \subseteq LetThrough

(* buildNamespaceHierarchy (namespace.go:182): the NamespaceInfos that     *)
(* GetNamespaceInfo and GetNamespaceInfosFromAccount return carry their    *)
(* whole lineage, each followed by the parent that its answer named and    *)
(* the last one of those without, although namespaces expire between the   *)
(* requests and a parent may be asked for more than once.                  *)
LineageComplete ==
    Succeeded /\ call.op \in {"GetNamespaceInfo", "GetNamespaceInfosFromAccount"} =>
        \A i \in DOMAIN found :
            /\ \A k \in 1..Len(found[i]) - 1 : found[i][k + 1].ns = found[i][k].parent
            /\ found[i][Len(found[i])].parent = NoNamespace
            /\ call.op = "GetNamespaceInfo" => found[i][1].ns = call.ids[1]

(* GetMosaicInfosByAssetIds (resolver.go:80): whatever the node sent for   *)
(* the mosaics asked for, and whatever is relinked or expires between the  *)
(* requests, the list ends with one info for each namespace asked for, in  *)
(* their order, that of a mosaic the namespace was an alias of at some     *)
(* moment of the call.                                                     *)
ResolvedDuringCall ==
    Succeeded /\ call.op = "GetMosaicInfosByAssetIds" =>
        LET namespaces == NamespacesOf(call.ids)
            before == Len(found) - Len(namespaces)
        IN  /\ Len(found) >= Len(namespaces)
            /\ \A k \in DOMAIN namespaces :
                   /\ found[before + k] # NoMosaic
                   /\ <<namespaces[k], found[before + k]>> \in aliases

(* MapTransactions waits for its goroutines, and an aggregate's goroutine  *)
(* for those of its inner transactions: no mapping waits forever.          *)
MappingEnds == Now("map") ~> ~Now("map")

=============================================================================

--------------------------- MODULE RestCallsProof ---------------------------
(***************************************************************************)
(* A proof about RestServices: what GetMosaicInfosByAssetIds resolves      *)
(* (ResolvedDuringCall).  It rests on how far the loop over the ids has    *)
(* come, and on every alias that was ever read: the tasks that             *)
(* RestServicesProof describes say which namespace is being resolved,      *)
(* whatever the depth of its lineage.                                      *)
(***************************************************************************)
EXTENDS RestServicesProof, Integers

LOCAL INSTANCE FiniteSetsExt

(***************************************************************************)
(* The ids of one type.                                                    *)
(***************************************************************************)

(* What passes from each number to the next holds up to n.                 *)
LEMMA Induct ==
    ASSUME NEW n \in Nat, NEW A, 0 \in A, \A k \in 1..n : k - 1 \in A => k \in A
    PROVE  0..n \subseteq A
<1> SUFFICES ASSUME \E k \in 0..n : k \notin A PROVE FALSE  OBVIOUS
<1> DEFINE T == {k \in 0..n : k \notin A}
           j == Min(T)
<1>1. j \in T /\ \A k \in T : j <= k
  <2>1. T \subseteq Nat /\ T # {}  OBVIOUS
  <2> QED  BY <2>1, MinOf
<1> HIDE DEF j
<1>2. j \in 0..n /\ j \notin A /\ j # 0  BY <1>1
<1>3. j \in 1..n /\ j - 1 \in 0..n /\ ~(j <= j - 1)  BY <1>2
<1>4. j - 1 \in A  BY <1>1, <1>3
<1> QED  BY <1>2, <1>3, <1>4

(* What n steps lead to, one after the other, from base on;                *)
IsWalk(f, n, T, base, step) ==
    f \in [0..n -> T] /\ f[0] = base /\ \A k \in 1..n : f[k] = step[k][f[k - 1]]

Walk(n, T, base, step) == CHOOSE f : IsWalk(f, n, T, base, step)

(* they can be taken.                                                      *)
LEMMA StepsExist ==
    ASSUME NEW n \in Nat, NEW T, NEW base \in T, NEW step \in [1..n -> [T -> T]]
    PROVE  IsWalk(Walk(n, T, base, step), n, T, base, step)
<1> DEFINE Steps(m, f) ==
               f \in [0..m -> T] /\ f[0] = base /\ \A k \in 1..m : f[k] = step[k][f[k - 1]]
           A == {m \in 0..n : \E f : Steps(m, f)}
<1>1. 0 \in A
  <2> DEFINE f == [i \in 0..0 |-> base]
  <2>1. Steps(0, f)  OBVIOUS
  <2>2. 0 \in 0..n  OBVIOUS
  <2> HIDE DEF f, Steps
  <2> QED  BY <2>1, <2>2
<1>2. ASSUME NEW m \in 1..n, m - 1 \in A PROVE m \in A
  <2>1. PICK f : Steps(m - 1, f)  BY <1>2
  <2> DEFINE g == [i \in 0..m |-> IF i = m THEN step[m][f[m - 1]] ELSE f[i]]
  <2>2. m - 1 \in 0..m - 1 /\ f[m - 1] \in T  BY <2>1
  <2>3. \A i \in 0..m : g[i] \in T
    <3>1. \A i \in 0..m : i # m => i \in 0..m - 1  OBVIOUS
    <3> QED  BY <2>1, <2>2, <3>1
  <2>4. g[0] = base  BY <2>1
  <2>5. ASSUME NEW k \in 1..m PROVE g[k] = step[k][g[k - 1]]
    <3>1. k \in 0..m /\ k - 1 \in 0..m /\ k - 1 # m  OBVIOUS
    <3>2. g[k - 1] = f[k - 1]  BY <3>1
    <3>3. k # m => k \in 1..m - 1  OBVIOUS
    <3> QED  BY <2>1, <3>1, <3>2, <3>3
  <2>6. Steps(m, g)
    <3> HIDE DEF g
    <3>1. g \in [0..m -> T]  BY <2>3 DEF g
    <3> QED  BY <2>4, <2>5, <3>1
  <2>7. m \in 0..n  OBVIOUS
  <2> HIDE DEF g, Steps
  <2> QED  BY <2>6, <2>7
<1>3. n \in A
  <2> HIDE DEF A
  <2>1. 0..n \subseteq A  BY <1>1, <1>2, Induct
  <2> QED  BY <2>1
<1>4. PICK f : IsWalk(f, n, T, base, step)  BY <1>3 DEF IsWalk
<1> QED  BY <1>4 DEF Walk

(* Those of the first k ids, one by one.                                   *)
LEMMA OfTypeSteps ==
    ASSUME NEW S, NEW ids \in Seq(S), NEW type
    PROVE  LET f == OfType(ids, type)
           IN  /\ f[0] = <<>>
               /\ \A k \in 1..Len(ids) :
                      f[k] = IF ids[k] \in type THEN Append(f[k - 1], ids[k]) ELSE f[k - 1]
               /\ \A k \in 0..Len(ids) : f[k] \in Seq(S \cap type)
<1> DEFINE n == Len(ids)
           T == Seq(S \cap type)
           step == [k \in 1..n |-> [x \in T |-> IF ids[k] \in type THEN Append(x, ids[k]) ELSE x]]
           Next1(k, x) == IF ids[k] \in type THEN Append(x, ids[k]) ELSE x
<1>1. n \in Nat /\ \A k \in 1..n : ids[k] \in S  OBVIOUS
<1>2. \A k \in 1..n, x \in T : step[k][x] \in T /\ step[k][x] = Next1(k, x)
  <2>1. \A k \in 1..n, x \in T : Next1(k, x) \in T  BY <1>1
  <2> QED  BY <2>1
<1>3. <<>> \in T  OBVIOUS
<1> HIDE DEF step, T
<1> DEFINE f == Walk(n, T, <<>>, step)
<1>4. f \in [0..n -> T] /\ f[0] = <<>> /\ \A k \in 1..n : f[k] = step[k][f[k - 1]]
  <2>1. step \in [1..n -> [T -> T]]  BY <1>2 DEF step
  <2>2. n \in Nat  BY <1>1
  <2> HIDE DEF n
  <2>3. IsWalk(f, n, T, <<>>, step)  BY <1>3, <2>1, <2>2, StepsExist
  <2> QED  BY <2>3 DEF IsWalk
<1> HIDE DEF f
<1>5. \A k \in 1..n : k - 1 \in 0..n /\ f[k - 1] \in T /\ f[k] = Next1(k, f[k - 1])
  <2>1. \A k \in 1..n : k - 1 \in 0..n  BY <1>1
  <2> QED  BY <1>2, <1>4, <2>1
<1> DEFINE Rec(g) == [k \in 0..n |-> IF k = 0 THEN <<>>
                          ELSE IF ids[k] \in type THEN Append(g[k - 1], ids[k]) ELSE g[k - 1]]
<1>6. f = Rec(f)
  <2>1. ASSUME NEW k \in 0..n PROVE f[k] = Rec(f)[k]
    <3>1. CASE k = 0  BY <1>4, <3>1
    <3>2. CASE k # 0
      <4>1. k \in 1..n  BY <1>1, <3>2
      <4>2. f[k] = Next1(k, f[k - 1])  BY <1>5, <4>1
      <4> QED  BY <3>2, <4>2
    <3> QED  BY <3>1, <3>2
  <2>2. DOMAIN f = 0..n /\ DOMAIN Rec(f) = 0..n  BY <1>4
  <2>3. f = [k \in 0..n |-> f[k]] /\ Rec(f) = [k \in 0..n |-> Rec(f)[k]]  BY <1>4
  <2> HIDE DEF Rec
  <2> QED  BY <2>1, <2>3
<1> DEFINE h == OfType(ids, type)
           C == CHOOSE g : g = Rec(g)
<1>7. h = Rec(h)
  <2>1. h = C  BY DEF OfType
  <2> HIDE DEF Rec, h
  <2>2. C = Rec(C)  BY <1>6
  <2> QED  BY <2>1, <2>2
<1> HIDE DEF h
<1>8. h[0] = <<>> /\ \A k \in 1..n : h[k] = Next1(k, h[k - 1])
  <2>1. 0 \in 0..n /\ \A k \in 1..n : k \in 0..n /\ k # 0  BY <1>1
  <2> QED  BY <1>7, <2>1
<1>9. \A k \in 0..n : h[k] = f[k]
  <2> DEFINE A == {k \in 0..n : h[k] = f[k]}
  <2>1. 0 \in A  BY <1>1, <1>4, <1>8
  <2>2. \A k \in 1..n : k - 1 \in A => k \in A  BY <1>1, <1>5, <1>8
  <2> HIDE DEF n
  <2>3. 0..n \subseteq A
    <3> HIDE DEF A
    <3> QED  BY <1>1, <2>1, <2>2, Induct
  <2> QED  BY <2>3
<1> QED  BY <1>4, <1>8, <1>9 DEF T, h

(***************************************************************************)
(* Resolving a list of ids.                                                *)
(***************************************************************************)

(* What a lineage says of an alias, if anything, has been so since the     *)
(* call began, and so has what the node says now.                          *)
Seen == {i \in Infos : i.alias = NoMosaic \/ <<i.ns, i.alias>> \in aliases}

AliasInv ==
    lineages \in Seq(Seq(Seen)) /\ \A n \in Namespaces : <<n, chain.alias[n]>> \in aliases

(* The namespaces among the first j ids are resolved, after whatever came  *)
(* of the mosaics.                                                         *)
Through(j) ==
    LET named == OfType(call.ids, Namespaces)[j]
        before == Len(found) - Len(named)
    IN  /\ found \in Seq(Mosaics \cup {NoMosaic})
        /\ Len(found) >= Len(named)
        /\ \A i \in 1..Len(named) :
               /\ found[before + i] # NoMosaic
               /\ <<named[i], found[before + i]>> \in aliases

(* The place in the list that the loop comes to next.                      *)
Cursor == todo[Len(todo)].k

Batch == call.op = "GetMosaicInfosByAssetIds" /\ end = "ok"

(* How far it has come: while a namespace is fetched and resolved, all     *)
(* before the last one the loop went past are done.                        *)
ResolveInv ==
    Batch =>
        /\ todo = <<>> => Through(Len(call.ids))
        /\ Now("nils") \/ Now("mosaics") => Cursor = 1
        /\ Now("ids") => Cursor \in 1..Len(call.ids) + 1 /\ Through(Cursor - 1)
        /\ \A name \in {"namespace", "hierarchy", "parent", "resolve"} :
               Now(name) => Through(Cursor - 2)
        /\ Now("mosaic") =>
               /\ Cursor - 1 \in 1..Len(call.ids) /\ call.ids[Cursor - 1] \in Namespaces
               /\ <<call.ids[Cursor - 1], Head(todo).id>> \in aliases
               /\ Through(Cursor - 2)

(* What has been so since the call began stays so.                         *)
LEMMA SeenKept ==
    ASSUME aliases \subseteq aliases'
    PROVE  /\ Seen \subseteq Seen' /\ Seq(Seen) \subseteq Seq(Seen)'
           /\ Seq(Seq(Seen)) \subseteq Seq(Seq(Seen))'
<1>1. Seen \subseteq Seen'  BY DEF Seen
<1>2. \A S, T : S \subseteq T => Seq(S) \subseteq Seq(T)  OBVIOUS
<1>3. Seq(Seen) \subseteq Seq(Seen)'  BY <1>1, <1>2
<1> QED  BY <1>1, <1>2, <1>3

(* Lineages without the first.                                             *)
LEMMA TailAlias ==
    ASSUME AliasInv, UNCHANGED ledger, lineages' = Tail(lineages), lineages # <<>>
    PROVE  AliasInv'
<1>1. UNCHANGED <<aliases, chain>>  BY DEF ledger
<1>2. Seq(Seq(Seen))' = Seq(Seq(Seen))  BY <1>1 DEF Seen
<1>3. lineages' \in Seq(Seq(Seen))  BY DEF AliasInv
<1> QED  BY <1>1, <1>2, <1>3 DEF AliasInv

(* An answer gives a namespace its alias of the moment, or none.           *)
LEMMA AnswerSeen ==
    ASSUME AliasInv, LineageInv, NEW n \in Namespaces
    PROVE  \A info \in InfosOf(n) : info \in Seen
<1>1. \A info \in InfosOf(n) : info \in Infos /\ info.ns = n  BY AnswersTyped DEF LineageInv
<1>2. \A info \in InfosOf(n) : info.alias \in {chain.alias[n], NoMosaic}  BY DEF InfosOf
<1>3. <<n, chain.alias[n]>> \in aliases  BY DEF AliasInv
<1> QED  BY <1>1, <1>2, <1>3 DEF Seen

(* A namespace is fetched with such an alias,                              *)
LEMMA FetchedAlias ==
    ASSUME AliasInv, LineageInv, GetNamespaceInfo
    PROVE  AliasInv'
<1>1. UNCHANGED <<aliases, chain>>  BY DEF GetNamespaceInfo, ledger
<1>2. Seq(Seq(Seen))' = Seq(Seq(Seen))  BY <1>1 DEF Seen
<1>3. CASE UNCHANGED lineages  BY <1>1, <1>2, <1>3 DEF AliasInv
<1> DEFINE n == Head(todo).id
<1>4. ASSUME NEW info \in InfosOf(n), lineages' = <<<<info>>>> \o lineages
      PROVE  AliasInv'
  <2>1. n \in Namespaces
    <3>1. Now("namespace")  BY DEF GetNamespaceInfo
    <3>2. PICK m \in Nat : Fetching(m)  BY <3>1, Where
    <3>3. Head(todo) = todo[1]  BY <3>2, Heads DEF LineageInv
    <3> QED  BY <3>2, <3>3 DEF Fetching
  <2>2. info \in Seen  BY <2>1, AnswerSeen
  <2>3. <<<<info>>>> \in Seq(Seq(Seen))  BY <2>2
  <2>4. lineages' \in Seq(Seq(Seen))  BY <1>4, <2>3 DEF AliasInv
  <2> QED  BY <1>1, <1>2, <2>4 DEF AliasInv
<1> QED  BY <1>3, <1>4 DEF GetNamespaceInfo

(* and so are those of an account.                                         *)
LEMMA AccountAlias ==
    ASSUME AliasInv, LineageInv, GetNamespaceInfosFromAccount
    PROVE  AliasInv'
<1>1. UNCHANGED <<aliases, chain>>  BY DEF GetNamespaceInfosFromAccount, ledger
<1>2. Seq(Seq(Seen))' = Seq(Seq(Seen))  BY <1>1 DEF Seen
<1>3. CASE UNCHANGED lineages  BY <1>1, <1>2, <1>3 DEF AliasInv
<1>4. ASSUME NEW owned \in Lists(UNION {InfosOf(n) : n \in chain.live}, MaxInner),
             lineages' = [i \in DOMAIN owned |-> <<owned[i]>>]
      PROVE  AliasInv'
  <2> DEFINE answers == UNION {InfosOf(n) : n \in chain.live}
  <2>1. PICK n \in Nat : owned \in [1..n -> answers]  BY BoundsAssumption DEF Lists
  <2>2. \A info \in answers : info \in Seen
    <3>1. chain.live \subseteq Namespaces  BY DEF LineageInv, ChainType
    <3> QED  BY <3>1, AnswerSeen
  <2> HIDE DEF answers
  <2>3. ASSUME NEW i \in 1..n PROVE lineages'[i] \in Seq(Seen)
    <3>1. owned[i] \in Seen  BY <2>1, <2>2
    <3>2. lineages'[i] = <<owned[i]>>  BY <1>4, <2>1
    <3> QED  BY <3>1, <3>2
  <2>4. DOMAIN lineages' = 1..n /\ lineages' = [i \in 1..n |-> lineages'[i]]  BY <1>4, <2>1
  <2>5. lineages' \in [1..n -> Seq(Seen)]  BY <2>3, <2>4
  <2>6. lineages' \in Seq(Seq(Seen))  BY <2>5
  <2> QED  BY <1>1, <1>2, <2>6 DEF AliasInv
<1> QED  BY <1>3, <1>4 DEF GetNamespaceInfosFromAccount

(* A lineage is put together from two.                                     *)
LEMMA JoinedAlias ==
    ASSUME AliasInv, LineageInv, SetParent
    PROVE  AliasInv'
<1>1. UNCHANGED <<aliases, chain>> /\ Now("parent") /\ StackType
  BY DEF SetParent, ledger, LineageInv
<1>2. Seq(Seq(Seen))' = Seq(Seq(Seen))  BY <1>1 DEF Seen
<1>3. PICK m \in Nat : m # 0 /\ Built(m)  BY <1>1, Where
<1> DEFINE k == Head(todo).k
           part == SubSeq(lineages[2], 1, k)
           whole == part \o lineages[1]
           others == SubSeq(lineages, 3, Len(lineages))
<1>4. lineages' = <<whole>> \o others  BY DEF SetParent
<1>5. k \in 1..Len(lineages[2])
  <2>1. Head(todo) = todo[1]  BY <1>1, <1>3, Heads
  <2> QED  BY <1>1, <1>3, <2>1, ParentJoins
<1>6. Len(lineages) \in Nat /\ Len(lineages) >= 2 /\ lineages \in Seq(Seq(Seen))
  BY <1>1, <1>3 DEF StackType, Built, Stack, AliasInv
<1>7. lineages[1] \in Seq(Seen) /\ lineages[2] \in Seq(Seen)
  <2>1. 1 \in 1..Len(lineages) /\ 2 \in 1..Len(lineages)  BY <1>6
  <2> QED  BY <1>6, <2>1
<1>8. part \in Seq(Seen)
  <2> DEFINE a == lineages[2]
  <2>1. a \in Seq(Seen) /\ k \in 1..Len(a)  BY <1>5, <1>7
  <2> HIDE DEF a, k
  <2>2. SubSeq(a, 1, k) \in Seq(Seen)  BY <2>1
  <2> QED  BY <2>2 DEF a
<1>9. others \in Seq(Seq(Seen))  BY <1>6, FromThird
<1> HIDE DEF part, others
<1>10. whole \in Seq(Seen)  BY <1>7, <1>8
<1> HIDE DEF whole
<1>11. <<whole>> \o others \in Seq(Seq(Seen))  BY <1>9, <1>10
<1> QED  BY <1>1, <1>2, <1>4, <1>11 DEF AliasInv

(* An alias is remembered when the chain changes it.                       *)
LEMMA RelinkAlias ==
    ASSUME AliasInv, LineageInv, Relink
    PROVE  AliasInv'
<1>1. PICK n \in Namespaces, m \in Mosaics \cup {NoMosaic} :
          /\ chain' = [chain EXCEPT !.alias[n] = m]
          /\ aliases' = aliases \cup {<<n, m>>}
  BY DEF Relink
<1>2. UNCHANGED lineages  BY DEF Relink, Between
<1>3. lineages' \in Seq(Seq(Seen))'  BY <1>1, <1>2, SeenKept DEF AliasInv
<1>4. ASSUME NEW i \in Namespaces PROVE <<i, chain'.alias[i]>> \in aliases'
  <2>1. chain'.alias = [chain.alias EXCEPT ![n] = m]
    BY <1>1 DEF LineageInv, ChainType
  <2>2. chain'.alias[i] = IF i = n THEN m ELSE chain.alias[i]
    BY <2>1 DEF LineageInv, ChainType
  <2> QED  BY <1>1, <2>2 DEF AliasInv
<1> QED  BY <1>3, <1>4 DEF AliasInv

(* Every step keeps what is known of aliases.                              *)
LEMMA StepAlias == AliasInv /\ LineageInv /\ [Next]_vars => AliasInv'
<1> SUFFICES ASSUME AliasInv, LineageInv, [Next]_vars PROVE AliasInv'  OBVIOUS
<1>1. ASSUME UNCHANGED <<lineages, aliases>>, chain'.alias = chain.alias PROVE AliasInv'
  BY <1>1 DEF AliasInv, Seen
<1>2. CASE Calls  BY <1>1, <1>2 DEF Calls, Call, Begin, ledger
<1>3. CASE GetNamespaceInfo  BY <1>3, FetchedAlias
<1>4. CASE GetNamespaceInfosFromAccount  BY <1>4, AccountAlias
<1>5. CASE SetParent  BY <1>5, JoinedAlias
<1>6. CASE Collect \/ GetLinked \/ Resolve
  <2>1. PICK name \in {"collect", "alias", "resolve"} : Now(name)
    BY <1>6 DEF Collect, GetLinked, Resolve
  <2>2. lineages # <<>>  BY <2>1, Where, BuiltTasks DEF LineageInv
  <2> QED  BY <1>6, <2>2, TailAlias DEF Collect, GetLinked, Resolve
<1>7. CASE \/ buildNamespaceHierarchy \/ buildNamespacesHierarchy \/ RefuseIds \/ MakeNils
           \/ MosaicInfosOf \/ MosaicInfoOf \/ NamespaceIds \/ AskHeight \/ AskAtHeight
           \/ AskBlock \/ (\E one \in BOOLEAN : AskTransactions(one)) \/ AssertAggregates
  BY <1>1, <1>7
     DEF buildNamespaceHierarchy, buildNamespacesHierarchy, RefuseIds, MakeNils, MosaicInfosOf,
         MosaicInfoOf, NamespaceIds, AskHeight, AskAtHeight, AskBlock, AskTransactions,
         AssertAggregates, ledger
<1>8. CASE MapTransactions  BY <1>1, <1>8, MapSteps DEF ledger
<1>9. CASE Relink  BY <1>9, RelinkAlias
<1>10. CASE Expire \/ Rollback
  BY <1>1, <1>10 DEF Expire, Rollback, Between, LineageInv, ChainType
<1>11. CASE UNCHANGED vars  BY <1>1, <1>11 DEF vars, ledger
<1> QED  BY <1>2, <1>3, <1>4, <1>5, <1>6, <1>7, <1>8, <1>9, <1>10, <1>11 DEF Next

(* The namespaces among the first k ids.                                   *)
LEMMA NamedSteps ==
    ASSUME IdsType, call.op = "GetMosaicInfosByAssetIds"
    PROVE  LET f == OfType(call.ids, Namespaces)
           IN  /\ f[0] = <<>>
               /\ \A k \in 0..Len(call.ids) : f[k] \in Seq(Namespaces)
               /\ \A k \in 1..Len(call.ids) :
                      /\ call.ids[k] \in Namespaces => f[k] = Append(f[k - 1], call.ids[k])
                      /\ call.ids[k] \in Mosaics => f[k] = f[k - 1]
<1>1. call.ids \in Seq(Namespaces \cup Mosaics)  BY DEF IdsType
<1>2. (Namespaces \cup Mosaics) \cap Namespaces = Namespaces  OBVIOUS
<1> DEFINE f == OfType(call.ids, Namespaces)
<1> HIDE DEF f
<1>3. /\ f[0] = <<>> /\ \A k \in 0..Len(call.ids) : f[k] \in Seq(Namespaces)
      /\ \A k \in 1..Len(call.ids) :
             f[k] = IF call.ids[k] \in Namespaces THEN Append(f[k - 1], call.ids[k])
                    ELSE f[k - 1]
  BY <1>1, <1>2, OfTypeSteps DEF f
<1>4. \A id \in Mosaics : id \notin Namespaces  BY ParentAssumption
<1>5. \A k \in 1..Len(call.ids) :
          /\ call.ids[k] \in Namespaces => f[k] = Append(f[k - 1], call.ids[k])
          /\ call.ids[k] \in Mosaics => f[k] = f[k - 1]
  BY <1>3, <1>4
<1> QED  BY <1>3, <1>5 DEF f

(* What was found stays as it was.                                         *)
LEMMA ThroughKept ==
    ASSUME UNCHANGED <<call, found>>, aliases \subseteq aliases', NEW j, Through(j)
    PROVE  Through(j)'
BY DEF Through

(* Nothing is resolved yet.                                                *)
LEMMA NothingResolved ==
    ASSUME IdsType, call.op = "GetMosaicInfosByAssetIds", UNCHANGED call,
           found' \in Seq(Mosaics \cup {NoMosaic})
    PROVE  Through(0)'
<1>1. OfType(call.ids, Namespaces)[0] = <<>>  BY NamedSteps
<1>2. Len(found') \in Nat /\ Len(<<>>) = 0 /\ 1..0 = {}  OBVIOUS
<1> QED  BY <1>1, <1>2 DEF Through

(* One more is resolved,                                                   *)
LEMMA OneResolved ==
    ASSUME IdsType, call.op = "GetMosaicInfosByAssetIds", UNCHANGED <<call, aliases>>,
           NEW k \in 1..Len(call.ids), call.ids[k] \in Namespaces, Through(k - 1),
           NEW m \in Mosaics, <<call.ids[k], m>> \in aliases, found' = Append(found, m)
    PROVE  Through(k)'
<1> DEFINE s == OfType(call.ids, Namespaces)[k - 1]
           t == OfType(call.ids, Namespaces)[k]
           n == call.ids[k]
           b == Len(found) - Len(s)
<1>1. s \in Seq(Namespaces) /\ t = Append(s, n)
  <2>1. Len(call.ids) \in Nat  BY DEF IdsType
  <2>2. k - 1 \in 0..Len(call.ids)  BY <2>1
  <2> QED  BY <2>2, NamedSteps
<1>2. /\ found \in Seq(Mosaics \cup {NoMosaic}) /\ Len(found) >= Len(s)
      /\ \A i \in 1..Len(s) : found[b + i] # NoMosaic /\ <<s[i], found[b + i]>> \in aliases
  BY DEF Through
<1>3. UNCHANGED t  OBVIOUS
<1>4. m # NoMosaic /\ <<n, m>> \in aliases /\ n \in Namespaces  BY ParentAssumption
<1>5. Len(s) \in Nat /\ Len(found) \in Nat /\ b \in Nat /\ b + Len(s) = Len(found)
  BY <1>1, <1>2
<1> HIDE DEF s, t, n, b
<1>6. Len(t) = Len(s) + 1 /\ t[Len(s) + 1] = n /\ \A i \in 1..Len(s) : t[i] = s[i]
  BY <1>1, <1>4
<1>7. /\ found' \in Seq(Mosaics \cup {NoMosaic}) /\ Len(found') = Len(found) + 1
      /\ found'[Len(found) + 1] = m /\ \A i \in 1..Len(found) : found'[i] = found[i]
  BY <1>2, <1>5
<1>8. ASSUME NEW i \in 1..Len(t)
      PROVE  found'[b + i] # NoMosaic /\ <<t[i], found'[b + i]>> \in aliases
  <2>1. CASE i = Len(s) + 1
    <3>1. b + i = Len(found) + 1  BY <1>5, <2>1
    <3> QED  BY <1>4, <1>6, <1>7, <2>1, <3>1
  <2>2. CASE i # Len(s) + 1
    <3>1. i \in 1..Len(s) /\ b + i \in 1..Len(found)  BY <1>5, <1>6, <2>2
    <3> QED  BY <1>2, <1>6, <1>7, <3>1
  <2> QED  BY <2>1, <2>2
<1>9. Len(found') >= Len(t) /\ Len(found') - Len(t) = b  BY <1>2, <1>5, <1>6, <1>7
<1> QED  BY <1>3, <1>7, <1>8, <1>9 DEF Through, t

(* and a mosaic is passed over.                                            *)
LEMMA MosaicPassed ==
    ASSUME IdsType, call.op = "GetMosaicInfosByAssetIds", UNCHANGED <<call, found, aliases>>,
           NEW k \in 1..Len(call.ids), call.ids[k] \in Mosaics, Through(k - 1)
    PROVE  Through(k)'
<1>1. OfType(call.ids, Namespaces)[k] = OfType(call.ids, Namespaces)[k - 1]  BY NamedSteps
<1>2. Through(k)  BY <1>1 DEF Through
<1> QED  BY <1>2, ThroughKept

(* The last task stays while others come and go before it.                 *)
LEMMA LastKept ==
    ASSUME NEW S, NEW s \in Seq(S), Len(s) >= 2, NEW p \in Seq(S)
    PROVE  LET r == p \o Tail(s) IN r # <<>> /\ r[Len(r)] = s[Len(s)]
<1> DEFINE q == Tail(s)
           r == p \o q
<1>1. q \in Seq(S) /\ Len(q) = Len(s) - 1 /\ Len(s) \in Nat /\ Len(p) \in Nat
      /\ \A i \in 1..Len(q) : q[i] = s[i + 1]
  OBVIOUS
<1> HIDE DEF q
<1>2. Len(r) = Len(p) + Len(q) /\ \A i \in Len(p) + 1..Len(p) + Len(q) : r[i] = q[i - Len(p)]
  BY <1>1, After
<1> HIDE DEF r
<1>3. Len(r) \in Len(p) + 1..Len(p) + Len(q) /\ Len(r) - Len(p) = Len(q)
      /\ Len(q) \in 1..Len(q) /\ Len(q) + 1 = Len(s) /\ Len(r) # 0
  BY <1>1, <1>2
<1>4. r[Len(r)] = q[Len(q)] /\ q[Len(q)] = s[Len(s)]  BY <1>1, <1>2, <1>3
<1> QED  BY <1>3, <1>4 DEF r, q

(* The tasks while a namespace is fetched.                                 *)
LEMMA WaitingTasks ==
    ASSUME LineageInv, call.op = "GetMosaicInfosByAssetIds",
           NEW name \in {"namespace", "hierarchy", "parent"}, Now(name)
    PROVE  /\ todo \in Seq(Tasks) /\ Len(todo) \in Nat /\ Len(todo) >= 2
           /\ name = "hierarchy" => todo[2].do \in {"parent", "resolve"}
           /\ name = "parent" => todo[2].do = "hierarchy"
<1>1. todo \in Seq(Tasks) /\ Len(todo) \in Nat  BY DEF LineageInv, StackType
<1>2. ASSUME NEW m \in Nat, NEW o \in {0, 1}, NEW h, Stack(o, h, m) PROVE Len(todo) >= 2
  <2>1. o + 2 * m + 1 >= 1  OBVIOUS
  <2>2. Len(todo) = o + 2 * m + 1 + 1  BY <1>2 DEF Stack, Base
  <2> QED  BY <2>1, <2>2
<1>3. CASE name = "namespace"  BY <1>1, <1>2, <1>3, Where DEF Fetching
<1>4. CASE name = "hierarchy"
  <2>1. PICK m \in Nat : Climbing(m)  BY <1>4, Where
  <2>2. Stack(1, 1, m)  BY <2>1 DEF Climbing
  <2>3. CASE m = 0
    <3>1. Base(2)
      <4>1. 1 + 2 * m + 1 = 2  BY <2>3
      <4> QED  BY <2>2, <4>1 DEF Stack
    <3>2. todo[2].do = "resolve"  BY <3>1, TaskParts DEF Base
    <3> QED  BY <1>1, <1>2, <1>4, <2>2, <3>2
  <2>4. CASE m # 0
    <3>1. 1 \in 1..m /\ 1 + 2 * 1 - 1 = 2  BY <2>4
    <3>2. Frame(1 + 2 * 1 - 1, 1 + 1)  BY <2>2, <3>1 DEF Stack
    <3>3. todo[2].do = "parent"  BY <3>1, <3>2, TaskParts DEF Frame
    <3> QED  BY <1>1, <1>2, <1>4, <2>2, <3>3
  <2> QED  BY <2>3, <2>4
<1>5. CASE name = "parent"
  <2>1. PICK m \in Nat : m # 0 /\ Built(m)  BY <1>5, Where
  <2>2. Stack(0, 1, m)  BY <2>1 DEF Built
  <2>3. 1 \in 1..m /\ 0 + 2 * 1 - 1 = 1 /\ 1 + 1 = 2  BY <2>1
  <2>4. Frame(0 + 2 * 1 - 1, 1 + 1)  BY <2>2, <2>3 DEF Stack
  <2>5. todo[2].do = "hierarchy"  BY <2>3, <2>4, TaskParts DEF Frame
  <2> QED  BY <1>1, <1>2, <1>5, <2>2, <2>5
<1> QED  BY <1>3, <1>4, <1>5

(* One step of fetching a namespace.                                       *)
LEMMA WaitingResolve ==
    ASSUME ResolveInv, LineageInv, call.op = "GetMosaicInfosByAssetIds",
           GetNamespaceInfo \/ buildNamespaceHierarchy \/ SetParent
    PROVE  ResolveInv'
<1> DEFINE W == {"namespace", "hierarchy", "parent", "resolve"}
<1>1. UNCHANGED <<call, found, aliases>>
  BY DEF GetNamespaceInfo, buildNamespaceHierarchy, SetParent, ledger
<1>2. PICK name \in {"namespace", "hierarchy", "parent"} : Now(name)
  BY DEF GetNamespaceInfo, buildNamespaceHierarchy, SetParent
<1>3. todo \in Seq(Tasks) /\ Len(todo) \in Nat /\ Len(todo) >= 2 /\ end = "ok"
  BY <1>2, WaitingTasks DEF Now
<1>4. Through(Cursor - 2)  BY <1>2, <1>3 DEF ResolveInv, Batch
<1>5. CASE \E how : how # "ok" /\ Stop(how)  BY <1>5 DEF Stop, ResolveInv, Batch
<1>6. ASSUME todo' # <<>>, Head(todo').do \in W, todo'[Len(todo')] = todo[Len(todo)]
      PROVE  ResolveInv'
  <2>1. Cursor' = Cursor  BY <1>6 DEF Cursor
  <2>2. PICK j : j = Cursor - 2  OBVIOUS
  <2>3. Through(j)'  BY <1>1, <1>4, <2>2, ThroughKept
  <2>4. Through(Cursor - 2)'  BY <2>1, <2>2, <2>3
  <2> QED  BY <1>6, <2>4 DEF ResolveInv, Now
<1>7. ASSUME NEW p \in Seq(Tasks), todo' = p \o Tail(todo),
             IF p = <<>> THEN todo[2].do \in W ELSE p[1].do \in W
      PROVE  ResolveInv'
  <2>1. todo' # <<>> /\ todo'[Len(todo')] = todo[Len(todo)]  BY <1>3, <1>7, LastKept
  <2>2. Head(todo').do \in W
    <3>1. CASE p = <<>>
      <4>1. Tail(todo) \in Seq(Tasks) /\ Tail(todo) # <<>> /\ Head(Tail(todo)) = todo[2]
        <5> DEFINE q == Tail(todo)
        <5>1. q \in Seq(Tasks) /\ Len(q) = Len(todo) - 1 /\ \A i \in 1..Len(q) : q[i] = todo[i + 1]
          BY <1>3
        <5> HIDE DEF q
        <5>2. 1 \in 1..Len(q) /\ 1 + 1 = 2  BY <1>3, <5>1
        <5>3. q # <<>> /\ Head(q) = q[1] /\ q[1] = todo[2]  BY <5>1, <5>2
        <5> QED  BY <5>1, <5>3 DEF q
      <4>2. p \o Tail(todo) = Tail(todo)  BY <3>1, <4>1
      <4> QED  BY <1>7, <3>1, <4>1, <4>2
    <3>2. CASE p # <<>>
      <4> DEFINE q == Tail(todo)
      <4>1. q \in Seq(Tasks)  BY <1>3
      <4> HIDE DEF q
      <4>2. Head(p \o q) = p[1]  BY <3>2, <4>1
      <4> QED  BY <1>7, <3>2, <4>2 DEF q
    <3> QED  BY <3>1, <3>2
  <2> QED  BY <1>6, <2>1, <2>2
<1>8. CASE GetNamespaceInfo
  <2> DEFINE t == Task("hierarchy", NoNamespace, 1)
  <2>1. (\E how : how # "ok" /\ Stop(how)) \/ todo' = <<t>> \o Tail(todo)
    BY <1>8 DEF GetNamespaceInfo, Then
  <2>2. t \in Tasks /\ t.do = "hierarchy"
    <3>1. "hierarchy" \in TaskNames  BY DEF TaskNames
    <3> QED  BY <3>1, TaskParts
  <2> HIDE DEF t
  <2>3. <<t>> \in Seq(Tasks) /\ <<t>> # <<>> /\ <<t>>[1] = t  BY <2>2
  <2> QED  BY <1>5, <1>7, <2>1, <2>2, <2>3
<1>9. CASE buildNamespaceHierarchy
  <2> DEFINE k == Head(todo).k
             parent == Head(lineages)[k].parent
             a == Task("namespace", parent, 0)
             b == Task("parent", NoNamespace, k)
             c == Task("hierarchy", NoNamespace, k + 1)
  <2>1. todo' = (IF parent = NoNamespace THEN <<>> ELSE <<a, b, c>>) \o Tail(todo)
    BY <1>9 DEF buildNamespaceHierarchy, Then
  <2>2. Now("hierarchy")  BY <1>9 DEF buildNamespaceHierarchy
  <2>3. PICK m \in Nat : Climbing(m)  BY <2>2, Where
  <2>4. Head(todo) = todo[1] /\ StackType  BY <2>3, Heads DEF LineageInv
  <2>5. /\ k \in Nat /\ lineages \in Seq(Seq(Infos)) /\ k \in 1..Len(lineages[1])
        /\ Len(lineages) >= 1 /\ Len(lineages) \in Nat
    <3>1. k \in Nat  BY <1>3, <2>4, FirstTask
    <3>2. Len(lineages) \in Nat /\ Len(lineages) >= 1 /\ lineages \in Seq(Seq(Infos))
      BY <2>3, <2>4 DEF StackType, Climbing, Stack
    <3>3. 1 \in 1..Len(lineages)  BY <3>2
    <3>4. Len(lineages[1]) \in Nat  BY <3>2, <3>3
    <3> QED  BY <2>3, <2>4, <3>1, <3>2, <3>4 DEF Climbing
  <2>6. parent \in Namespaces \cup {NoNamespace}
    <3>1. 1 \in 1..Len(lineages) /\ Head(lineages) = lineages[1]  BY <2>5
    <3>2. lineages[1] \in Seq(Infos)  BY <2>5, <3>1
    <3>3. lineages[1][k] \in Infos  BY <2>5, <3>2
    <3> QED  BY <3>1, <3>3 DEF Infos
  <2>7. CASE parent = NoNamespace
    <3>1. todo' = <<>> \o Tail(todo) /\ <<>> \in Seq(Tasks)  BY <2>1, <2>7
    <3>2. todo[2].do \in W  BY <2>2, WaitingTasks
    <3> QED  BY <1>7, <3>1, <3>2
  <2>8. CASE parent # NoNamespace
    <3>1. a \in Tasks /\ b \in Tasks /\ c \in Tasks /\ a.do = "namespace"
      <4>1. parent \in Namespaces /\ k + 1 \in Nat /\ k \in Nat  BY <2>5, <2>6, <2>8
      <4> HIDE DEF parent, k
      <4>2. {"namespace", "parent", "hierarchy"} \subseteq TaskNames  BY DEF TaskNames
      <4> QED  BY <4>1, <4>2, TaskParts
    <3> HIDE DEF a, b, c
    <3>2. <<a, b, c>> \in Seq(Tasks) /\ <<a, b, c>> # <<>> /\ <<a, b, c>>[1] = a  BY <3>1
    <3>3. todo' = <<a, b, c>> \o Tail(todo)  BY <2>1, <2>8
    <3> DEFINE p == <<a, b, c>>
    <3>4. p \in Seq(Tasks) /\ p # <<>> /\ todo' = p \o Tail(todo) /\ p[1].do \in W
      BY <3>1, <3>2, <3>3
    <3> HIDE DEF p, W
    <3>5. IF p = <<>> THEN todo[2].do \in W ELSE p[1].do \in W  BY <3>4
    <3> QED  BY <1>7, <3>4, <3>5
  <2> QED  BY <2>7, <2>8
<1>10. CASE SetParent
  <2>1. todo' = <<>> \o Tail(todo) /\ <<>> \in Seq(Tasks) /\ Now("parent")
    BY <1>10 DEF SetParent, Then
  <2>2. todo[2].do \in W  BY <2>1, WaitingTasks
  <2> QED  BY <1>7, <2>1, <2>2
<1> QED  BY <1>8, <1>9, <1>10

(* The parts of short lists of tasks, of which the last is the loop's.     *)
LEMMA CursorOf ==
    ASSUME NEW t, NEW k, todo = <<t, Task("ids", NoNamespace, k)>>
    PROVE  Head(todo) = t /\ Cursor = k /\ todo # <<>> /\ <<>> \o Tail(todo) =
               <<Task("ids", NoNamespace, k)>>
<1> DEFINE u == Task("ids", NoNamespace, k)
<1>1. u.k = k  BY TaskParts
<1> HIDE DEF u
<1>2. todo = <<t, u>>  BY DEF u
<1>3. Head(todo) = t /\ todo # <<>> /\ Len(todo) = 2 /\ todo[2] = u  BY <1>2
<1>4. <<>> \o Tail(todo) = <<u>>  BY <1>2, RestOfTasks
<1> QED  BY <1>1, <1>3, <1>4 DEF Cursor, u

(* The loop comes to its next id.                                          *)
LEMMA NextTurn ==
    ASSUME NEW k, Through(k - 1)', k \in 1..Len(call'.ids) + 1,
           todo' = <<Task("ids", NoNamespace, k)>>
    PROVE  ResolveInv'
<1> DEFINE u == Task("ids", NoNamespace, k)
<1>1. u.k = k /\ u.do = "ids"  BY TaskParts
<1> HIDE DEF u
<1>2. todo' = <<u>>  BY DEF u
<1>3. todo' # <<>> /\ Head(todo') = u /\ Len(todo') = 1 /\ todo'[1] = u  BY <1>2
<1>4. Cursor' = k  BY <1>1, <1>3 DEF Cursor
<1>5. Through(Cursor - 1)'  BY <1>4
<1> QED  BY <1>1, <1>3, <1>4, <1>5 DEF ResolveInv, Now

(* The infos of the mosaics, or nil, have come.                            *)
LEMMA AheadResolve ==
    ASSUME ResolveInv, LineageInv, MakeNils \/ MosaicInfosOf
    PROVE  ResolveInv'
<1>1. UNCHANGED call /\ IdsType  BY DEF MakeNils, MosaicInfosOf, LineageInv
<1>2. PICK name \in {"nils", "mosaics"} :
          /\ Now(name) /\ (name = "nils" => MakeNils) /\ (name = "mosaics" => MosaicInfosOf)
  BY DEF MakeNils, MosaicInfosOf
<1>3. PICK k \in Nat \ {0} :
          /\ call.op = "GetMosaicInfosByAssetIds"
          /\ todo = <<Do(name), Task("ids", NoNamespace, k)>>
  BY <1>2, RestingTasks
<1>4. Cursor = k /\ <<>> \o Tail(todo) = <<Task("ids", NoNamespace, k)>>  BY <1>3, CursorOf
<1>5. call.ids \in Seq(Namespaces \cup Mosaics) /\ Len(call.ids) \in Nat  BY <1>1, <1>3 DEF IdsType
<1>6. CASE \E how : how # "ok" /\ Stop(how)  BY <1>6 DEF Stop, ResolveInv, Batch
<1>7. CASE Then(<<>>) /\ found' \in Seq(Mosaics \cup {NoMosaic})
  <2>1. Batch  BY <1>2, <1>3 DEF Batch, Now
  <2>2. k = 1  BY <1>2, <1>4, <2>1 DEF ResolveInv
  <2>3. Through(0)'  BY <1>1, <1>3, <1>7, NothingResolved
  <2>4. 1 \in 1..Len(call'.ids) + 1 /\ 1 - 1 = 0  BY <1>1, <1>5
  <2>5. todo' = <<Task("ids", NoNamespace, 1)>>  BY <1>4, <1>7, <2>2 DEF Then
  <2>6. Through(1 - 1)'  BY <2>3, <2>4
  <2> QED  BY <2>4, <2>5, <2>6, NextTurn
<1>8. CASE name = "nils"
  <2>1. Then(<<>>) /\ found' = [i \in DOMAIN call.ids |-> NoMosaic]  BY <1>2, <1>8 DEF MakeNils
  <2>2. found' \in Seq(Mosaics \cup {NoMosaic})  BY <1>5, <2>1
  <2> QED  BY <1>7, <2>1, <2>2
<1>9. CASE name = "mosaics"
  <2>1. \/ \E how : how # "ok" /\ Stop(how)
        \/ Then(<<>>) /\ found' \in Lists(Mosaics, MaxInner)
    BY <1>2, <1>9 DEF MosaicInfosOf
  <2>2. \A sent \in Lists(Mosaics, MaxInner) : sent \in Seq(Mosaics \cup {NoMosaic})
    BY BoundsAssumption DEF Lists
  <2> QED  BY <1>6, <1>7, <2>1, <2>2
<1> QED  BY <1>8, <1>9

(* The loop looks at an id.                                                *)
LEMMA LoopResolve ==
    ASSUME ResolveInv, LineageInv, NamespaceIds
    PROVE  ResolveInv'
<1>1. UNCHANGED <<call, found, aliases>> /\ Now("ids") /\ IdsType
  BY DEF NamespaceIds, ledger, LineageInv
<1>2. PICK k \in Nat \ {0} :
          call.op = "GetMosaicInfosByAssetIds" /\ todo = <<Task("ids", NoNamespace, k)>>
  BY <1>1, RestingTasks
<1> DEFINE u == Task("ids", NoNamespace, k)
           next == Task("ids", NoNamespace, k + 1)
           id == call.ids[k]
<1>3. Head(todo).k = k /\ Cursor = k
  <2>1. u.k = k  BY TaskParts
  <2> HIDE DEF u
  <2>2. todo = <<u>>  BY <1>2 DEF u
  <2>3. Head(todo) = u /\ Len(todo) = 1 /\ todo[1] = u  BY <2>2
  <2> QED  BY <2>1, <2>3 DEF Cursor
<1>4. k \in 1..Len(call.ids) + 1 /\ Through(k - 1)
  <2>1. Batch  BY <1>1, <1>2 DEF Batch, Now
  <2>2. Cursor \in 1..Len(call.ids) + 1 /\ Through(Cursor - 1)  BY <1>1, <2>1 DEF ResolveInv
  <2> QED  BY <1>3, <2>2
<1>5. call.ids \in Seq(Namespaces \cup Mosaics) /\ Len(call.ids) \in Nat
  BY <1>1, <1>2 DEF IdsType
<1>6. CASE k > Len(call.ids)
  <2>1. k - 1 = Len(call.ids)  BY <1>4, <1>5, <1>6
  <2>2. Through(Len(call.ids))  BY <1>4, <2>1
  <2>3. PICK j : j = Len(call.ids)  OBVIOUS
  <2>4. Through(j)'  BY <1>1, <2>2, <2>3, ThroughKept
  <2>5. Through(Len(call.ids))'  BY <1>1, <2>3, <2>4
  <2>6. Then(<<>>)  BY <1>3, <1>6 DEF NamespaceIds
  <2>7. todo' = <<>>  BY <1>2, <2>6, RestOfTasks DEF Then
  <2> QED  BY <2>5, <2>7 DEF ResolveInv, Now
<1>7. CASE ~(k > Len(call.ids))
  <2>1. k \in 1..Len(call.ids) /\ id \in Namespaces \cup Mosaics  BY <1>4, <1>5, <1>7
  <2>2. CASE id \in Mosaics
    <3>1. Then(<<next>>)  BY <1>3, <1>7, <2>2 DEF NamespaceIds
    <3>2. todo' = <<next>>
      <4> HIDE DEF next
      <4>1. \A a, b : <<b>> \o Tail(<<a>>) = <<b>>  OBVIOUS
      <4> QED  BY <1>2, <3>1, <4>1 DEF Then
    <3>3. Through(k)'  BY <1>1, <1>2, <1>4, <2>1, <2>2, MosaicPassed
    <3>4. (k + 1) - 1 = k /\ k + 1 \in 1..Len(call'.ids) + 1  BY <1>1, <1>5, <2>1
    <3>5. Through((k + 1) - 1)'  BY <3>3, <3>4
    <3> QED  BY <3>2, <3>4, <3>5, NextTurn
  <2>3. CASE id \notin Mosaics
    <3> DEFINE a == Task("namespace", id, 0)
               b == Do("resolve")
    <3>1. Then(<<a, b, next>>)  BY <1>3, <1>7, <2>3 DEF NamespaceIds
    <3>2. a.do = "namespace" /\ next.k = k + 1  BY TaskParts
    <3>3. todo' = <<a, b, next>> \o Tail(<<u>>)  BY <1>2, <3>1 DEF Then
    <3> HIDE DEF a, b, next, u
    <3>4. todo' = <<a, b, next>>
      <4>1. Tail(<<u>>) = <<>>  OBVIOUS
      <4>2. <<a, b, next>> \o <<>> = <<a, b, next>>  OBVIOUS
      <4> QED  BY <3>3, <4>1, <4>2
    <3>5. todo' # <<>> /\ Head(todo') = a /\ Len(todo') = 3 /\ todo'[3] = next  BY <3>4
    <3>6. Cursor' = k + 1  BY <3>2, <3>5 DEF Cursor
    <3>7. Through(k - 1)'  BY <1>1, <1>4, ThroughKept
    <3>8. (k + 1) - 2 = k - 1  OBVIOUS
    <3>9. Through(Cursor - 2)'  BY <3>6, <3>7, <3>8
    <3> QED  BY <3>2, <3>5, <3>9 DEF ResolveInv, Now
  <2> QED  BY <2>1, <2>2, <2>3
<1> QED  BY <1>6, <1>7

(* The alias of the namespace that the loop went past is asked about.      *)
LEMMA AliasResolve ==
    ASSUME ResolveInv, AliasInv, LineageInv, Resolve, call.op = "GetMosaicInfosByAssetIds"
    PROVE  ResolveInv'
<1> DEFINE alias == Head(lineages)[1].alias
           mosaic == Task("mosaic", alias, 0)
<1>1. /\ Now("resolve") /\ UNCHANGED <<call, found, aliases>> /\ StackType
      /\ IF alias = NoMosaic THEN Stop("error") ELSE todo' = <<mosaic>> \o Tail(todo)
  BY DEF Resolve, LineageInv, Then, ledger
<1>2. Built(0)  BY <1>1, Where
<1>3. PICK k \in Nat \ {0} : todo = <<Do("resolve"), Task("ids", NoNamespace, k)>>
  BY <1>1, <1>2, BuiltTasks
<1>4. CASE alias = NoMosaic  BY <1>1, <1>4 DEF Stop, ResolveInv, Batch
<1>5. CASE alias # NoMosaic
  <2>1. Cursor = k  BY <1>3, CursorOf
  <2>2. Through(k - 2)
    <3>1. Batch  BY <1>1 DEF Batch, Now
    <3>2. Through(Cursor - 2)  BY <1>1, <3>1 DEF ResolveInv
    <3> QED  BY <2>1, <3>2
  <2>3. lineages # <<>> /\ Head(lineages) = lineages[1] /\ lineages[1][1] \in Infos
    BY <1>1, <1>2, BuiltTasks
  <2>4. k - 1 \in 1..Len(call.ids) /\ call.ids[k - 1] = lineages[1][1].ns
    <3>1. 0 + 2 * 0 + 1 = 1 /\ 1 + 0 = 1  OBVIOUS
    <3>2. About(First(1))  BY <1>2, <3>1 DEF Built, Stack
    <3> QED  BY <2>1, <3>2 DEF About, First, Cursor
  <2>5. <<lineages[1][1].ns, alias>> \in aliases
    <3>1. lineages[1] \in Seq(Seen) /\ lineages[1] # <<>>
      <4>1. 1 \in 1..Len(lineages)  BY <1>1, <2>3 DEF StackType
      <4>2. lineages[1] \in Seq(Seen)  BY <4>1 DEF AliasInv
      <4>3. Len(lineages[1]) >= 1  BY <1>2 DEF Built, Complete
      <4> QED  BY <4>2, <4>3
    <3>2. lineages[1][1] \in Seen  BY <3>1
    <3> QED  BY <1>5, <2>3, <3>2 DEF Seen
  <2> HIDE DEF alias
  <2>6. todo' = <<mosaic, Task("ids", NoNamespace, k)>>
    <3> HIDE DEF mosaic
    <3> QED  BY <1>1, <1>3, <1>5, RestOfTasks
  <2>7. mosaic.do = "mosaic" /\ mosaic.id = alias  BY TaskParts
  <2> HIDE DEF mosaic
  <2>8. Head(todo') = mosaic /\ Cursor' = k /\ todo' # <<>>
    <3> DEFINE u == Task("ids", NoNamespace, k)
    <3>1. u.k = k  BY TaskParts
    <3> HIDE DEF u
    <3>2. todo' = <<mosaic, u>>  BY <2>6 DEF u
    <3>3. Head(todo') = mosaic /\ Len(todo') = 2 /\ todo'[2] = u /\ todo' # <<>>  BY <3>2
    <3> QED  BY <3>1, <3>3 DEF Cursor
  <2>9. Through(k - 2)'  BY <1>1, <2>2, ThroughKept
  <2>10. Through(Cursor - 2)'  BY <2>8, <2>9
  <2>11. /\ Cursor' - 1 \in 1..Len(call'.ids) /\ call'.ids[Cursor' - 1] \in Namespaces
         /\ <<call'.ids[Cursor' - 1], Head(todo').id>> \in aliases'
    BY <1>1, <2>3, <2>4, <2>5, <2>7, <2>8 DEF Infos
  <2> QED  BY <2>7, <2>8, <2>10, <2>11 DEF ResolveInv, Now
<1> QED  BY <1>4, <1>5

(* The mosaic's info has come.                                             *)
LEMMA MosaicResolve ==
    ASSUME ResolveInv, LineageInv, MosaicInfoOf, call.op = "GetMosaicInfosByAssetIds"
    PROVE  ResolveInv'
<1>1. UNCHANGED <<call, aliases>> /\ Now("mosaic") /\ IdsType
  BY DEF MosaicInfoOf, ledger, LineageInv
<1>2. PICK m \in Mosaics, k \in Nat \ {0} :
          todo = <<Task("mosaic", m, 0), Task("ids", NoNamespace, k)>>
  BY <1>1, RestingTasks
<1>3. Cursor = k /\ Head(todo).id = m /\ <<>> \o Tail(todo) = <<Task("ids", NoNamespace, k)>>
  BY <1>2, CursorOf, TaskParts
<1>4. CASE \E how : how # "ok" /\ Stop(how)  BY <1>4 DEF Stop, ResolveInv, Batch
<1>5. CASE found' = Append(found, m) /\ Then(<<>>)
  <2>1. Batch  BY <1>1 DEF Batch, Now
  <2>2. /\ Cursor - 1 \in 1..Len(call.ids) /\ call.ids[Cursor - 1] \in Namespaces
        /\ <<call.ids[Cursor - 1], Head(todo).id>> \in aliases
        /\ Through(Cursor - 2)
    BY <1>1, <2>1 DEF ResolveInv
  <2>3. PICK j \in 1..Len(call.ids) : j = k - 1  BY <1>3, <2>2
  <2>4. Through(j - 1)
    <3>1. j - 1 = Cursor - 2  BY <1>3, <2>3
    <3> QED  BY <2>2, <3>1
  <2>5. call.ids[j] \in Namespaces /\ <<call.ids[j], m>> \in aliases  BY <1>3, <2>2, <2>3
  <2>6. Through(j)'  BY <1>1, <1>5, <2>4, <2>5, OneResolved
  <2>7. Through(k - 1)'  BY <2>3, <2>6
  <2>8. k \in 1..Len(call'.ids) + 1
    <3>1. Len(call.ids) \in Nat  BY <1>1 DEF IdsType
    <3> QED  BY <1>1, <2>3, <3>1
  <2>9. todo' = <<Task("ids", NoNamespace, k)>>  BY <1>3, <1>5 DEF Then
  <2> QED  BY <2>7, <2>8, <2>9, NextTurn
<1> QED  BY <1>3, <1>4, <1>5 DEF MosaicInfoOf

(* The call begins, and with it the first task.                            *)
LEMMA CallsResolve ==
    ASSUME Calls
    PROVE  ResolveInv'
<1>1. ASSUME NEW op, NEW ids, NEW tasks, Begin(op, ids, tasks),
             op # "GetMosaicInfosByAssetIds" \/ tasks = <<Do("refuse")>>
      PROVE  ResolveInv'
  <2>1. call'.op = op /\ todo' = tasks  BY <1>1 DEF Begin
  <2>2. CASE op # "GetMosaicInfosByAssetIds"  BY <2>1, <2>2 DEF ResolveInv, Batch
  <2>3. CASE tasks = <<Do("refuse")>>
    <3>1. Head(todo').do = "refuse"  BY <2>1, <2>3, EndTasks
    <3>2. todo' # <<>>
      <4>1. \A a : <<a>> # <<>>  OBVIOUS
      <4> QED  BY <2>1, <2>3, <4>1
    <3> QED  BY <3>1, <3>2 DEF ResolveInv, Now
  <2> QED  BY <1>1, <2>2, <2>3
<1>2. ASSUME NEW op \in DOMAIN Methods, Call(op) PROVE ResolveInv'
  <2>1. call'.op = op  BY <1>2 DEF Call
  <2>2. op # "GetMosaicInfosByAssetIds"  BY DEF Methods
  <2> QED  BY <2>1, <2>2 DEF ResolveInv, Batch
<1>3. ASSUME NEW ids, Begin("GetMosaicInfosByAssetIds", ids, GetMosaicInfosByAssetIds(ids))
      PROVE  ResolveInv'
  <2>1. CASE ids = <<>>  BY <1>1, <1>3, <2>1 DEF GetMosaicInfosByAssetIds
  <2>2. CASE ids # <<>>
    <3> DEFINE name == IF MosaicsOf(ids) = <<>> THEN "nils" ELSE "mosaics"
    <3>1. /\ call'.op = "GetMosaicInfosByAssetIds" /\ call'.ids = ids
          /\ todo' = <<Do(name), Task("ids", NoNamespace, 1)>>
      BY <1>3, <2>2 DEF Begin, GetMosaicInfosByAssetIds
    <3>2. Do(name).do = name  BY TaskParts
    <3> DEFINE t == Do(name)
               u == Task("ids", NoNamespace, 1)
    <3>3. u.k = 1 /\ t.do = name  BY TaskParts
    <3>4. todo' = <<t, u>>  BY <3>1
    <3> HIDE DEF t, u
    <3>5. todo' # <<>> /\ Head(todo') = t /\ Cursor' = 1
      <4>1. todo' # <<>> /\ Head(todo') = t /\ Len(todo') = 2 /\ todo'[2] = u  BY <3>4
      <4> QED  BY <3>3, <4>1 DEF Cursor
    <3> QED  BY <3>3, <3>5 DEF ResolveInv, Now
  <2> QED  BY <2>1, <2>2
<1> QED  BY <1>1, <1>2, <1>3 DEF Calls

(* Every step keeps it.                                                    *)
LEMMA StepResolve == ResolveInv /\ AliasInv /\ LineageInv /\ [Next]_vars => ResolveInv'
<1> SUFFICES ASSUME ResolveInv, AliasInv, LineageInv, [Next]_vars PROVE ResolveInv'  OBVIOUS
<1>1. CASE Calls  BY <1>1, CallsResolve
<1>2. ASSUME UNCHANGED call, call.op # "GetMosaicInfosByAssetIds" PROVE ResolveInv'
  BY <1>2 DEF ResolveInv, Batch
<1>3. CASE GetNamespaceInfo \/ buildNamespaceHierarchy \/ SetParent
  <2>1. UNCHANGED call  BY <1>3 DEF GetNamespaceInfo, buildNamespaceHierarchy, SetParent
  <2> QED  BY <1>2, <1>3, <2>1, WaitingResolve
<1>4. CASE Resolve
  <2>1. UNCHANGED call  BY <1>4 DEF Resolve
  <2> QED  BY <1>2, <1>4, <2>1, AliasResolve
<1>5. CASE MosaicInfoOf
  <2>1. UNCHANGED call  BY <1>5 DEF MosaicInfoOf
  <2> QED  BY <1>2, <1>5, <2>1, MosaicResolve
<1>6. CASE MakeNils \/ MosaicInfosOf  BY <1>6, AheadResolve
<1>7. CASE NamespaceIds  BY <1>7, LoopResolve
<1>8. CASE RefuseIds  BY <1>8 DEF RefuseIds, Stop, ResolveInv, Batch
<1>9. CASE Collect \/ GetLinked
  <2>1. PICK name \in {"collect", "alias"} : Now(name)  BY <1>9 DEF Collect, GetLinked
  <2>2. Built(0) /\ StackType /\ Head(todo).do = name
    BY <2>1, Where DEF LineageInv, Now
  <2>3. call.op # "GetMosaicInfosByAssetIds"  BY <2>1, <2>2, BuiltTasks, EndTasks
  <2>4. UNCHANGED call  BY <1>9 DEF Collect, GetLinked
  <2> QED  BY <1>2, <2>3, <2>4
<1>10. CASE GetNamespaceInfosFromAccount \/ buildNamespacesHierarchy
  <2>1. \E name \in {"namespaces", "hierarchies"} : Now(name)
    BY <1>10 DEF GetNamespaceInfosFromAccount, buildNamespacesHierarchy
  <2>2. call.op # "GetMosaicInfosByAssetIds"  BY <2>1, RestingTasks
  <2>3. UNCHANGED call  BY <1>10 DEF GetNamespaceInfosFromAccount, buildNamespacesHierarchy
  <2> QED  BY <1>2, <2>2, <2>3
<1>11. CASE \/ AskHeight \/ AskAtHeight \/ AskBlock
            \/ (\E one \in BOOLEAN : AskTransactions(one)) \/ MapTransactions \/ AssertAggregates
  <2>1. \E name \in {"height", "at height", "block", "transaction", "transactions", "map",
                     "assert"} : Now(name)
    BY <1>11 DEF AskHeight, AskAtHeight, AskBlock, AskTransactions, MapTransactions,
       AssertAggregates
  <2>2. call.op # "GetMosaicInfosByAssetIds"
    BY <2>1, Where DEF OtherTasks, NamespaceCalls
  <2>3. UNCHANGED call
    BY <1>11, MapSteps DEF AskHeight, AskAtHeight, AskBlock, AskTransactions, AssertAggregates
  <2> QED  BY <1>2, <2>2, <2>3
<1>12. ASSUME UNCHANGED <<call, todo, end, found>>, aliases \subseteq aliases' PROVE ResolveInv'
  <2>1. \A j : Through(j) => Through(j)'  BY <1>12, ThroughKept
  <2>2. PICK c : c = Cursor  OBVIOUS
  <2>3. Cursor' = c  BY <1>12, <2>2 DEF Cursor
  <2>4. PICK n : n = Len(call.ids) /\ n = Len(call'.ids)  BY <1>12
  <2>5. Through(c - 1) => Through(Cursor - 1)'
    <3>1. Through(c - 1) => Through(c - 1)'  BY <2>1
    <3> QED  BY <2>3, <3>1
  <2>6. Through(c - 2) => Through(Cursor - 2)'
    <3>1. Through(c - 2) => Through(c - 2)'  BY <2>1
    <3> QED  BY <2>3, <3>1
  <2>7. Through(Len(call.ids)) => Through(Len(call.ids))'
    <3>1. Through(n) => Through(n)'  BY <2>1
    <3> QED  BY <2>4, <3>1
  <2>8. UNCHANGED Batch /\ \A name : Now(name)' <=> Now(name)  BY <1>12 DEF Batch, Now
  <2> QED  BY <1>12, <2>2, <2>3, <2>5, <2>6, <2>7, <2>8 DEF ResolveInv
<1>13. CASE Relink \/ Expire \/ Rollback
  <2>1. aliases \subseteq aliases' /\ UNCHANGED <<call, todo, end, found>>
    BY <1>13 DEF Relink, Expire, Rollback, Between
  <2> QED  BY <1>12, <2>1
<1>14. CASE UNCHANGED vars  BY <1>12, <1>14 DEF vars, ledger
<1> QED
  BY <1>1, <1>3, <1>4, <1>5, <1>6, <1>7, <1>8, <1>9, <1>10, <1>11, <1>13, <1>14 DEF Next

(* Whatever the node sent for the mosaics, GetMosaicInfosByAssetIds        *)
(* returns a list that ends with one info for each namespace, in their     *)
(* order, that of a mosaic it was an alias of while the call lasted,       *)
(* however many ids there are and however deep their lineages.             *)
THEOREM ResolvedAliases == Spec => []ResolvedDuringCall
<1>1. Init => AliasInv /\ ResolveInv
  <2> SUFFICES ASSUME Init PROVE AliasInv /\ ResolveInv  OBVIOUS
  <2>1. <<>> \in Seq(Seq(Seen))  OBVIOUS
  <2>2. AliasInv  BY <2>1 DEF Init, AliasInv
  <2>3. ResolveInv  BY DEF Init, NoCall, ResolveInv, Batch
  <2> QED  BY <2>2, <2>3
<1>2. LineageInv /\ AliasInv /\ ResolveInv /\ [Next]_vars => (AliasInv /\ ResolveInv)'
  BY StepAlias, StepResolve
<1>3. LineageInv /\ ResolveInv => ResolvedDuringCall
  <2> SUFFICES ASSUME LineageInv, ResolveInv, Succeeded, call.op = "GetMosaicInfosByAssetIds"
               PROVE  LET namespaces == NamespacesOf(call.ids)
                          before == Len(found) - Len(namespaces)
                      IN  /\ Len(found) >= Len(namespaces)
                          /\ \A k \in DOMAIN namespaces :
                                 /\ found[before + k] # NoMosaic
                                 /\ <<namespaces[k], found[before + k]>> \in aliases
    BY DEF ResolvedDuringCall
  <2> DEFINE named == OfType(call.ids, Namespaces)[Len(call.ids)]
  <2>1. NamespacesOf(call.ids) = named  BY DEF NamespacesOf
  <2>2. Through(Len(call.ids))  BY DEF ResolveInv, Batch, Succeeded, Returned
  <2>3. named \in Seq(Namespaces)
    <3>1. IdsType /\ Len(call.ids) \in Nat  BY DEF LineageInv, IdsType
    <3>2. Len(call.ids) \in 0..Len(call.ids)  BY <3>1
    <3> QED  BY <3>1, <3>2, NamedSteps
  <2>4. DOMAIN named = 1..Len(named)  BY <2>3
  <2> QED  BY <2>1, <2>2, <2>4 DEF Through
<1> QED  BY LineageInvariant, <1>1, <1>2, <1>3, PTL DEF Spec

=============================================================================

---------------------------- MODULE TxBuffersProof ----------------------------
(***************************************************************************)
(* What TxLayoutProof rests on: lemmas about the operators of TxBuffers,   *)
(* for lists of segments, tables and schemas of any length.  Where the     *)
(* segments of a list start, what Slice takes out of it, what becomes of   *)
(* the fields that have no bytes, what an attribute of a schema makes of a *)
(* slot, and where the parts of a transaction's header lie.                *)
(***************************************************************************)
EXTENDS TxLayout, FiniteSetTheorems, SequenceTheorems, TLAPS

LOCAL INSTANCE SequencesExt
WF == INSTANCE WellFoundedInduction

(***************************************************************************)
(* Induction along a list.                                                 *)
(***************************************************************************)

(* What passes from each number to the next holds up to n.                 *)
LEMMA Induct ==
    ASSUME NEW n \in Nat, NEW A, 0 \in A, \A k \in 1..n : k - 1 \in A => k \in A
    PROVE  0..n \subseteq A
<1> SUFFICES ASSUME \E k \in 0..n : k \notin A PROVE FALSE  OBVIOUS
<1> DEFINE T == {k \in 0..n : k \notin A}
           R == WF!OpToRel(<, Nat)
<1>1. WF!IsWellFoundedOn(R, Nat)  BY WF!NatLessThanWellFounded
<1>2. \A x, y \in Nat : y < x => <<y, x>> \in R  BY DEF WF!OpToRel
<1> HIDE DEF R
<1>3. PICK j \in T : \A y \in T : ~(<<y, j>> \in R)
  <2>1. T \subseteq Nat /\ T # {}  OBVIOUS
  <2> HIDE DEF T
  <2> QED  BY <1>1, <2>1, WF!WFMin
<1>4. j \in 0..n /\ j \notin A /\ j # 0  BY <1>3
<1>5. j \in 1..n /\ j - 1 \in 0..n /\ j - 1 < j /\ j \in Nat /\ j - 1 \in Nat  BY <1>4
<1>6. j - 1 \notin T  BY <1>2, <1>3, <1>5
<1>7. j - 1 \in A  BY <1>5, <1>6
<1> QED  BY <1>4, <1>5, <1>7

(* The same for lists that grow at their end.                              *)
LEMMA ListInduct ==
    ASSUME NEW S, NEW A, <<>> \in A,
           \A s \in Seq(S), x \in S : s \in A => Append(s, x) \in A
    PROVE  Seq(S) \subseteq A
<1> SUFFICES ASSUME NEW s \in Seq(S) PROVE s \in A  OBVIOUS
<1> DEFINE n == Len(s)
           K == {k \in 0..n : SubSeq(s, 1, k) \in A}
<1>1. n \in Nat /\ SubSeq(s, 1, 0) = <<>> /\ SubSeq(s, 1, n) = s  OBVIOUS
<1>2. ASSUME NEW k \in 1..n, k - 1 \in K PROVE k \in K
  <2> DEFINE b == SubSeq(s, 1, k - 1)
  <2>1. b \in Seq(S) /\ s[k] \in S /\ b \in A  BY <1>2
  <2>2. SubSeq(s, 1, k) = Append(b, s[k])  OBVIOUS
  <2>3. k \in 0..n  OBVIOUS
  <2> HIDE DEF b
  <2> QED  BY <2>1, <2>2, <2>3
<1>3. 0 \in K
  <2>1. 0 \in 0..n  BY <1>1
  <2> QED  BY <1>1, <2>1
<1> HIDE DEF n, K
<1>4. 0..n \subseteq K  BY <1>1, <1>2, <1>3, Induct
<1>5. n \in K  BY <1>1, <1>4
<1> QED  BY <1>1, <1>5 DEF K

(* What n steps lead to, one after the other, from base on;                *)
IsWalk(f, n, T, base, step) ==
    f \in [0..n -> T] /\ f[0] = base /\ \A k \in 1..n : f[k] = step[k][f[k - 1]]

Walk(n, T, base, step) == CHOOSE f : IsWalk(f, n, T, base, step)

(* they can be taken.                                                      *)
LEMMA StepsExist ==
    ASSUME NEW n \in Nat, NEW T, NEW base \in T, NEW step \in [1..n -> [T -> T]]
    PROVE  IsWalk(Walk(n, T, base, step), n, T, base, step)
<1> DEFINE Steps(m, f) ==
               f \in [0..m -> T] /\ f[0] = base /\ \A k \in 1..m : f[k] = step[k][f[k - 1]]
           A == {m \in 0..n : \E f : Steps(m, f)}
<1>1. 0 \in A
  <2> DEFINE f == [i \in 0..0 |-> base]
  <2>1. Steps(0, f)  OBVIOUS
  <2>2. 0 \in 0..n  OBVIOUS
  <2> HIDE DEF f, Steps
  <2> QED  BY <2>1, <2>2
<1>2. ASSUME NEW m \in 1..n, m - 1 \in A PROVE m \in A
  <2>1. PICK f : Steps(m - 1, f)  BY <1>2
  <2> DEFINE g == [i \in 0..m |-> IF i = m THEN step[m][f[m - 1]] ELSE f[i]]
  <2>2. m - 1 \in 0..m - 1 /\ f[m - 1] \in T  BY <2>1
  <2>3. \A i \in 0..m : g[i] \in T
    <3>1. \A i \in 0..m : i # m => i \in 0..m - 1  OBVIOUS
    <3> QED  BY <2>1, <2>2, <3>1
  <2>4. g[0] = base  BY <2>1
  <2>5. ASSUME NEW k \in 1..m PROVE g[k] = step[k][g[k - 1]]
    <3>1. k \in 0..m /\ k - 1 \in 0..m /\ k - 1 # m  OBVIOUS
    <3>2. g[k - 1] = f[k - 1]  BY <3>1
    <3>3. k # m => k \in 1..m - 1  OBVIOUS
    <3> QED  BY <2>1, <3>1, <3>2, <3>3
  <2>6. Steps(m, g)
    <3> HIDE DEF g
    <3>1. g \in [0..m -> T]  BY <2>3 DEF g
    <3> QED  BY <2>4, <2>5, <3>1
  <2>7. m \in 0..n  OBVIOUS
  <2> HIDE DEF g, Steps
  <2> QED  BY <2>6, <2>7
<1>3. n \in A
  <2> HIDE DEF A
  <2>1. 0..n \subseteq A  BY <1>1, <1>2, Induct
  <2> QED  BY <2>1
<1>4. PICK f : IsWalk(f, n, T, base, step)  BY <1>3 DEF IsWalk
<1> QED  BY <1>4 DEF Walk

(***************************************************************************)
(* Segments, and where they start.                                         *)
(***************************************************************************)

(* The fields: those of the header and of what is appended, those behind   *)
(* the header, and those of the tables in a field.                         *)
HeaderNames ==
    {"size", "signature", "signer", "version", "type", "maxFee", "deadline", "cosigner",
     "cosignature"}

SlotNames ==
    {"actionType", "aliasId", "applyHeightDelta", "customers", "delta", "direction",
     "divisibility", "duration", "durationDelta", "durationParentId", "executors",
     "flags", "hash", "hashAlgorithm", "linkAction", "message", "messageSize",
     "metadataId", "metadataType", "minApprovalDelta", "minRemovalDelta",
     "modificationCount", "modifications", "mosaicAmount", "mosaicId", "mosaicNonce",
     "mosaics", "namespaceId", "namespaceName", "namespaceNameSize", "namespaceType",
     "networkConfig", "networkConfigSize", "newBlockChainVersion", "numCustomers",
     "numExecutors", "numModifications", "numMosaics", "numOptionalProperties",
     "numVerifiers", "optionalProperties", "proof", "proofSize", "propertyType",
     "recipient", "remoteAccountKey", "secret", "supportedEntityVersions",
     "supportedEntityVersionsSize", "transactions", "transactionsSize",
     "upgradePeriod", "verifiers"}

TableNames ==
    {"amount", "cosignatoryPublicKey", "id", "key", "keySize", "modificationType",
     "mosaicPropertyId", "payload", "size", "type", "value", "valueSize"}

FieldNames == HeaderNames \cup SlotNames \cup TableNames

(* Fields of a table, which are no tables, and fields of a payload; those  *)
(* that have bytes.                                                        *)
Leaf ==
    [field : TableNames, n : Nat, from : Nat, whole : Nat, v : Nat, each : {<<>>}, owner : Nat]

Seg ==
    [field : FieldNames, n : Nat, from : Nat, whole : Nat, v : Nat, each : Seq(Leaf), owner : Nat]

Solid == {s \in Seg : s.n > 0}

(* The fields of a segment.                                                *)
LEMMA SegParts ==
    ASSUME NEW s \in Seg
    PROVE  /\ s.n \in Nat /\ s.from \in Nat /\ s.whole \in Nat /\ s.v \in Nat /\ s.owner \in Nat
           /\ s.field \in FieldNames /\ s.each \in Seq(Leaf)
           /\ s \in Solid <=> s.n > 0
BY DEF Seg, Solid

(* The segments of a payload are segments.                                 *)
LEMMA SolidSeq ==
    ASSUME NEW bytes \in Seq(Solid)
    PROVE  bytes \in Seq(Seg) /\ \A k \in 1..Len(bytes) : bytes[k].n \in Nat /\ bytes[k].n > 0
<1>1. Solid \subseteq Seg  BY DEF Solid
<1>2. \A k \in 1..Len(bytes) : bytes[k] \in Solid /\ bytes[k] \in Seg  BY <1>1
<1>3. bytes \in Seq(Seg)  BY <1>2
<1> QED  BY <1>2, <1>3, SegParts

(* Each segment starts where the one before it ends, the first at 0.       *)
LEMMA StartsOf ==
    ASSUME NEW bytes \in Seq(Seg)
    PROVE  /\ Starts(bytes) \in [1..Len(bytes) + 1 -> Nat] /\ Starts(bytes)[1] = 0
           /\ \A i \in 1..Len(bytes) : Starts(bytes)[i + 1] = Starts(bytes)[i] + bytes[i].n
<1> DEFINE n == Len(bytes)
           step == [i \in 1..n |-> [x \in Nat |-> x + bytes[i].n]]
           Rec(g) == [i \in 0..n |-> IF i = 0 THEN 0 ELSE g[i - 1] + bytes[i].n]
           f == Walk(n, Nat, 0, step)
           C == CHOOSE g : g = Rec(g)
<1>1. n \in Nat /\ \A i \in 1..n : bytes[i].n \in Nat
  <2>1. \A i \in 1..n : bytes[i] \in Seg  OBVIOUS
  <2> QED  BY <2>1, SegParts
<1>2. f \in [0..n -> Nat] /\ f[0] = 0 /\ \A i \in 1..n : f[i] = step[i][f[i - 1]]
  <2>1. step \in [1..n -> [Nat -> Nat]] /\ 0 \in Nat  BY <1>1
  <2> HIDE DEF n, step
  <2>2. IsWalk(f, n, Nat, 0, step)  BY <1>1, <2>1, StepsExist
  <2> QED  BY <2>2 DEF IsWalk
<1> HIDE DEF f, n
<1>3. \A i \in 1..n : i - 1 \in 0..n /\ i \in 0..n  BY <1>1
<1>4. \A i \in 1..n : f[i] = f[i - 1] + bytes[i].n  BY <1>2, <1>3
<1>5. f = Rec(f)
  <2>1. ASSUME NEW i \in 0..n PROVE f[i] = Rec(f)[i]
    <3>1. i # 0 => i \in 1..n  BY <1>1
    <3> QED  BY <1>2, <1>4, <3>1
  <2>2. f = [i \in 0..n |-> f[i]] /\ Rec(f) = [i \in 0..n |-> Rec(f)[i]]  BY <1>2
  <2> HIDE DEF Rec
  <2> QED  BY <2>1, <2>2
<1>6. C = Rec(C)
  <2> HIDE DEF Rec
  <2> QED  BY <1>5
<1>7. Starts(bytes) = [i \in 1..n + 1 |-> C[i - 1]]  BY DEF Starts, n
<1> HIDE DEF C
<1>8. C[0] = 0 /\ \A i \in 1..n : C[i] = C[i - 1] + bytes[i].n
  <2>1. 0 \in 0..n /\ \A i \in 1..n : i \in 0..n /\ i # 0  BY <1>1
  <2> QED  BY <1>6, <2>1
<1>9. \A i \in 0..n : C[i] \in Nat
  <2> DEFINE A == {i \in 0..n : C[i] \in Nat}
  <2>1. 0 \in A  BY <1>1, <1>8
  <2>2. ASSUME NEW i \in 1..n, i - 1 \in A PROVE i \in A
    <3>1. C[i - 1] \in Nat /\ i \in 0..n  BY <1>3, <2>2
    <3>2. C[i] = C[i - 1] + bytes[i].n /\ bytes[i].n \in Nat  BY <1>1, <1>8
    <3> QED  BY <3>1, <3>2
  <2>3. 0..n \subseteq A
    <3> HIDE DEF A
    <3> QED  BY <1>1, <2>1, <2>2, Induct
  <2> QED  BY <2>3
<1>10. \A i \in 1..n : Starts(bytes)[i + 1] = Starts(bytes)[i] + bytes[i].n
  <2> TAKE i \in 1..n
  <2>1. i \in 1..n + 1 /\ i + 1 \in 1..n + 1 /\ (i + 1) - 1 = i  BY <1>1
  <2> QED  BY <1>7, <1>8, <2>1
<1>11. Starts(bytes)[1] = 0
  <2>1. 1 \in 1..n + 1 /\ 1 - 1 = 0  BY <1>1
  <2> QED  BY <1>7, <1>8, <2>1
<1>12. Starts(bytes) \in [1..n + 1 -> Nat]
  <2>1. \A i \in 1..n + 1 : i - 1 \in 0..n  BY <1>1
  <2> QED  BY <1>7, <1>9, <2>1
<1> QED  BY <1>10, <1>11, <1>12 DEF n

(* The length is where the last one ends.                                  *)
LEMMA LengthOf ==
    ASSUME NEW bytes
    PROVE  Length(bytes) = Starts(bytes)[Len(bytes) + 1]
BY DEF Length, Once

(* What two concatenated lists hold.                                       *)
LEMMA JoinParts ==
    ASSUME NEW S, NEW x \in Seq(S), NEW y \in Seq(S)
    PROVE  /\ x \o y \in Seq(S) /\ Len(x \o y) = Len(x) + Len(y)
           /\ Len(x) \in Nat /\ Len(y) \in Nat
           /\ \A i \in 1..Len(x) : (x \o y)[i] = x[i] /\ x[i] \in S
           /\ \A i \in 1..Len(y) : (x \o y)[Len(x) + i] = y[i] /\ y[i] \in S
OBVIOUS

(* The second of two parts starts where the first ends.                    *)
LEMMA StartsJoin ==
    ASSUME NEW x \in Seq(Seg), NEW y \in Seq(Seg)
    PROVE  /\ \A i \in 1..Len(x) + 1 : Starts(x \o y)[i] = Starts(x)[i]
           /\ \A i \in 1..Len(y) + 1 :
                  Starts(x \o y)[Len(x) + i] = Length(x) + Starts(y)[i]
<1> DEFINE z == x \o y
           n == Len(x)
           m == Len(y)
           L == Length(x)
           X == Starts(x)
           Y == Starts(y)
           Z == Starts(z)
<1>1. /\ z \in Seq(Seg) /\ Len(z) = n + m /\ n \in Nat /\ m \in Nat
      /\ \A i \in 1..n : z[i] = x[i] /\ x[i] \in Seg
      /\ \A i \in 1..m : z[n + i] = y[i] /\ y[i] \in Seg
  BY JoinParts
<1>2. L = X[n + 1]  BY LengthOf
<1>3. /\ X \in [1..n + 1 -> Nat] /\ X[1] = 0 /\ \A i \in 1..n : X[i + 1] = X[i] + x[i].n
      /\ Y \in [1..m + 1 -> Nat] /\ Y[1] = 0 /\ \A i \in 1..m : Y[i + 1] = Y[i] + y[i].n
  BY StartsOf
<1>4. Z[1] = 0 /\ \A i \in 1..n + m : Z[i + 1] = Z[i] + z[i].n  BY <1>1, StartsOf
<1>5. \A i \in 1..m : y[i].n \in Nat  BY <1>1 DEF Seg
<1> HIDE DEF z, n, m, L, X, Y, Z
<1>6. \A i \in 0..n : Z[i + 1] = X[i + 1]
  <2> DEFINE A == {i \in 0..n : Z[i + 1] = X[i + 1]}
  <2>1. 0 \in A
    <3>1. 0 \in 0..n /\ 0 + 1 = 1  BY <1>1
    <3> QED  BY <1>3, <1>4, <3>1
  <2>2. ASSUME NEW i \in 1..n, i - 1 \in A PROVE i \in A
    <3>1. i \in 0..n /\ i \in 1..n + m /\ (i - 1) + 1 = i  BY <1>1
    <3>2. Z[i] = X[i] /\ z[i] = x[i]  BY <1>1, <2>2, <3>1
    <3>3. Z[i + 1] = Z[i] + z[i].n /\ X[i + 1] = X[i] + x[i].n  BY <1>3, <1>4, <3>1
    <3> QED  BY <3>1, <3>2, <3>3
  <2> HIDE DEF A
  <2>3. 0..n \subseteq A  BY <1>1, <2>1, <2>2, Induct
  <2> QED  BY <2>3 DEF A
<1>7. \A i \in 0..m : Z[n + (i + 1)] = L + Y[i + 1]
  <2> DEFINE A == {i \in 0..m : Z[n + (i + 1)] = L + Y[i + 1]}
  <2>1. 0 \in A
    <3>1. 0 \in 0..m /\ n \in 0..n /\ 0 + 1 = 1 /\ X[n + 1] + 0 = X[n + 1]
      BY <1>1, <1>3
    <3>2. Z[n + 1] = L  BY <1>2, <1>6, <3>1
    <3> QED  BY <1>2, <1>3, <3>1, <3>2
  <2>2. ASSUME NEW i \in 1..m, i - 1 \in A PROVE i \in A
    <3>1. /\ i \in 0..m /\ n + i \in 1..n + m /\ (i - 1) + 1 = i
          /\ (n + i) + 1 = n + (i + 1) /\ i \in 1..m + 1
      BY <1>1
    <3>2. L \in Nat /\ Y[i] \in Nat /\ y[i].n \in Nat
      <4>1. n + 1 \in 1..n + 1  BY <1>1
      <4> QED  BY <1>2, <1>3, <1>5, <3>1, <4>1
    <3>3. Z[n + i] = L + Y[i]  BY <2>2, <3>1
    <3>4. Z[n + (i + 1)] = Z[n + i] + y[i].n /\ Y[i + 1] = Y[i] + y[i].n
      <4>1. Y[i + 1] = Y[i] + y[i].n  BY <1>3
      <4>2. z[n + i] = y[i] /\ n + i \in 1..n + m  BY <1>1, <3>1
      <4>3. Z[(n + i) + 1] = Z[n + i] + z[n + i].n  BY <1>1, <1>4, <4>2
      <4> QED  BY <3>1, <4>1, <4>2, <4>3
    <3>5. Z[n + (i + 1)] = L + Y[i + 1]  BY <3>2, <3>3, <3>4
    <3> QED  BY <3>1, <3>5
  <2> HIDE DEF A
  <2>3. 0..m \subseteq A  BY <1>1, <2>1, <2>2, Induct
  <2> QED  BY <2>3 DEF A
<1>8. ASSUME NEW i \in 1..n + 1 PROVE Z[i] = X[i]
  <2>1. i - 1 \in 0..n /\ (i - 1) + 1 = i  BY <1>1
  <2> QED  BY <1>6, <2>1
<1>9. ASSUME NEW i \in 1..m + 1 PROVE Z[n + i] = L + Y[i]
  <2>1. i - 1 \in 0..m /\ (i - 1) + 1 = i  BY <1>1
  <2> QED  BY <1>7, <2>1
<1> QED  BY <1>8, <1>9 DEF z, n, m, L, X, Y, Z

(* Lengths add up.                                                         *)
LEMMA LengthJoin ==
    ASSUME NEW x \in Seq(Seg), NEW y \in Seq(Seg)
    PROVE  /\ Length(x) \in Nat /\ Length(y) \in Nat
           /\ Length(x \o y) = Length(x) + Length(y)
<1>1. x \o y \in Seq(Seg) /\ Len(x \o y) = Len(x) + Len(y) /\ Len(x) \in Nat /\ Len(y) \in Nat
  BY JoinParts
<1>2. Len(y) + 1 \in 1..Len(y) + 1 /\ Len(x) + 1 \in 1..Len(x) + 1
      /\ (Len(x) + Len(y)) + 1 = Len(x) + (Len(y) + 1)
  BY <1>1
<1>3. Length(x) \in Nat /\ Length(y) \in Nat  BY <1>2, LengthOf, StartsOf
<1>4. Starts(x \o y)[Len(x) + (Len(y) + 1)] = Length(x) + Starts(y)[Len(y) + 1]
  BY <1>2, StartsJoin
<1> QED  BY <1>1, <1>2, <1>3, <1>4, LengthOf

(* The length of nothing, and of one segment.                              *)
LEMMA LengthOne ==
    /\ Length(<<>>) = 0
    /\ \A s \in Seg : Length(<<s>>) = s.n /\ s.n \in Nat
<1>1. <<>> \in Seq(Seg) /\ Len(<<>>) = 0 /\ 0 + 1 = 1  OBVIOUS
<1>2. Starts(<<>>)[1] = 0  BY <1>1, StartsOf
<1>3. Length(<<>>) = 0  BY <1>1, <1>2, LengthOf
<1>4. ASSUME NEW s \in Seg PROVE Length(<<s>>) = s.n /\ s.n \in Nat
  <2>1. s.n \in Nat /\ <<s>> \in Seq(Seg) /\ Len(<<s>>) = 1 /\ <<s>>[1] = s  BY DEF Seg
  <2>2. 1 \in 1..1 /\ 1 + 1 = 2 /\ 0 + s.n = s.n  BY <2>1
  <2>3. Starts(<<s>>)[1 + 1] = Starts(<<s>>)[1] + <<s>>[1].n /\ Starts(<<s>>)[1] = 0
    BY <2>1, <2>2, StartsOf
  <2> QED  BY <2>1, <2>2, <2>3, LengthOf
<1> QED  BY <1>3, <1>4

(* Where segments have bytes, each starts behind those before it.          *)
LEMMA StartsRise ==
    ASSUME NEW bytes \in Seq(Solid), NEW i \in 1..Len(bytes), NEW j \in i + 1..Len(bytes) + 1
    PROVE  Starts(bytes)[i] < Starts(bytes)[j]
<1> DEFINE n == Len(bytes)
           Z == Starts(bytes)
<1>1. n \in Nat /\ bytes \in Seq(Seg) /\ \A k \in 1..n : bytes[k].n \in Nat /\ bytes[k].n > 0
  BY SolidSeq
<1>2. Z \in [1..n + 1 -> Nat] /\ \A k \in 1..n : Z[k + 1] = Z[k] + bytes[k].n
  BY <1>1, StartsOf
<1>3. i \in 1..n /\ j \in i + 1..n + 1  OBVIOUS
<1> HIDE DEF n, Z
<1>4. \A k \in 1..n : Z[k] \in Nat /\ Z[k + 1] \in Nat /\ Z[k] < Z[k + 1]
  <2> TAKE k \in 1..n
  <2>1. k \in 1..n + 1 /\ k + 1 \in 1..n + 1  BY <1>1
  <2>2. Z[k] \in Nat /\ Z[k + 1] \in Nat /\ Z[k + 1] = Z[k] + bytes[k].n  BY <1>2, <2>1
  <2> QED  BY <1>1, <2>2
<1> DEFINE A == {k \in 0..n - i : Z[i] < Z[i + (k + 1)]}
<1>5. 0 \in A
  <2>1. 0 \in 0..n - i /\ i + (0 + 1) = i + 1  BY <1>1, <1>3
  <2> QED  BY <1>3, <1>4, <2>1
<1>6. ASSUME NEW k \in 1..n - i, k - 1 \in A PROVE k \in A
  <2>1. /\ i + ((k - 1) + 1) = i + k /\ i + k \in 1..n /\ (i + k) + 1 = i + (k + 1)
        /\ k \in 0..n - i
    BY <1>1, <1>3
  <2>2. Z[i] \in Nat /\ Z[i + k] \in Nat /\ Z[(i + k) + 1] \in Nat
        /\ Z[i] < Z[i + k] /\ Z[i + k] < Z[(i + k) + 1]
    BY <1>3, <1>4, <1>6, <2>1
  <2>3. Z[i] < Z[i + (k + 1)]  BY <2>1, <2>2
  <2> QED  BY <2>1, <2>3
<1>7. n - i \in Nat  BY <1>1, <1>3
<1> HIDE DEF A
<1>8. 0..n - i \subseteq A  BY <1>5, <1>6, <1>7, Induct
<1>9. j - i - 1 \in 0..n - i /\ i + ((j - i - 1) + 1) = j  BY <1>1, <1>3
<1> QED  BY <1>8, <1>9 DEF A, n, Z

(***************************************************************************)
(* Slices.                                                                 *)
(***************************************************************************)

(* What is left of each segment.                                           *)
Cuts(bytes, a, b) == [i \in 1..Len(bytes) |-> Cut(bytes[i], Starts(bytes)[i], a, b)]

(* A slice that begins in segment f + 1 and ends in segment l.             *)
LEMMA SliceAt ==
    ASSUME NEW bytes \in Seq(Solid), NEW a \in Nat, NEW b \in Nat,
           NEW f \in 0..Len(bytes), NEW l \in 0..Len(bytes),
           Starts(bytes)[f + 1] <= a, f < Len(bytes) => a < Starts(bytes)[f + 2],
           l > 0 => Starts(bytes)[l] < b, b <= Starts(bytes)[l + 1]
    PROVE  Slice(bytes, a, b) = SubSeq(Cuts(bytes, a, b), f + 1, l)
<1> DEFINE n == Len(bytes)
           Z == Starts(bytes)
           F == {i \in 1..n : Z[i + 1] <= a}
           G == {i \in 1..n : Z[i] < b}
<1>1. n \in Nat /\ bytes \in Seq(Seg) /\ f \in 0..n /\ l \in 0..n  BY SolidSeq
<1>2. Z \in [1..n + 1 -> Nat] /\ \A i \in 1..n, j \in 1..n + 1 : i < j => Z[i] < Z[j]
  <2>1. \A i \in 1..n, j \in 1..n + 1 : i < j => j \in i + 1..n + 1  BY <1>1
  <2> QED  BY <1>1, <2>1, StartsOf, StartsRise
<1>3. Z[f + 1] <= a /\ (f < n => a < Z[f + 2]) /\ (l > 0 => Z[l] < b) /\ b <= Z[l + 1]
  OBVIOUS
<1>4. Slice(bytes, a, b)
          = SubSeq(Cuts(bytes, a, b), Cardinality(F) + 1, Cardinality(G))
  BY DEF Slice, Once, Cuts
<1> HIDE DEF n, Z
<1>5. ASSUME NEW i \in 1..n PROVE Z[i + 1] <= a <=> i <= f
  <2>1. /\ i \in 1..n + 1 /\ i + 1 \in 1..n + 1 /\ f + 1 \in 1..n + 1
        /\ Z[i + 1] \in Nat /\ Z[f + 1] \in Nat
    BY <1>1, <1>2
  <2>2. CASE i = f  BY <1>3, <2>2
  <2>3. CASE i < f
    <3>1. i + 1 \in 1..n /\ f + 1 \in 1..n + 1 /\ i + 1 < f + 1  BY <1>1, <2>3
    <3>2. Z[i + 1] < Z[f + 1]  BY <1>2, <3>1
    <3> QED  BY <1>1, <1>3, <2>1, <2>3, <3>2
  <2>4. CASE i > f
    <3>1. f < n /\ f + 2 \in 1..n + 1 /\ Z[f + 2] \in Nat  BY <1>1, <1>2, <2>4
    <3>2. i = f + 1 \/ (f + 2 \in 1..n /\ i + 1 \in 1..n + 1 /\ f + 2 < i + 1)  BY <1>1, <2>4
    <3>3. Z[f + 2] <= Z[i + 1]
      <4>1. CASE i = f + 1
        <5>1. i + 1 = f + 2  BY <1>1, <4>1
        <5> QED  BY <3>1, <5>1
      <4>2. CASE f + 2 \in 1..n /\ i + 1 \in 1..n + 1 /\ f + 2 < i + 1
        <5>1. Z[f + 2] < Z[i + 1]  BY <1>2, <4>2
        <5> QED  BY <2>1, <3>1, <5>1
      <4> QED  BY <3>2, <4>1, <4>2
    <3> QED  BY <1>1, <1>3, <2>1, <2>4, <3>1, <3>3
  <2> QED  BY <1>1, <2>2, <2>3, <2>4
<1>6. ASSUME NEW i \in 1..n PROVE Z[i] < b <=> i <= l
  <2>1. i \in 1..n + 1 /\ l + 1 \in 1..n + 1 /\ Z[i] \in Nat /\ Z[l + 1] \in Nat
    BY <1>1, <1>2
  <2>2. CASE i = l  BY <1>1, <1>3, <2>2
  <2>3. CASE i < l
    <3>1. l \in 1..n + 1 /\ i < l /\ l > 0  BY <1>1, <2>3
    <3>2. Z[i] < Z[l] /\ Z[l] \in Nat  BY <1>2, <3>1
    <3> QED  BY <1>3, <2>1, <2>3, <3>1, <3>2
  <2>4. CASE i > l
    <3>1. i = l + 1 \/ (l + 1 \in 1..n /\ i \in 1..n + 1 /\ l + 1 < i)  BY <1>1, <2>4
    <3>2. Z[l + 1] <= Z[i]
      <4>1. CASE i = l + 1  BY <2>1, <4>1
      <4>2. CASE l + 1 \in 1..n /\ i \in 1..n + 1 /\ l + 1 < i
        <5>1. Z[l + 1] < Z[i]  BY <1>2, <4>2
        <5> QED  BY <2>1, <5>1
      <4> QED  BY <3>1, <4>1, <4>2
    <3> QED  BY <1>1, <1>3, <2>1, <2>4, <3>2
  <2> QED  BY <1>1, <2>2, <2>3, <2>4
<1>7. F = 1..f /\ G = 1..l
  <2>1. \A i : i \in F <=> i \in 1..f  BY <1>1, <1>5
  <2>2. \A i : i \in G <=> i \in 1..l  BY <1>1, <1>6
  <2> QED  BY <2>1, <2>2
<1>8. \A k \in Nat : Cardinality(1..k) = k
  <2> TAKE k \in Nat
  <2>1. Cardinality(1..k) = IF 1 > k THEN 0 ELSE k - 1 + 1  BY FS_Interval
  <2> QED  BY <2>1
<1> HIDE DEF F, G
<1>9. Cardinality(F) = f /\ Cardinality(G) = l  BY <1>1, <1>7, <1>8
<1> QED  BY <1>4, <1>9 DEF n, Z

(* A segment that lies between the bounds is not cut.                      *)
LEMMA CutWhole ==
    ASSUME NEW s \in Seg, NEW start \in Nat, NEW a \in Nat, NEW b \in Nat,
           a <= start, start + s.n <= b, s.n > 0
    PROVE  Cut(s, start, a, b) = s
<1>1. s.n \in Nat /\ s.from \in Nat  BY SegParts
<1> DEFINE low == IF a > start THEN a ELSE start
           high == IF b < start + s.n THEN b ELSE start + s.n
<1>2. Cut(s, start, a, b)
          = [s EXCEPT !.n = IF low < high THEN high - low ELSE 0, !.from = s.from + (low - start)]
  BY DEF Cut
<1>3. low = start /\ high = start + s.n  BY <1>1
<1>4. /\ (IF low < high THEN high - low ELSE 0) = s.n
      /\ s.from + (low - start) = s.from
  BY <1>1, <1>3
<1> HIDE DEF low, high
<1>5. Cut(s, start, a, b) = [s EXCEPT !.n = s.n, !.from = s.from]  BY <1>2, <1>4
<1> QED  BY <1>5 DEF Seg

(* A slice from one segment boundary to another holds what lies between.   *)
LEMMA SliceParts ==
    ASSUME NEW x \in Seq(Solid), NEW y \in Seq(Solid), NEW z \in Seq(Solid)
    PROVE  Slice(x \o y \o z, Length(x), Length(x) + Length(y)) = y
<1> DEFINE p == x \o y \o z
           f == Len(x)
           m == Len(y)
           a == Length(x)
           b == Length(x) + Length(y)
           Z == Starts(p)
           Y == Starts(y)
           cut == Cuts(p, a, b)
<1>1. x \in Seq(Seg) /\ y \in Seq(Seg) /\ z \in Seq(Seg) /\ f \in Nat /\ m \in Nat
  BY SolidSeq
<1>2. /\ p \in Seq(Solid) /\ p \in Seq(Seg) /\ Len(p) = f + m + Len(z) /\ Len(z) \in Nat
      /\ \A i \in 1..m : p[f + i] = y[i] /\ y[i] \in Solid /\ y[i] \in Seg
  <2>1. /\ x \o y \in Seq(Solid) /\ Len(x \o y) = f + m
        /\ \A i \in 1..m : (x \o y)[f + i] = y[i] /\ y[i] \in Solid
    BY JoinParts
  <2>2. /\ p \in Seq(Solid) /\ Len(p) = Len(x \o y) + Len(z) /\ Len(z) \in Nat
        /\ \A i \in 1..Len(x \o y) : p[i] = (x \o y)[i]
    BY <2>1, JoinParts
  <2>3. \A i \in 1..m : f + i \in 1..f + m  BY <1>1
  <2>4. Solid \subseteq Seg  BY DEF Solid
  <2> HIDE DEF p, f, m
  <2>5. p \in Seq(Seg)  BY <2>2, SolidSeq
  <2> QED  BY <2>1, <2>2, <2>3, <2>4, <2>5
<1>3. a \in Nat /\ b \in Nat /\ Length(y) \in Nat /\ Y[m + 1] = Length(y) /\ Y[1] = 0
  <2>1. a \in Nat /\ Length(y) \in Nat  BY <1>1, LengthJoin
  <2>2. Y[m + 1] = Length(y)  BY LengthOf
  <2>3. Y[1] = 0  BY <1>1, StartsOf
  <2> QED  BY <2>1, <2>2, <2>3
<1>4. \A i \in 1..m + 1 : Z[f + i] = a + Y[i] /\ Y[i] \in Nat
  <2>1. x \o y \in Seq(Seg) /\ Len(x \o y) = f + m  BY <1>1, JoinParts
  <2>2. \A i \in 1..(f + m) + 1 : Z[i] = Starts(x \o y)[i]
    <3> DEFINE w == x \o y
    <3>1. w \in Seq(Seg) /\ Len(w) = f + m  BY <2>1
    <3> HIDE DEF w
    <3>2. \A i \in 1..Len(w) + 1 : Starts(w \o z)[i] = Starts(w)[i]  BY <1>1, <3>1, StartsJoin
    <3> QED  BY <3>1, <3>2 DEF w
  <2>3. \A i \in 1..m + 1 : Starts(x \o y)[f + i] = a + Y[i]  BY <1>1, StartsJoin
  <2>4. Y \in [1..m + 1 -> Nat]  BY <1>1, StartsOf
  <2>5. \A i \in 1..m + 1 : f + i \in 1..(f + m) + 1  BY <1>1
  <2> HIDE DEF f, m, a, Y, Z
  <2> QED  BY <2>2, <2>3, <2>4, <2>5
<1>5. \A i \in 1..m : /\ Y[i + 1] = Y[i] + y[i].n /\ y[i].n \in Nat /\ y[i].n > 0
                     /\ Y[i] < Y[m + 1] /\ Y[i + 1] <= Y[m + 1]
  <2> TAKE i \in 1..m
  <2>1. Y[i + 1] = Y[i] + y[i].n /\ y[i].n \in Nat /\ y[i].n > 0  BY <1>1, StartsOf, SolidSeq
  <2>2. m + 1 \in i + 1..m + 1  BY <1>1
  <2>3. Y[i] < Y[m + 1]  BY <2>2, StartsRise
  <2>4. CASE i = m
    <3>1. Y[i + 1] = Y[m + 1] /\ Y[m + 1] \in Nat  BY <1>3, <2>4
    <3> QED  BY <2>1, <2>3, <3>1
  <2>5. CASE i # m
    <3>1. i + 1 \in 1..m /\ m + 1 \in (i + 1) + 1..m + 1 /\ i + 1 \in 1..m + 1 /\ m + 1 \in 1..m + 1
      BY <1>1, <2>5
    <3>2. Y[i + 1] < Y[m + 1]  BY <3>1, StartsRise
    <3>3. Y[i + 1] \in Nat /\ Y[m + 1] \in Nat  BY <1>4, <3>1
    <3> QED  BY <2>1, <2>3, <3>2, <3>3
  <2> QED  BY <2>4, <2>5
<1>6. SubSeq(cut, f + 1, f + m) = y
  <2>1. \A i \in 1..m : cut[f + i] = y[i]
    <3> TAKE i \in 1..m
    <3>1. f + i \in 1..Len(p) /\ i \in 1..m + 1 /\ m + 1 \in 1..m + 1  BY <1>1, <1>2
    <3>2. cut[f + i] = Cut(y[i], a + Y[i], a, b) /\ y[i] \in Seg
      BY <1>2, <1>4, <3>1 DEF Cuts
    <3>3. a + Y[i] \in Nat /\ a <= a + Y[i] /\ (a + Y[i]) + y[i].n <= b /\ y[i].n > 0
      <4>1. /\ Y[i] \in Nat /\ y[i].n \in Nat /\ y[i].n > 0 /\ Y[i + 1] = Y[i] + y[i].n
            /\ Y[i + 1] <= Y[m + 1]
        BY <1>4, <1>5, <3>1
      <4>2. b = a + Y[m + 1] /\ a \in Nat /\ Y[m + 1] \in Nat  BY <1>3
      <4> HIDE DEF a, b, Y, m
      <4> DEFINE u == Y[i]
                 k == y[i].n
                 v == Y[i + 1]
                 w == Y[m + 1]
      <4>3. u \in Nat /\ k \in Nat /\ k > 0 /\ v = u + k /\ v <= w /\ w \in Nat
            /\ a \in Nat /\ b = a + w
        BY <4>1, <4>2
      <4> HIDE DEF u, k, v, w
      <4>4. a + u \in Nat /\ a <= a + u  BY <4>3
      <4>5. (a + u) + k = a + v /\ a + v <= b  BY <4>3
      <4>6. (a + u) + k <= b /\ k > 0  BY <4>3, <4>5
      <4> QED  BY <4>4, <4>6 DEF u, k
    <3> HIDE DEF a, b, Y
    <3> QED  BY <1>3, <3>2, <3>3, CutWhole
  <2> DEFINE C == {cut[i] : i \in 1..Len(p)}
  <2>2. cut \in Seq(C) /\ Len(cut) = Len(p)
    <3> HIDE DEF p
    <3>1. Len(p) \in Nat  BY <1>2
    <3> QED  BY <3>1 DEF Cuts
  <2> HIDE DEF cut, p, f, m
  <2>3. /\ Len(SubSeq(cut, f + 1, f + m)) = m
        /\ \A i \in 1..m : SubSeq(cut, f + 1, f + m)[i] = cut[f + i]
    <3>1. f + 1 \in 1..Len(cut) + 1 /\ f + m \in 0..Len(cut)  BY <1>1, <1>2, <2>2
    <3>2. \A i \in 1..m : (f + 1) + i - 1 = f + i  BY <1>1
    <3>3. (f + m) - (f + 1) + 1 = m  BY <1>1
    <3>4. Len(SubSeq(cut, f + 1, f + m)) = m  BY <1>1, <2>2, <3>1, <3>3
    <3>5. \A i \in 1..m : SubSeq(cut, f + 1, f + m)[i] = cut[f + i]
      BY <1>1, <2>2, <3>1, <3>2, <3>3
    <3> QED  BY <3>4, <3>5
  <2>4. SubSeq(cut, f + 1, f + m) \in Seq(C)
    <3>1. f + 1 \in Int /\ f + m \in Int /\ \A i \in f + 1..f + m : i \in 1..Len(p)  BY <1>1, <1>2
    <3>2. \A i \in 1..Len(p) : cut[i] \in C  OBVIOUS
    <3>3. \A i \in f + 1..f + m : cut[i] \in C  BY <3>1, <3>2
    <3> HIDE DEF C
    <3> QED  BY <3>1, <3>3, SubSeqProperties
  <2>5. Len(y) = m  BY DEF m
  <2> QED  BY <1>1, <2>1, <2>3, <2>4, <2>5
<1>7. Slice(p, a, b) = SubSeq(cut, f + 1, f + m)
  <2>1. f \in 0..Len(p) /\ f + m \in 0..Len(p)  BY <1>1, <1>2
  <2>2. Z[f + 1] <= a /\ b <= Z[(f + m) + 1]
    <3>1. 1 \in 1..m + 1 /\ m + 1 \in 1..m + 1 /\ f + (m + 1) = (f + m) + 1  BY <1>1
    <3>2. Z[f + 1] = a + Y[1] /\ Z[f + (m + 1)] = a + Y[m + 1]  BY <1>4, <3>1
    <3> QED  BY <1>3, <3>1, <3>2
  <2>3. Z[f + 1] = a /\ Z[(f + m) + 1] = b
    <3>1. 1 \in 1..m + 1 /\ m + 1 \in 1..m + 1 /\ f + (m + 1) = (f + m) + 1  BY <1>1
    <3>2. Z[f + 1] = a + Y[1] /\ Z[f + (m + 1)] = a + Y[m + 1]  BY <1>4, <3>1
    <3> QED  BY <1>3, <3>1, <3>2
  <2> HIDE DEF p, f, m, a, b
  <2>4. f < Len(p) => a < Z[f + 2]
    <3> SUFFICES ASSUME f < Len(p) PROVE a < Z[f + 2]  OBVIOUS
    <3>1. f + 1 \in 1..Len(p) /\ f + 2 \in (f + 1) + 1..Len(p) + 1  BY <1>1, <1>2
    <3> QED  BY <1>2, <2>3, <3>1, StartsRise
  <2>5. f + m > 0 => Z[f + m] < b
    <3> SUFFICES ASSUME f + m > 0 PROVE Z[f + m] < b  OBVIOUS
    <3>1. f + m \in 1..Len(p) /\ (f + m) + 1 \in (f + m) + 1..Len(p) + 1  BY <1>1, <1>2
    <3> QED  BY <1>2, <2>3, <3>1, StartsRise
  <2> DEFINE l == f + m
  <2>6. /\ l \in 0..Len(p) /\ f \in 0..Len(p) /\ (l > 0 => Z[l] < b)
        /\ b <= Z[l + 1] /\ Z[f + 1] <= a /\ p \in Seq(Solid)
    BY <1>2, <2>1, <2>2, <2>5
  <2> HIDE DEF l
  <2>7. Slice(p, a, b) = SubSeq(cut, f + 1, l)  BY <1>3, <2>4, <2>6, SliceAt
  <2> QED  BY <2>7 DEF l
<1> QED  BY <1>6, <1>7

(* n bytes of a segment, `from' of its own being left out.                *)
PartOf(s, from, n) == [s EXCEPT !.n = n, !.from = @ + from]

(* A slice within one segment.                                             *)
LEMMA SlicePart ==
    ASSUME NEW x \in Seq(Solid), NEW s \in Solid, NEW z \in Seq(Solid),
           NEW c \in Nat, NEW d \in Nat, c < d, d <= s.n
    PROVE  Slice(x \o <<s>> \o z, Length(x) + c, Length(x) + d)
               = <<PartOf(s, c, d - c)>>
<1> DEFINE y == <<s>>
           p == x \o y \o z
           f == Len(x)
           a == Length(x) + c
           b == Length(x) + d
           Z == Starts(p)
<1>1. x \in Seq(Seg) /\ y \in Seq(Solid) /\ y \in Seq(Seg) /\ z \in Seq(Seg) /\ s \in Seg
      /\ f \in Nat /\ Len(y) = 1 /\ y[1] = s /\ s.n \in Nat /\ s.from \in Nat
  <2>1. s \in Seg  BY DEF Solid
  <2> QED  BY <2>1, SolidSeq, SegParts
<1>2. /\ p \in Seq(Solid) /\ Len(p) = f + 1 + Len(z) /\ Len(z) \in Nat /\ p[f + 1] = s
  <2>1. x \o y \in Seq(Solid) /\ Len(x \o y) = f + 1 /\ (x \o y)[f + 1] = s
    <3>1. 1 \in 1..Len(y)  BY <1>1
    <3>2. /\ x \o y \in Seq(Solid) /\ Len(x \o y) = Len(x) + Len(y)
          /\ \A i \in 1..Len(y) : (x \o y)[Len(x) + i] = y[i]
      <4>1. y \in Seq(Solid)  BY <1>1
      <4> HIDE DEF y, f, p, a, b, Z
      <4> QED  BY <4>1, JoinParts
    <3> HIDE DEF y
    <3> QED  BY <1>1, <3>1, <3>2
  <2>2. /\ p \in Seq(Solid) /\ Len(p) = Len(x \o y) + Len(z) /\ Len(z) \in Nat
        /\ \A i \in 1..Len(x \o y) : p[i] = (x \o y)[i]
    BY <2>1, JoinParts
  <2>3. f + 1 \in 1..f + 1  BY <1>1
  <2> HIDE DEF p, f, y
  <2> QED  BY <2>1, <2>2, <2>3
<1>3. Length(x) \in Nat /\ Length(y) = s.n
  <2>1. Length(x) \in Nat  BY <1>1, LengthJoin
  <2> QED  BY <1>1, <2>1, LengthOne
<1>4. Z[f + 1] = Length(x) /\ Z[f + 2] = Length(x) + s.n
  <2> DEFINE w == x \o y
  <2>1. w \in Seq(Seg) /\ Len(w) = f + 1  
    <3> HIDE DEF y, p, a, b, Z
    <3>1. x \o y \in Seq(Seg) /\ Len(x \o y) = Len(x) + Len(y)  BY <1>1, JoinParts
    <3> QED  BY <1>1, <3>1 DEF w
  <2>2. Starts(w)[f + 1] = Length(x) + Starts(y)[1] /\ Starts(w)[f + 2] = Length(x) + Starts(y)[2]
    <3>1. 1 \in 1..Len(y) + 1 /\ 2 \in 1..Len(y) + 1  BY <1>1
    <3> HIDE DEF y
    <3> QED  BY <1>1, <3>1, StartsJoin
  <2>3. Starts(y)[1] = 0 /\ Starts(y)[2] = s.n
    <3>1. Starts(y)[1] = 0  BY <1>1, StartsOf
    <3>2. Starts(y)[2] = Length(y)
      <4> HIDE DEF y
      <4>1. Len(y) + 1 = 2  BY <1>1
      <4> QED  BY <4>1, LengthOf
    <3> QED  BY <1>3, <3>1, <3>2
  <2> HIDE DEF w, y
  <2>4. \A i \in 1..Len(w) + 1 : Starts(w \o z)[i] = Starts(w)[i]  BY <1>1, <2>1, StartsJoin
  <2>5. f + 1 \in 1..Len(w) + 1 /\ f + 2 \in 1..Len(w) + 1  BY <1>1, <2>1
  <2>6. Z[f + 1] = Starts(w)[f + 1] /\ Z[f + 2] = Starts(w)[f + 2]  BY <2>4, <2>5 DEF w
  <2> QED  BY <1>3, <2>2, <2>3, <2>6
<1> HIDE DEF p, f, y, Z
<1>5. Slice(p, a, b) = SubSeq(Cuts(p, a, b), f + 1, f + 1)
  <2> DEFINE l == f + 1
  <2>1. /\ l \in 0..Len(p) /\ f \in 0..Len(p) /\ a \in Nat /\ b \in Nat
        /\ Z[f + 1] <= a /\ a < Z[f + 2] /\ Z[l] < b /\ b <= Z[l + 1]
    <3>1. l + 1 = f + 2 /\ l \in 0..Len(p) /\ f \in 0..Len(p)  BY <1>1, <1>2
    <3>2. a \in Nat /\ b \in Nat /\ Length(x) <= a /\ a < Length(x) + s.n
          /\ Length(x) < b /\ b <= Length(x) + s.n
      <4> DEFINE L == Length(x)
                 k == s.n
      <4>1. L \in Nat /\ k \in Nat /\ d <= k  BY <1>1, <1>3
      <4> HIDE DEF L, k
      <4>2. /\ L + c \in Nat /\ L + d \in Nat /\ L <= L + c /\ L + c < L + k
            /\ L < L + d /\ L + d <= L + k
        BY <4>1
      <4> QED  BY <4>2 DEF L, k
    <3> HIDE DEF a, b
    <3> QED  BY <1>4, <3>1, <3>2
  <2> HIDE DEF l, a, b
  <2>2. /\ Starts(p)[f + 1] <= a /\ (f < Len(p) => a < Starts(p)[f + 2])
        /\ (l > 0 => Starts(p)[l] < b) /\ b <= Starts(p)[l + 1]
    BY <2>1, Zenon DEF Z
  <2>3. f \in 0..Len(p) /\ l \in 0..Len(p) /\ a \in Nat /\ b \in Nat /\ p \in Seq(Solid)
    BY <1>2, <2>1, Zenon
  <2>4. Slice(p, a, b) = SubSeq(Cuts(p, a, b), f + 1, l)  BY <2>2, <2>3, SliceAt, SMTT(60)
  <2> QED  BY <2>4 DEF l
<1>6. Cuts(p, a, b)[f + 1] = PartOf(s, c, d - c)
  <2>1. f + 1 \in 1..Len(p)  BY <1>1, <1>2
  <2>2. Cuts(p, a, b)[f + 1] = Cut(s, Length(x), a, b)  BY <1>2, <1>4, <2>1 DEF Cuts, Z
  <2> DEFINE L == Length(x)
             low == IF a > L THEN a ELSE L
             high == IF b < L + s.n THEN b ELSE L + s.n
  <2>3. Cut(s, L, a, b)
          = [s EXCEPT !.n = IF low < high THEN high - low ELSE 0, !.from = s.from + (low - L)]
    BY DEF Cut
  <2>4. L \in Nat /\ s.n \in Nat /\ s.from \in Nat  BY <1>1, <1>3
  <2>5. (IF low < high THEN high - low ELSE 0) = d - c /\ s.from + (low - L) = s.from + c
    <3> DEFINE k == s.n
               g == s.from
    <3>1. k \in Nat /\ g \in Nat /\ d <= k  BY <2>4
    <3> HIDE DEF L, k, g
    <3>2. low = L + c /\ high = L + d  BY <2>4, <3>1 DEF L, k
    <3> HIDE DEF low, high
    <3>3. (IF low < high THEN high - low ELSE 0) = d - c  BY <2>4, <3>2
    <3>4. g + (low - L) = g + c  BY <2>4, <3>1, <3>2
    <3> QED  BY <3>3, <3>4 DEF g
  <2> HIDE DEF low, high
  <2>6. PartOf(s, c, d - c) = [s EXCEPT !.n = d - c, !.from = s.from + c]  BY DEF PartOf
  <2> QED  BY <2>2, <2>3, <2>5, <2>6
<1>7. SubSeq(Cuts(p, a, b), f + 1, f + 1) = <<Cuts(p, a, b)[f + 1]>>
  <2> DEFINE cut == Cuts(p, a, b)
             C == {cut[i] : i \in 1..Len(p)}
  <2>1. cut \in Seq(C) /\ Len(cut) = Len(p)
    <3>1. Len(p) \in Nat  BY <1>2
    <3> QED  BY <3>1 DEF Cuts
  <2> HIDE DEF cut, C
  <2>2. f + 1 \in 1..Len(cut)  BY <1>1, <1>2, <2>1
  <2> DEFINE k == f + 1
  <2>3. k \in 1..Len(cut)  BY <2>2
  <2> HIDE DEF k
  <2>4. SubSeq(cut, k, k) = <<cut[k]>>
    <3> DEFINE t == SubSeq(cut, k, k)
    <3>1. t \in Seq(C) /\ Len(t) = 1  BY <2>1, <2>3
    <3>2. t[1] = cut[k]  BY <2>1, <2>3
    <3> HIDE DEF t
    <3>3. t = <<t[1]>>  BY <3>1
    <3> QED  BY <3>2, <3>3 DEF t
  <2> QED  BY <2>4 DEF k, cut
<1> QED  BY <1>5, <1>6, <1>7 DEF p, y

Cat(x, y) == x \o y

(* What is made of segments that have bytes.                               *)
Bytes == Seq(Solid)

(* Lengths add up.                                                         *)
LEMMA CatBytes ==
    ASSUME NEW x \in Bytes, NEW y \in Bytes
    PROVE  /\ Cat(x, y) \in Bytes /\ Length(x) \in Nat /\ Length(y) \in Nat
           /\ Length(Cat(x, y)) = Length(x) + Length(y)
<1>1. x \in Seq(Solid) /\ y \in Seq(Solid)  BY DEF Bytes
<1>2. x \in Seq(Seg) /\ y \in Seq(Seg)  BY <1>1, SolidSeq
<1>3. Cat(x, y) \in Bytes  BY <1>1 DEF Cat, Bytes
<1> QED  BY <1>2, <1>3, LengthJoin DEF Cat

(* It does not matter in which order lists are put together.               *)
LEMMA CatAssociative ==
    ASSUME NEW x \in Bytes, NEW y \in Bytes, NEW z \in Bytes
    PROVE  Cat(Cat(x, y), z) = Cat(x, Cat(y, z))
BY ConcatAssociative DEF Cat, Bytes

(* Nothing put before or behind a list leaves it as it is.                 *)
LEMMA CatNothing ==
    /\ <<>> \in Bytes /\ Length(<<>>) = 0
    /\ \A x \in Bytes : Cat(<<>>, x) = x /\ Cat(x, <<>>) = x
<1>1. Length(<<>>) = 0  BY LengthOne
<1>2. ASSUME NEW x \in Bytes PROVE Cat(<<>>, x) = x /\ Cat(x, <<>>) = x
  BY <1>2, ConcatEmptySeq DEF Cat, Bytes
<1> QED  BY <1>1, <1>2 DEF Bytes

(* A slice that begins and ends with a segment.                            *)
LEMMA SliceBetween ==
    ASSUME NEW x \in Bytes, NEW y \in Bytes, NEW z \in Bytes
    PROVE  Slice(Cat(Cat(x, y), z), Length(x), Length(x) + Length(y)) = y
BY SliceParts DEF Cat, Bytes

(* A slice of a single segment.                                            *)
LEMMA SliceInside ==
    ASSUME NEW x \in Bytes, NEW s \in Solid, NEW z \in Bytes,
           NEW c \in Nat, NEW d \in Nat, c < d, d <= s.n
    PROVE  Slice(Cat(Cat(x, <<s>>), z), Length(x) + c, Length(x) + d)
               = <<PartOf(s, c, d - c)>>
BY SlicePart DEF Cat, Bytes

(***************************************************************************)
(* The header, and what lies where in a payload.                           *)
(***************************************************************************)
SizeField(size) == <<Written("size", SizeSize, size)>>
SignatureField(v) == <<Written("signature", SignatureSize, v)>>
SignerField(v) == <<Written("signer", SignerSize, v)>>
KindFields == <<Written("version", VersionSize, 1), Written("type", TypeSize, 1)>>
FeeFields == <<Written("maxFee", MaxFeeSize, 1), Written("deadline", DeadLineSize, 1)>>

Framed(size, signature, signer, rest) ==
    Cat(SizeField(size), Cat(SignatureField(signature), Cat(SignerField(signer),
        Cat(KindFields, Cat(FeeFields, rest)))))

HalfSignature(v) == <<PartOf(Written("signature", SignatureSize, v), 0, HalfOfSignature)>>

(* A field that is written by hand.                                        *)
LEMMA Written1 ==
    ASSUME NEW field \in FieldNames, NEW n \in Nat, n > 0, NEW v \in Nat
    PROVE  /\ Written(field, n, v) \in Solid
           /\ Written(field, n, v).n = n /\ Written(field, n, v).v = v
           /\ Written(field, n, v).from = 0 /\ Written(field, n, v).whole = n
           /\ Written(field, n, v).field = field /\ Written(field, n, v).owner = 0
           /\ Written(field, n, v).each = <<>>
BY DEF Written, Segment, Solid, Seg

(* One segment more in front.                                              *)
LEMMA LengthCons ==
    ASSUME NEW s \in Solid, NEW y \in Bytes
    PROVE  /\ <<s>> \in Bytes /\ Length(<<s>>) = s.n
           /\ Length(<<s>> \o y) = s.n + Length(y)
<1>1. s \in Seg /\ <<s>> \in Seq(Solid) /\ y \in Seq(Solid) /\ <<s>> \in Bytes  BY DEF Solid, Bytes
<1>2. y \in Seq(Seg) /\ <<s>> \in Seq(Seg)  BY <1>1, SolidSeq
<1>3. Length(<<s>>) = s.n  BY <1>1, LengthOne
<1> DEFINE x == <<s>>
<1> HIDE DEF x
<1>4. Length(x \o y) = Length(x) + Length(y)
  <2>1. x \in Seq(Seg)  BY <1>2 DEF x
  <2> QED  BY <1>2, <2>1, LengthJoin
<1> QED  BY <1>1, <1>3, <1>4 DEF x

(* A pair is one list after the other.                                     *)
LEMMA PairSplit ==
    ASSUME NEW S, NEW s \in S, NEW t \in S
    PROVE  <<s, t>> = <<s>> \o <<t>> /\ <<s, t>> \in Seq(S)
<1> DEFINE x == <<s>>
           y == <<t>>
           z == <<s, t>>
<1>1. x \in Seq(S) /\ y \in Seq(S) /\ z \in Seq(S) /\ Len(x) = 1 /\ Len(y) = 1 /\ Len(z) = 2
      /\ x[1] = s /\ y[1] = t /\ z[1] = s /\ z[2] = t
  OBVIOUS
<1> HIDE DEF x, y, z
<1>2. /\ x \o y \in Seq(S) /\ Len(x \o y) = Len(x) + Len(y)
      /\ \A i \in 1..Len(x) : (x \o y)[i] = x[i]
      /\ \A i \in 1..Len(y) : (x \o y)[Len(x) + i] = y[i]
  <2>1. x \in Seq(S) /\ y \in Seq(S)  BY <1>1
  <2> QED  BY <2>1, JoinParts
<1>3. (x \o y)[1] = s /\ (x \o y)[2] = t
  <2>1. 1 \in 1..Len(x) /\ 1 \in 1..Len(y) /\ Len(x) + 1 = 2  BY <1>1
  <2> QED  BY <1>1, <1>2, <2>1
<1>4. \A i \in 1..2 : z[i] = (x \o y)[i]
  <2>1. \A i \in 1..2 : i = 1 \/ i = 2  OBVIOUS
  <2> QED  BY <1>1, <1>3, <2>1
<1>5. z = x \o y  BY <1>1, <1>2, <1>4
<1> QED  BY <1>1, <1>5 DEF x, y, z

(* The parts of a header and their lengths.                                *)
LEMMA FieldLists ==
    ASSUME NEW size \in Nat, NEW signature \in Nat, NEW signer \in Nat
    PROVE  /\ SizeField(size) \in Bytes /\ Length(SizeField(size)) = 4
           /\ SignatureField(signature) \in Bytes /\ Length(SignatureField(signature)) = 64
           /\ SignerField(signer) \in Bytes /\ Length(SignerField(signer)) = 32
           /\ KindFields \in Bytes /\ Length(KindFields) = 6
           /\ FeeFields \in Bytes /\ Length(FeeFields) = 16
<1> USE DEF SizeSize, SignatureSize, SignerSize, VersionSize, TypeSize, MaxFeeSize, DeadLineSize
<1>n. /\ "size" \in FieldNames /\ "signature" \in FieldNames /\ "signer" \in FieldNames
      /\ "version" \in FieldNames /\ "type" \in FieldNames /\ "maxFee" \in FieldNames
      /\ "deadline" \in FieldNames
  BY DEF FieldNames, HeaderNames
<1>1. /\ Written("size", 4, size) \in Solid /\ Written("size", 4, size).n = 4
      /\ Written("signature", 64, signature) \in Solid /\ Written("signature", 64, signature).n = 64
      /\ Written("signer", 32, signer) \in Solid /\ Written("signer", 32, signer).n = 32
  BY <1>n, Written1
<1>2. /\ Written("version", 4, 1) \in Solid /\ Written("version", 4, 1).n = 4
      /\ Written("type", 2, 1) \in Solid /\ Written("type", 2, 1).n = 2
      /\ Written("maxFee", 8, 1) \in Solid /\ Written("maxFee", 8, 1).n = 8
      /\ Written("deadline", 8, 1) \in Solid /\ Written("deadline", 8, 1).n = 8
  BY <1>n, Written1
<1>3. <<>> \in Bytes  BY DEF Bytes
<1>4. /\ SizeField(size) \in Bytes /\ Length(SizeField(size)) = 4
      /\ SignatureField(signature) \in Bytes /\ Length(SignatureField(signature)) = 64
      /\ SignerField(signer) \in Bytes /\ Length(SignerField(signer)) = 32
  BY <1>1, <1>3, LengthCons DEF SizeField, SignatureField, SignerField
<1>5. ASSUME NEW s \in Solid, NEW t \in Solid
      PROVE  <<s, t>> \in Bytes /\ Length(<<s, t>>) = s.n + t.n
  <2>1. <<t>> \in Bytes /\ Length(<<t>>) = t.n  BY <1>3, LengthCons
  <2>2. Length(<<s>> \o <<t>>) = s.n + Length(<<t>>)  BY <2>1, LengthCons
  <2>3. <<s, t>> = <<s>> \o <<t>> /\ <<s, t>> \in Bytes  BY PairSplit DEF Bytes
  <2> QED  BY <2>1, <2>2, <2>3
<1>6. KindFields \in Bytes /\ Length(KindFields) = 6  BY <1>2, <1>5 DEF KindFields
<1>7. FeeFields \in Bytes /\ Length(FeeFields) = 16  BY <1>2, <1>5 DEF FeeFields
<1> QED  BY <1>4, <1>6, <1>7

(* Where the parts of a payload lie.                                       *)
LEMMA FramedParts ==
    ASSUME NEW size \in Nat, NEW signature \in Nat, NEW signer \in Nat, NEW rest \in Bytes
    PROVE  LET p == Framed(size, signature, signer, rest) IN
           /\ p \in Bytes /\ Length(rest) \in Nat /\ Length(p) = 122 + Length(rest)
           /\ Slice(p, 0, 4) = SizeField(size)
           /\ Slice(p, 4, 36) = HalfSignature(signature)
           /\ Slice(p, 68, 100) = SignerField(signer)
           /\ Slice(p, 100, 106) = KindFields
           /\ Slice(p, 100, Length(p)) = Cat(KindFields, Cat(FeeFields, rest))
           /\ Slice(p, 122, Length(p)) = rest
           /\ Slice(p, 4, Length(p))
                  = Cat(SignatureField(signature), Cat(SignerField(signer),
                        Cat(KindFields, Cat(FeeFields, rest))))
           /\ ReadNumber(p, 0) = size
<1> DEFINE a == SizeField(size)
           b == SignatureField(signature)
           c == SignerField(signer)
           d == KindFields
           e == FeeFields
           p == Framed(size, signature, signer, rest)
           ab == Cat(a, b)
           abc == Cat(ab, c)
           abcd == Cat(abc, d)
           abcde == Cat(abcd, e)
           er == Cat(e, rest)
           der == Cat(d, er)
           cder == Cat(c, der)
           bcder == Cat(b, cder)
<1>1. /\ a \in Bytes /\ b \in Bytes /\ c \in Bytes /\ d \in Bytes
      /\ e \in Bytes /\ Length(a) = 4 /\ Length(b) = 64 /\ Length(c) = 32
      /\ Length(d) = 6 /\ Length(e) = 16
  BY FieldLists
<1>2. p = Cat(a, bcder)  BY DEF Framed
<1>3. a = <<Written("size", 4, size)>> /\ b = <<Written("signature", 64, signature)>>
  BY DEF SizeField, SignatureField, SizeSize, SignatureSize
<1> HIDE DEF a, b, c, d, e, p
<1>5. /\ ab \in Bytes /\ Length(ab) = 68 /\ abc \in Bytes /\ Length(abc) = 100
      /\ abcd \in Bytes /\ Length(abcd) = 106 /\ abcde \in Bytes /\ Length(abcde) = 122
  <2>1. ab \in Bytes /\ Length(ab) = 68  BY <1>1, CatBytes
  <2>2. abc \in Bytes /\ Length(abc) = 100  BY <1>1, <2>1, CatBytes
  <2>3. abcd \in Bytes /\ Length(abcd) = 106  BY <1>1, <2>2, CatBytes
  <2>4. abcde \in Bytes /\ Length(abcde) = 122  BY <1>1, <2>3, CatBytes
  <2> QED  BY <2>1, <2>2, <2>3, <2>4
<1>m. /\ er \in Bytes /\ der \in Bytes /\ cder \in Bytes /\ bcder \in Bytes /\ p \in Bytes
      /\ <<>> \in Bytes /\ Length(rest) \in Nat
      /\ Length(der) = 22 + Length(rest) /\ Length(bcder) = 118 + Length(rest)
      /\ Length(p) = 122 + Length(rest)
  <2>1. <<>> \in Bytes  BY CatNothing
  <2>2. er \in Bytes /\ Length(er) = 16 + Length(rest) /\ Length(rest) \in Nat
    BY <1>1, CatBytes
  <2>3. der \in Bytes /\ Length(der) = 22 + Length(rest)  BY <1>1, <2>2, CatBytes
  <2>4. cder \in Bytes /\ Length(cder) = 54 + Length(rest)  BY <1>1, <2>2, <2>3, CatBytes
  <2>5. bcder \in Bytes /\ Length(bcder) = 118 + Length(rest)  BY <1>1, <2>2, <2>4, CatBytes
  <2>6. p \in Bytes /\ Length(p) = 122 + Length(rest)  BY <1>1, <1>2, <2>2, <2>5, CatBytes
  <2> QED  BY <2>1, <2>2, <2>3, <2>4, <2>5, <2>6
<1>4. /\ p = Cat(Cat(<<>>, a), bcder) /\ p = Cat(Cat(a, b), cder) /\ p = Cat(Cat(ab, c), der)
      /\ p = Cat(Cat(abc, d), er) /\ p = Cat(Cat(abc, der), <<>>)
      /\ p = Cat(Cat(abcde, rest), <<>>) /\ p = Cat(Cat(a, bcder), <<>>)
  <2>1. Cat(ab, cder) = Cat(a, bcder)  BY <1>1, <1>m, CatAssociative
  <2>2. Cat(abc, der) = Cat(ab, cder)  BY <1>1, <1>5, <1>m, CatAssociative
  <2>3. Cat(abcd, er) = Cat(abc, der)  BY <1>1, <1>5, <1>m, CatAssociative
  <2>4. Cat(abcde, rest) = Cat(abcd, er)  BY <1>1, <1>5, <1>m, CatAssociative
  <2>5. Cat(<<>>, a) = a /\ Cat(p, <<>>) = p  BY <1>1, <1>m, CatNothing
  <2> QED  BY <1>2, <2>1, <2>2, <2>3, <2>4, <2>5
<1>6. /\ er \in Bytes /\ der \in Bytes /\ cder \in Bytes /\ bcder \in Bytes /\ p \in Bytes
      /\ <<>> \in Bytes /\ ab \in Bytes /\ abc \in Bytes /\ abcd \in Bytes /\ abcde \in Bytes
  BY <1>5, <1>m
<1> HIDE DEF er, der, cder, bcder, ab, abc, abcd, abcde
<1>7. Length(<<>>) = 0  BY CatNothing
<1>8. Slice(p, 0, 4) = a
  <2>1. Slice(Cat(Cat(<<>>, a), bcder), Length(<<>>), Length(<<>>) + Length(a)) = a
    BY <1>1, <1>6, SliceBetween
  <2>2. Length(<<>>) = 0 /\ Length(<<>>) + Length(a) = 4
    BY <1>1, <1>5, <1>m, <1>7
  <2> QED  BY <1>4, <2>1, <2>2
<1>9. Slice(p, 68, 100) = c
  <2>1. Slice(Cat(Cat(ab, c), der), Length(ab), Length(ab) + Length(c)) = c
    BY <1>1, <1>6, SliceBetween
  <2>2. Length(ab) = 68 /\ Length(ab) + Length(c) = 100
    BY <1>1, <1>5, <1>m, <1>7
  <2> QED  BY <1>4, <2>1, <2>2
<1>10. Slice(p, 100, 106) = d
  <2>1. Slice(Cat(Cat(abc, d), er), Length(abc), Length(abc) + Length(d)) = d
    BY <1>1, <1>6, SliceBetween
  <2>2. Length(abc) = 100 /\ Length(abc) + Length(d) = 106
    BY <1>1, <1>5, <1>m, <1>7
  <2> QED  BY <1>4, <2>1, <2>2
<1>11. Slice(p, 100, Length(p)) = der
  <2>1. Slice(Cat(Cat(abc, der), <<>>), Length(abc), Length(abc) + Length(der)) = der
    BY <1>1, <1>6, SliceBetween
  <2>2. Length(abc) = 100 /\ Length(abc) + Length(der) = Length(p)
    BY <1>1, <1>5, <1>m, <1>7
  <2> QED  BY <1>4, <2>1, <2>2
<1>12. Slice(p, 122, Length(p)) = rest
  <2>1. Slice(Cat(Cat(abcde, rest), <<>>), Length(abcde), Length(abcde) + Length(rest)) = rest
    BY <1>1, <1>6, SliceBetween
  <2>2. Length(abcde) = 122 /\ Length(abcde) + Length(rest) = Length(p)
    BY <1>1, <1>5, <1>m, <1>7
  <2> QED  BY <1>4, <2>1, <2>2
<1>13. Slice(p, 4, Length(p)) = bcder
  <2>1. Slice(Cat(Cat(a, bcder), <<>>), Length(a), Length(a) + Length(bcder)) = bcder
    BY <1>1, <1>6, SliceBetween
  <2>2. Length(a) = 4 /\ Length(a) + Length(bcder) = Length(p)
    BY <1>1, <1>5, <1>m, <1>7
  <2> QED  BY <1>4, <2>1, <2>2
<1>n. "size" \in FieldNames /\ "signature" \in FieldNames  BY DEF FieldNames, HeaderNames
<1>14. Slice(p, 4, 36) = HalfSignature(signature)
  <2> DEFINE s == Written("signature", 64, signature)
  <2>1. s \in Solid /\ s.n = 64  BY <1>n, Written1
  <2>2. p = Cat(Cat(a, <<s>>), cder)  BY <1>3, <1>4
  <2>3. HalfSignature(signature) = <<PartOf(s, 0, 32 - 0)>>
    BY DEF HalfSignature, SignatureSize, HalfOfSignature
  <2>4. Length(a) + 0 = 4 /\ Length(a) + 32 = 36  BY <1>1
  <2>5. 0 < 32 /\ 32 <= s.n  BY <2>1
  <2>7. a \in Bytes /\ cder \in Bytes  BY <1>1, <1>6
  <2> HIDE DEF s, ab, abc, abcd, abcde, er, der, cder, bcder
  <2>6. Slice(Cat(Cat(a, <<s>>), cder), Length(a) + 0, Length(a) + 32)
            = <<PartOf(s, 0, 32 - 0)>>
    BY <2>1, <2>5, <2>7, SliceInside
  <2> QED  BY <2>2, <2>3, <2>4, <2>6
<1>15. ReadNumber(p, 0) = size
  <2> DEFINE s == Written("size", 4, size)
             x == <<>>
  <2>1. s \in Solid /\ s.n = 4 /\ s.v = size  BY <1>n, Written1
  <2>2. p = Cat(Cat(x, <<s>>), bcder) /\ x \in Bytes  BY <1>3, <1>4, <1>6
  <2>3. Length(x) + 0 = 0 /\ Length(x) + 1 = 1  BY <1>7
  <2>4. 0 < 1 /\ 1 <= s.n  BY <2>1
  <2> HIDE DEF s, x
  <2>5. Slice(Cat(Cat(x, <<s>>), bcder), Length(x) + 0, Length(x) + 1)
            = <<PartOf(s, 0, 1 - 0)>>
    BY <1>6, <2>1, <2>2, <2>4, SliceInside
  <2>6. Slice(p, 0, 1) = <<PartOf(s, 0, 1 - 0)>>
    BY <2>2, <2>3, <2>5
  <2>7. PartOf(s, 0, 1 - 0).v = s.v  BY <2>1 DEF Solid, Seg, PartOf
  <2>8. 0 + 1 = 1  OBVIOUS
  <2> QED  BY <2>1, <2>6, <2>7, <2>8 DEF ReadNumber
<1> QED  BY <1>m, <1>8, <1>9, <1>10, <1>11, <1>12, <1>13, <1>14, <1>15
         DEF a, b, c, d, e, p, der, er, cder, bcder

(***************************************************************************)
(* Putting lists together.                                                 *)
(***************************************************************************)

(* Of three lists it does not matter which two are joined first.           *)
LEMMA Associative ==
    ASSUME NEW S, NEW x \in Seq(S), NEW y \in Seq(S), NEW z \in Seq(S)
    PROVE  (x \o y) \o z = x \o (y \o z)
BY ConcatAssociative, SMTT(30)

(* Nor whether an element is appended before or after.                     *)
LEMMA JoinAppend ==
    ASSUME NEW S, NEW x \in Seq(S), NEW y \in Seq(S), NEW e \in S
    PROVE  x \o Append(y, e) = Append(x \o y, e)
<1> DEFINE q == <<e>>
<1>1. Append(y, e) = y \o q /\ x \o y \in Seq(S) /\ q \in Seq(S)  BY AppendIsConcat
<1>2. Append(x \o y, e) = (x \o y) \o q  BY <1>1, AppendIsConcat
<1> HIDE DEF q
<1>3. (x \o y) \o q = x \o (y \o q)  BY <1>1, Associative
<1> QED  BY <1>1, <1>2, <1>3

(* The lists that FlattenSeq puts together, one after the other.           *)
Flat(P) ==
    CHOOSE f : f = [i \in 1..Len(P) |-> IF i = 1 THEN P[i] ELSE f[i - 1] \o P[i]]

UpTo(P, k) == IF k = 0 THEN <<>> ELSE Flat(P)[k]

(* Putting lists together one by one.                                      *)
LEMMA FlatOf ==
    ASSUME NEW S, NEW P \in Seq(Seq(S))
    PROVE  /\ \A k \in 0..Len(P) : UpTo(P, k) \in Seq(S)
           /\ \A k \in 1..Len(P) : UpTo(P, k) = UpTo(P, k - 1) \o P[k]
           /\ UpTo(P, 0) = <<>> /\ FlattenSeq(P) = UpTo(P, Len(P))
<1> DEFINE n == Len(P)
           T == Seq(S)
           step == [i \in 1..n |-> [x \in T |-> x \o P[i]]]
           g == Walk(n, T, <<>>, step)
           Rec(f) == [i \in 1..n |-> IF i = 1 THEN P[i] ELSE f[i - 1] \o P[i]]
           f0 == [i \in 1..n |-> g[i]]
           C == CHOOSE f : f = Rec(f)
<1>1. n \in Nat /\ \A i \in 1..n : P[i] \in T  OBVIOUS
<1>2. step \in [1..n -> [T -> T]] /\ <<>> \in T
  <2>1. \A i \in 1..n, x \in T : x \o P[i] \in T  BY <1>1
  <2> HIDE DEF n, T
  <2>2. step \in [1..n -> [T -> T]]  BY <2>1
  <2>3. <<>> \in T  BY DEF T
  <2> QED  BY <2>2, <2>3
<1>3. g \in [0..n -> T] /\ g[0] = <<>> /\ \A i \in 1..n : g[i] = step[i][g[i - 1]]
  <2> HIDE DEF n, T, step
  <2>1. IsWalk(g, n, T, <<>>, step)  BY <1>1, <1>2, StepsExist
  <2> QED  BY <2>1 DEF IsWalk
<1> HIDE DEF g, n, T
<1>4. \A i \in 1..n : i - 1 \in 0..n /\ i \in 0..n  BY <1>1
<1>5. \A i \in 1..n : g[i] = g[i - 1] \o P[i]  BY <1>3, <1>4
<1>6. \A x \in T : <<>> \o x = x
  <2> TAKE x \in T
  <2> QED  BY ConcatEmptySeq DEF T
<1>7. f0 = Rec(f0)
  <2>1. ASSUME NEW i \in 1..n PROVE f0[i] = Rec(f0)[i]
    <3>1. CASE i = 1
      <4>1. 1 \in 1..n /\ 1 - 1 = 0  BY <3>1
      <4>2. g[1] = g[0] \o P[1] /\ P[1] \in T  BY <1>1, <1>5, <4>1
      <4> QED  BY <1>3, <1>6, <3>1, <4>2
    <3>2. CASE i # 1
      <4>1. i - 1 \in 1..n  BY <1>1, <3>2
      <4> QED  BY <1>5, <3>2, <4>1
    <3> QED  BY <3>1, <3>2
  <2>2. f0 = [i \in 1..n |-> f0[i]] /\ Rec(f0) = [i \in 1..n |-> Rec(f0)[i]]  OBVIOUS
  <2> HIDE DEF Rec, f0
  <2> QED  BY <2>1, <2>2
<1>8. C = Rec(C)
  <2> HIDE DEF Rec, f0
  <2> QED  BY <1>7
<1>9. Flat(P) = C  BY DEF Flat, n
<1> HIDE DEF C
<1>10. UpTo(P, 0) = <<>>  BY DEF UpTo
<1>11. \A k \in 1..n : UpTo(P, k) = C[k]  BY <1>1, <1>9 DEF UpTo
<1>12. \A k \in 1..n : UpTo(P, k) = UpTo(P, k - 1) \o P[k]
  <2> TAKE k \in 1..n
  <2>1. CASE k = 1
    <3>1. C[1] = P[1] /\ P[1] \in T  BY <1>1, <1>8, <2>1
    <3>2. <<>> \o P[1] = P[1]  BY <1>6, <3>1
    <3>3. k - 1 = 0  BY <2>1
    <3> QED  BY <1>10, <1>11, <2>1, <3>1, <3>2, <3>3
  <2>2. CASE k # 1
    <3>1. k - 1 \in 1..n  BY <1>1, <2>2
    <3>2. C[k] = C[k - 1] \o P[k]  BY <1>8, <2>2
    <3> QED  BY <1>11, <3>1, <3>2
  <2> QED  BY <2>1, <2>2
<1>13. \A k \in 0..n : UpTo(P, k) \in T
  <2> DEFINE A == {k \in 0..n : UpTo(P, k) \in T}
  <2>1. 0 \in A  BY <1>1, <1>2, <1>10
  <2>2. ASSUME NEW k \in 1..n, k - 1 \in A PROVE k \in A
    <3>1. UpTo(P, k - 1) \o P[k] \in T
      <4>1. UpTo(P, k - 1) \in Seq(S) /\ P[k] \in Seq(S)  BY <1>1, <2>2 DEF T
      <4> QED  BY <4>1 DEF T
    <3> QED  BY <1>4, <1>12, <3>1
  <2> HIDE DEF A
  <2>3. 0..n \subseteq A  BY <1>1, <2>1, <2>2, Induct
  <2> QED  BY <2>3 DEF A
<1>14. FlattenSeq(P) = UpTo(P, n)
  <2>1. CASE n = 0
    <3>1. FlattenSeq(P) = P  BY <2>1 DEF FlattenSeq, n
    <3>2. P = <<>>  BY <2>1 DEF n
    <3> QED  BY <1>10, <2>1, <3>1, <3>2
  <2>2. CASE n # 0
    <3>1. FlattenSeq(P) = Flat(P)[n]  BY <2>2 DEF FlattenSeq, Flat, n
    <3> QED  BY <2>2, <3>1 DEF UpTo
  <2> QED  BY <2>1, <2>2
<1> QED  BY <1>10, <1>12, <1>13, <1>14 DEF n, T

(* The lists of two lists of lists.                                        *)
LEMMA FlatJoin ==
    ASSUME NEW S, NEW x \in Seq(Seq(S)), NEW y \in Seq(Seq(S))
    PROVE  /\ FlattenSeq(x) \in Seq(S) /\ FlattenSeq(y) \in Seq(S)
           /\ FlattenSeq(x \o y) = FlattenSeq(x) \o FlattenSeq(y)
<1> DEFINE z == x \o y
           n == Len(x)
           m == Len(y)
           T == Seq(S)
<1>1. /\ z \in Seq(Seq(S)) /\ Len(z) = n + m /\ n \in Nat /\ m \in Nat
      /\ \A i \in 1..n : z[i] = x[i] /\ x[i] \in T
      /\ \A i \in 1..m : z[n + i] = y[i] /\ y[i] \in T
  BY JoinParts
<1>2. /\ \A k \in 0..n : UpTo(x, k) \in T
      /\ \A k \in 1..n : UpTo(x, k) = UpTo(x, k - 1) \o x[k]
      /\ UpTo(x, 0) = <<>> /\ FlattenSeq(x) = UpTo(x, n)
  BY FlatOf
<1>3. /\ \A k \in 0..m : UpTo(y, k) \in T
      /\ \A k \in 1..m : UpTo(y, k) = UpTo(y, k - 1) \o y[k]
      /\ UpTo(y, 0) = <<>> /\ FlattenSeq(y) = UpTo(y, m)
  BY FlatOf
<1> HIDE DEF z
<1>4. /\ \A k \in 1..Len(z) : UpTo(z, k) = UpTo(z, k - 1) \o z[k]
      /\ UpTo(z, 0) = <<>> /\ FlattenSeq(z) = UpTo(z, Len(z))
  BY <1>1, FlatOf
<1>5. \A u, v, w \in T : (u \o v) \o w = u \o (v \o w)
  <2> TAKE u, v, w \in T
  <2> QED  BY Associative, SMTT(30) DEF T
<1>6. \A u \in T : u \o <<>> = u
  <2> TAKE u \in T
  <2> QED  BY ConcatEmptySeq DEF T
<1> HIDE DEF n, m, T
<1>7. \A k \in 0..n : UpTo(z, k) = UpTo(x, k)
  <2> DEFINE A == {k \in 0..n : UpTo(z, k) = UpTo(x, k)}
  <2>1. 0 \in A
    <3>1. 0 \in 0..n  BY <1>1
    <3> QED  BY <1>2, <1>4, <3>1
  <2>2. ASSUME NEW k \in 1..n, k - 1 \in A PROVE k \in A
    <3>1. k \in 0..n /\ k \in 1..Len(z)  BY <1>1
    <3>2. UpTo(z, k - 1) = UpTo(x, k - 1) /\ z[k] = x[k]  BY <1>1, <2>2
    <3>3. UpTo(z, k) = UpTo(z, k - 1) \o z[k] /\ UpTo(x, k) = UpTo(x, k - 1) \o x[k]
      BY <1>2, <1>4, <3>1
    <3> QED  BY <3>1, <3>2, <3>3
  <2> HIDE DEF A
  <2>3. 0..n \subseteq A  BY <1>1, <2>1, <2>2, Induct
  <2> QED  BY <2>3 DEF A
<1>8. \A k \in 0..m : UpTo(z, n + k) = UpTo(x, n) \o UpTo(y, k)
  <2> DEFINE A == {k \in 0..m : UpTo(z, n + k) = UpTo(x, n) \o UpTo(y, k)}
  <2>1. 0 \in A
    <3>1. 0 \in 0..m /\ n + 0 = n /\ n \in 0..n  BY <1>1
    <3>2. UpTo(x, n) \o <<>> = UpTo(x, n)  BY <1>2, <1>6, <3>1
    <3> QED  BY <1>3, <1>7, <3>1, <3>2
  <2>2. ASSUME NEW k \in 1..m, k - 1 \in A PROVE k \in A
    <3>1. k \in 0..m /\ k - 1 \in 0..m /\ n + k \in 1..Len(z) /\ (n + k) - 1 = n + (k - 1)
          /\ n \in 0..n
      BY <1>1
    <3>2. UpTo(z, n + k) = UpTo(z, n + (k - 1)) \o y[k] /\ y[k] \in T  BY <1>1, <1>4, <3>1
    <3>3. UpTo(z, n + (k - 1)) = UpTo(x, n) \o UpTo(y, k - 1)  BY <2>2
    <3>4. UpTo(x, n) \in T /\ UpTo(y, k - 1) \in T  BY <1>2, <1>3, <3>1
    <3>5. (UpTo(x, n) \o UpTo(y, k - 1)) \o y[k] = UpTo(x, n) \o (UpTo(y, k - 1) \o y[k])
      BY <1>5, <3>2, <3>4
    <3>6. UpTo(y, k) = UpTo(y, k - 1) \o y[k]  BY <1>3
    <3> QED  BY <3>1, <3>2, <3>3, <3>5, <3>6
  <2> HIDE DEF A
  <2>3. 0..m \subseteq A  BY <1>1, <2>1, <2>2, Induct
  <2> QED  BY <2>3 DEF A
<1>9. m \in 0..m /\ n \in 0..n  BY <1>1
<1>10. FlattenSeq(z) = FlattenSeq(x) \o FlattenSeq(y)
  BY <1>1, <1>2, <1>3, <1>4, <1>8, <1>9
<1>11. FlattenSeq(x) \in T /\ FlattenSeq(y) \in T  BY <1>2, <1>3, <1>9
<1> QED  BY <1>10, <1>11 DEF z, T

(* A list on its own.                                                      *)
LEMMA FlatOne ==
    ASSUME NEW S, NEW p \in Seq(S)
    PROVE  FlattenSeq(<<p>>) = p /\ FlattenSeq(<<>>) = <<>>
<1> DEFINE P == <<p>>
<1>1. P \in Seq(Seq(S)) /\ Len(P) = 1 /\ P[1] = p  OBVIOUS
<1> HIDE DEF P
<1>2. FlattenSeq(P) = UpTo(P, 1) /\ UpTo(P, 0) = <<>>  BY <1>1, FlatOf
<1>3. UpTo(P, 1) = UpTo(P, 0) \o P[1]
  <2>1. 1 \in 1..Len(P) /\ 1 - 1 = 0  BY <1>1
  <2> QED  BY <1>1, <2>1, FlatOf
<1>4. <<>> \o p = p  BY ConcatEmptySeq
<1>5. FlattenSeq(<<>>) = <<>>  BY DEF FlattenSeq
<1> QED  BY <1>1, <1>2, <1>3, <1>4, <1>5 DEF P

(* What Nonempty keeps of the first k segments.                            *)
Keep(bytes) ==
    CHOOSE f : f = [i \in 0..Len(bytes) |->
                       IF i = 0 THEN <<>>
                       ELSE IF bytes[i].n > 0 THEN Append(f[i - 1], bytes[i]) ELSE f[i - 1]]

(* Going through the segments one by one.                                  *)
LEMMA KeepOf ==
    ASSUME NEW X, X \subseteq Seg, NEW bytes \in Seq(X)
    PROVE  /\ \A k \in 0..Len(bytes) : Keep(bytes)[k] \in Seq(X)
           /\ \A k \in 1..Len(bytes) :
                  Keep(bytes)[k] = IF bytes[k].n > 0 THEN Append(Keep(bytes)[k - 1], bytes[k])
                                   ELSE Keep(bytes)[k - 1]
           /\ Keep(bytes)[0] = <<>> /\ Nonempty(bytes) = Keep(bytes)[Len(bytes)]
<1> DEFINE n == Len(bytes)
           T == Seq(X)
           step == [i \in 1..n |->
                       [x \in T |-> IF bytes[i].n > 0 THEN Append(x, bytes[i]) ELSE x]]
           g == Walk(n, T, <<>>, step)
           Rec(f) == [i \in 0..n |->
                         IF i = 0 THEN <<>>
                         ELSE IF bytes[i].n > 0 THEN Append(f[i - 1], bytes[i]) ELSE f[i - 1]]
           C == CHOOSE f : f = Rec(f)
<1>1. n \in Nat /\ \A i \in 1..n : bytes[i] \in X  OBVIOUS
<1>2. step \in [1..n -> [T -> T]] /\ <<>> \in T
  <2>1. \A i \in 1..n, x \in T : Append(x, bytes[i]) \in T  BY <1>1
  <2> HIDE DEF n, T
  <2>2. step \in [1..n -> [T -> T]]  BY <2>1
  <2>3. <<>> \in T  BY DEF T
  <2> QED  BY <2>2, <2>3
<1>3. g \in [0..n -> T] /\ g[0] = <<>> /\ \A i \in 1..n : g[i] = step[i][g[i - 1]]
  <2> HIDE DEF n, T, step
  <2>1. IsWalk(g, n, T, <<>>, step)  BY <1>1, <1>2, StepsExist
  <2> QED  BY <2>1 DEF IsWalk
<1> HIDE DEF g, n, T
<1>4. \A i \in 1..n : i - 1 \in 0..n /\ i \in 0..n /\ i # 0  BY <1>1
<1>5. \A i \in 1..n :
          g[i] = IF bytes[i].n > 0 THEN Append(g[i - 1], bytes[i]) ELSE g[i - 1]
  BY <1>3, <1>4
<1>6. g = Rec(g)
  <2>1. ASSUME NEW i \in 0..n PROVE g[i] = Rec(g)[i]
    <3>1. i # 0 => i \in 1..n  BY <1>1
    <3> QED  BY <1>3, <1>5, <3>1
  <2>2. g = [i \in 0..n |-> g[i]] /\ Rec(g) = [i \in 0..n |-> Rec(g)[i]]  BY <1>3
  <2> HIDE DEF Rec
  <2> QED  BY <2>1, <2>2
<1>7. C = Rec(C)
  <2> HIDE DEF Rec
  <2> QED  BY <1>6
<1>8. Keep(bytes) = C /\ Nonempty(bytes) = C[n]  BY DEF Keep, Nonempty, Once, n
<1> HIDE DEF C
<1>9. C[0] = <<>> /\ \A k \in 1..n :
          C[k] = IF bytes[k].n > 0 THEN Append(C[k - 1], bytes[k]) ELSE C[k - 1]
  <2>1. 0 \in 0..n  BY <1>1
  <2> QED  BY <1>4, <1>7, <2>1
<1>10. \A k \in 0..n : C[k] \in T
  <2> DEFINE A == {k \in 0..n : C[k] \in T}
  <2>1. 0 \in A  BY <1>1, <1>2, <1>9
  <2>2. ASSUME NEW k \in 1..n, k - 1 \in A PROVE k \in A
    <3>1. C[k - 1] \in T /\ k \in 0..n  BY <1>4, <2>2
    <3>2. Append(C[k - 1], bytes[k]) \in T
      <4>1. C[k - 1] \in Seq(X) /\ bytes[k] \in X  BY <1>1, <3>1 DEF T
      <4> QED  BY <4>1 DEF T
    <3> QED  BY <1>9, <3>1, <3>2
  <2> HIDE DEF A
  <2>3. 0..n \subseteq A  BY <1>1, <2>1, <2>2, Induct
  <2> QED  BY <2>3 DEF A
<1> QED  BY <1>8, <1>9, <1>10 DEF n, T

(* Each part keeps what it keeps alone.                                    *)
LEMMA NonemptyJoin ==
    ASSUME NEW X, X \subseteq Seg, NEW x \in Seq(X), NEW y \in Seq(X)
    PROVE  /\ Nonempty(x) \in Seq(X) /\ Nonempty(y) \in Seq(X)
           /\ Nonempty(x \o y) = Nonempty(x) \o Nonempty(y)
<1> DEFINE z == x \o y
           n == Len(x)
           m == Len(y)
           T == Seq(X)
<1>1. /\ z \in Seq(X) /\ Len(z) = n + m /\ n \in Nat /\ m \in Nat
      /\ \A i \in 1..n : z[i] = x[i] /\ x[i] \in X
      /\ \A i \in 1..m : z[n + i] = y[i] /\ y[i] \in X
  BY JoinParts
<1> DEFINE KX == Keep(x)
           KY == Keep(y)
           KZ == Keep(z)
<1>2. /\ \A k \in 0..n : KX[k] \in T
      /\ \A k \in 1..n : KX[k] = IF x[k].n > 0 THEN Append(KX[k - 1], x[k]) ELSE KX[k - 1]
      /\ KX[0] = <<>> /\ Nonempty(x) = KX[n]
  BY KeepOf
<1>3. /\ \A k \in 0..m : KY[k] \in T
      /\ \A k \in 1..m : KY[k] = IF y[k].n > 0 THEN Append(KY[k - 1], y[k]) ELSE KY[k - 1]
      /\ KY[0] = <<>> /\ Nonempty(y) = KY[m]
  BY KeepOf
<1> HIDE DEF z
<1>4. /\ \A k \in 1..Len(z) : KZ[k] = IF z[k].n > 0 THEN Append(KZ[k - 1], z[k]) ELSE KZ[k - 1]
      /\ KZ[0] = <<>> /\ Nonempty(z) = KZ[Len(z)]
  BY <1>1, KeepOf
<1>5. \A u, v \in T, w \in X : u \o Append(v, w) = Append(u \o v, w)
  <2> TAKE u \in T, v \in T, w \in X
  <2>1. u \in Seq(X) /\ v \in Seq(X)  BY DEF T
  <2> QED  BY <2>1, JoinAppend
<1>6. \A u \in T : u \o <<>> = u
  <2> TAKE u \in T
  <2> QED  BY ConcatEmptySeq DEF T
<1> HIDE DEF n, m, T, KX, KY, KZ
<1>7. \A k \in 0..n : KZ[k] = KX[k]
  <2> DEFINE A == {k \in 0..n : KZ[k] = KX[k]}
  <2>1. 0 \in A
    <3>1. 0 \in 0..n  BY <1>1
    <3> QED  BY <1>2, <1>4, <3>1
  <2>2. ASSUME NEW k \in 1..n, k - 1 \in A PROVE k \in A
    <3>1. k \in 0..n /\ k \in 1..Len(z)  BY <1>1
    <3>2. KZ[k - 1] = KX[k - 1] /\ z[k] = x[k]  BY <1>1, <2>2
    <3> QED  BY <1>2, <1>4, <3>1, <3>2
  <2> HIDE DEF A
  <2>3. 0..n \subseteq A  BY <1>1, <2>1, <2>2, Induct
  <2> QED  BY <2>3 DEF A
<1>8. \A k \in 0..m : KZ[n + k] = KX[n] \o KY[k]
  <2> DEFINE A == {k \in 0..m : KZ[n + k] = KX[n] \o KY[k]}
  <2>1. 0 \in A
    <3>1. 0 \in 0..m /\ n + 0 = n /\ n \in 0..n  BY <1>1
    <3>2. KX[n] \o <<>> = KX[n]  BY <1>2, <1>6, <3>1
    <3> QED  BY <1>3, <1>7, <3>1, <3>2
  <2>2. ASSUME NEW k \in 1..m, k - 1 \in A PROVE k \in A
    <3>1. k \in 0..m /\ k - 1 \in 0..m /\ n + k \in 1..Len(z) /\ (n + k) - 1 = n + (k - 1)
          /\ n \in 0..n
      BY <1>1
    <3>2. z[n + k] = y[k] /\ y[k] \in X /\ KX[n] \in T /\ KY[k - 1] \in T
      BY <1>1, <1>2, <1>3, <3>1
    <3>3. KZ[n + (k - 1)] = KX[n] \o KY[k - 1]  BY <2>2
    <3>4. KX[n] \o Append(KY[k - 1], y[k]) = Append(KX[n] \o KY[k - 1], y[k])  BY <1>5, <3>2
    <3>5. KZ[n + k] = IF y[k].n > 0 THEN Append(KX[n] \o KY[k - 1], y[k])
                      ELSE KX[n] \o KY[k - 1]
      BY <1>4, <3>1, <3>2, <3>3
    <3>6. KY[k] = IF y[k].n > 0 THEN Append(KY[k - 1], y[k]) ELSE KY[k - 1]  BY <1>3
    <3>7. KZ[n + k] = KX[n] \o KY[k]  BY <3>4, <3>5, <3>6
    <3> QED  BY <3>1, <3>7
  <2> HIDE DEF A
  <2>3. 0..m \subseteq A  BY <1>1, <2>1, <2>2, Induct
  <2> QED  BY <2>3 DEF A
<1>9. m \in 0..m /\ n \in 0..n  BY <1>1
<1>10. Nonempty(z) = Nonempty(x) \o Nonempty(y)
  BY <1>1, <1>2, <1>3, <1>4, <1>8, <1>9
<1>11. Nonempty(x) \in T /\ Nonempty(y) \in T  BY <1>2, <1>3, <1>9
<1> QED  BY <1>10, <1>11 DEF z, T

(* No segment, and a single one.                                           *)
LEMMA NonemptyOne ==
    /\ Nonempty(<<>>) = <<>>
    /\ \A s \in Seg : Nonempty(<<s>>) = IF s.n > 0 THEN <<s>> ELSE <<>>
<1>1. Nonempty(<<>>) = <<>>
  <2> DEFINE e == <<>>
  <2>1. e \in Seq(Seg) /\ Len(e) = 0  OBVIOUS
  <2> HIDE DEF e
  <2>2. Nonempty(e) = Keep(e)[0] /\ Keep(e)[0] = <<>>  BY <2>1, KeepOf
  <2> QED  BY <2>2 DEF e
<1>2. ASSUME NEW s \in Seg PROVE Nonempty(<<s>>) = IF s.n > 0 THEN <<s>> ELSE <<>>
  <2> DEFINE b == <<s>>
  <2>1. b \in Seq(Seg) /\ Len(b) = 1 /\ b[1] = s /\ 1 \in 1..Len(b) /\ 1 - 1 = 0  OBVIOUS
  <2> HIDE DEF b
  <2>2. Nonempty(b) = Keep(b)[1] /\ Keep(b)[0] = <<>>  BY <2>1, KeepOf
  <2>3. Keep(b)[1] = IF b[1].n > 0 THEN Append(Keep(b)[0], b[1]) ELSE Keep(b)[0]
    BY <2>1, KeepOf
  <2>4. Append(<<>>, s) = <<s>>  OBVIOUS
  <2> QED  BY <2>1, <2>2, <2>3, <2>4 DEF b
<1> QED  BY <1>1, <1>2

(* Nothing else is lost.                                                   *)
LEMMA NonemptyBytes ==
    ASSUME NEW X, X \subseteq Seg, NEW bytes \in Seq(X)
    PROVE  /\ Nonempty(bytes) \in Seq({s \in X : s.n > 0})
           /\ Length(Nonempty(bytes)) = Length(bytes)
           /\ (\A i \in 1..Len(bytes) : bytes[i].n > 0) => Nonempty(bytes) = bytes
<1> DEFINE Y == {s \in X : s.n > 0}
           K == Keep(bytes)
           n == Len(bytes)
           Z == Starts(bytes)
<1>1. n \in Nat /\ bytes \in Seq(Seg) /\ \A i \in 1..n : bytes[i] \in X /\ bytes[i] \in Seg
  OBVIOUS
<1>2. /\ \A k \in 0..n : K[k] \in Seq(X)
      /\ \A k \in 1..n : K[k] = IF bytes[k].n > 0 THEN Append(K[k - 1], bytes[k]) ELSE K[k - 1]
      /\ K[0] = <<>> /\ Nonempty(bytes) = K[n]
  BY KeepOf
<1>3. Z[1] = 0 /\ \A i \in 1..n : Z[i + 1] = Z[i] + bytes[i].n  BY <1>1, StartsOf
<1>4. Length(bytes) = Z[n + 1]  BY LengthOf
<1>5. Z \in [1..n + 1 -> Nat] /\ \A i \in 1..n : bytes[i].n \in Nat
  BY <1>1, StartsOf, SegParts
<1>6. ASSUME NEW x \in Seq(Y), NEW s \in Y
      PROVE  Append(x, s) \in Seq(Y) /\ Length(Append(x, s)) = Length(x) + s.n /\ Length(x) \in Nat
  <2>1. x \in Seq(Seg) /\ <<s>> \in Seq(Seg) /\ s \in Seg /\ Append(x, s) = x \o <<s>>
    BY AppendIsConcat
  <2>2. Length(x \o <<s>>) = Length(x) + Length(<<s>>) /\ Length(x) \in Nat
    <3> DEFINE y == <<s>>
    <3>1. y \in Seq(Seg)  BY <2>1
    <3> HIDE DEF y
    <3>2. Length(x \o y) = Length(x) + Length(y) /\ Length(x) \in Nat  BY <2>1, <3>1, LengthJoin
    <3> QED  BY <3>2 DEF y
  <2>3. Length(<<s>>) = s.n  BY <2>1, LengthOne
  <2>4. Append(x, s) \in Seq(Y)  OBVIOUS
  <2> QED  BY <2>1, <2>2, <2>3, <2>4
<1>7. <<>> \in Seq(Y) /\ Length(<<>>) = 0  BY LengthOne
<1> HIDE DEF n, K, Z
<1>8. \A k \in 0..n : K[k] \in Seq(Y) /\ Length(K[k]) = Z[k + 1]
  <2> DEFINE A == {k \in 0..n : K[k] \in Seq(Y) /\ Length(K[k]) = Z[k + 1]}
  <2>1. 0 \in A
    <3>1. 0 \in 0..n /\ 0 + 1 = 1  BY <1>1
    <3> QED  BY <1>2, <1>3, <1>7, <3>1
  <2>2. ASSUME NEW k \in 1..n, k - 1 \in A PROVE k \in A
    <3>1. k \in 0..n /\ (k - 1) + 1 = k /\ k \in 1..n + 1  BY <1>1
    <3>2. K[k - 1] \in Seq(Y) /\ Length(K[k - 1]) = Z[k] /\ Z[k] \in Nat
      BY <1>5, <2>2, <3>1
    <3>3. CASE bytes[k].n > 0
      <4>1. bytes[k] \in Y /\ K[k] = Append(K[k - 1], bytes[k])  BY <1>1, <1>2, <3>3
      <4> HIDE DEF Y
      <4>2. K[k] \in Seq(Y) /\ Length(K[k]) = Length(K[k - 1]) + bytes[k].n
        BY <1>6, <3>2, <4>1
      <4> QED  BY <1>3, <3>1, <3>2, <4>2
    <3>4. CASE ~(bytes[k].n > 0)
      <4>1. K[k] = K[k - 1] /\ bytes[k].n = 0  BY <1>2, <1>5, <3>4
      <4>2. Z[k + 1] = Z[k]  BY <1>3, <3>2, <4>1
      <4> QED  BY <3>1, <3>2, <4>1, <4>2
    <3> QED  BY <3>3, <3>4
  <2> HIDE DEF A, Y
  <2>3. 0..n \subseteq A  BY <1>1, <2>1, <2>2, Induct
  <2> QED  BY <2>3 DEF A
<1>9. ASSUME \A i \in 1..n : bytes[i].n > 0 PROVE K[n] = bytes
  <2> DEFINE A == {k \in 0..n : K[k] = SubSeq(bytes, 1, k)}
  <2>1. 0 \in A
    <3>1. SubSeq(bytes, 1, 0) = <<>> /\ 0 \in 0..n  BY <1>1
    <3> QED  BY <1>2, <3>1
  <2>2. ASSUME NEW k \in 1..n, k - 1 \in A PROVE k \in A
    <3>1. K[k] = Append(K[k - 1], bytes[k]) /\ K[k - 1] = SubSeq(bytes, 1, k - 1)
      BY <1>2, <1>9, <2>2
    <3>2. SubSeq(bytes, 1, k) = Append(SubSeq(bytes, 1, k - 1), bytes[k])  BY <1>1 DEF n
    <3>3. k \in 0..n  BY <1>1
    <3> QED  BY <3>1, <3>2, <3>3
  <2> HIDE DEF A
  <2>3. 0..n \subseteq A  BY <1>1, <2>1, <2>2, Induct
  <2>4. n \in 0..n /\ SubSeq(bytes, 1, n) = bytes  BY <1>1 DEF n
  <2> QED  BY <2>3, <2>4 DEF A
<1>10. n \in 0..n  BY <1>1
<1>11. Nonempty(bytes) \in Seq(Y) /\ Length(Nonempty(bytes)) = Length(bytes)
  BY <1>2, <1>4, <1>8, <1>10
<1> QED  BY <1>2, <1>9, <1>11 DEF n

(***************************************************************************)
(* Schemas and tables.                                                     *)
(***************************************************************************)

(* Segments no part of which is missing, with a signature or a signer in   *)
(* the place of one.                                                       *)
Entire ==
    {s \in Solid : /\ s.from = 0 /\ s.n = s.whole
                   /\ s.field \in {"signature", "signer"} => s.v # 0}

(* What stands in a schema, and in a table that is put into another.       *)
FlatAttribute == [kind : {"scalar", "array"}, size : Nat, schema : {<<>>}]

Attributes ==
    [kind : {"scalar", "array", "table", "tableArray"}, size : Nat, schema : Seq(FlatAttribute)]

FlatObject == [elements : Nat, v : Nat, content : {<<>>}, table : {<<>>}]

FlatSlot == [name : TableNames, inline : Nat, object : FlatObject]

Objects == [elements : Nat, v : Nat, content : Seq(Entire), table : Seq(FlatSlot)]

Slots == [name : SlotNames, inline : Nat, object : Objects]

(* The slot of a built table.                                              *)
SlotOf(slot, values) ==
    [name |-> slot.name,
     inline |-> CASE slot.width = 0 -> 0
                  [] slot.width = 1 -> values[slot.name] % 256
                  [] slot.width = 2 -> values[slot.name] % 65536
                  [] slot.width = 4 -> values[slot.name],
     object |-> IF slot.width = 0 THEN values[slot.name] ELSE ZeroVector(0)]

(* What an attribute makes of a slot.                                      *)
Piece(attribute, slot) ==
    IF attribute.kind \in {"table", "tableArray"} THEN serializeTables(slot, attribute)
    ELSE serializeAttribute(attribute, slot)

Pieces(schema, table) == [i \in 1..Len(schema) |-> Piece(schema[i], table[i])]

FlatPieces(schema, table) ==
    [i \in 1..Len(schema) |-> serializeAttribute(schema[i], table[i])]

Body(schema, table) == Nonempty(FlattenSeq(Pieces(schema, table)))

(* schema.serialize, without its walk along the attributes.                *)
LEMMA SerializeOf ==
    ASSUME NEW schema, NEW table
    PROVE  /\ serialize(schema, table) = Body(schema, table)
           /\ serializeFlat(schema, table) = FlattenSeq(FlatPieces(schema, table))
BY DEF serialize, serializeFlat, Body, Pieces, FlatPieces, Piece

(* Build, slot by slot.                                                    *)
LEMMA BuildOf ==
    ASSUME NEW buffer, NEW values
    PROVE  /\ Build(buffer, values) = [i \in 1..Len(buffer) |-> SlotOf(buffer[i], values)]
BY DEF Build, SlotOf

(* A list of so many things of a kind.                                     *)
LEMMA ListOf ==
    ASSUME NEW S, NEW n \in Nat, NEW f, f = [i \in 1..n |-> f[i]], \A i \in 1..n : f[i] \in S
    PROVE  f \in Seq(S) /\ Len(f) = n
<1>1. f \in [1..n -> S]  OBVIOUS
<1> QED  BY <1>1, Z3

(* What an attribute of an inner table makes of its slot.                  *)
LEMMA FlatSegments ==
    ASSUME NEW a \in FlatAttribute, NEW slot \in FlatSlot
    PROVE  serializeAttribute(a, slot) \in Seq(Leaf)
<1>1. a.size \in Nat /\ slot.inline \in Nat /\ slot.name \in TableNames /\ slot.object \in FlatObject
  BY DEF FlatAttribute, FlatSlot
<1>2. slot.object.elements \in Nat /\ slot.object.v \in Nat /\ slot.object.content = <<>>
  BY <1>1 DEF FlatObject
<1>3. ASSUME NEW n \in Nat, NEW v \in Nat PROVE <<Segment(slot.name, n, v, <<>>)>> \in Seq(Leaf)
  <2>1. Segment(slot.name, n, v, <<>>) \in Leaf  BY <1>1 DEF Segment, Leaf
  <2> QED  BY <2>1
<1>4. findParam(slot, a.size) \in Seq(Leaf)  BY <1>1, <1>3 DEF findParam
<1>5. findVector(slot, a.size) \in Seq(Leaf)
  <2>1. slot.object.elements * a.size \in Nat  BY <1>1, <1>2
  <2> QED  BY <1>2, <1>3, <2>1 DEF findVector
<1> QED  BY <1>4, <1>5 DEF serializeAttribute

(* The segments of inner tables are segments.                              *)
LEMMA LeafSeg == Leaf \subseteq Seg
<1> SUFFICES ASSUME NEW s \in Leaf PROVE s \in Seg  OBVIOUS
<1>1. <<>> \in Seq(Leaf)  OBVIOUS
<1> QED  BY <1>1 DEF Leaf, Seg, FieldNames

(* What a schema makes of an inner table.                                  *)
LEMMA FlatTable ==
    ASSUME NEW schema \in Seq(FlatAttribute), NEW table \in Seq(FlatSlot),
           Len(schema) = Len(table)
    PROVE  /\ serializeFlat(schema, table) \in Seq(Leaf)
           /\ FlatPieces(schema, table) \in Seq(Seq(Leaf))
           /\ Len(FlatPieces(schema, table)) = Len(schema)
<1> DEFINE P == FlatPieces(schema, table)
           n == Len(schema)
<1>1. n \in Nat /\ \A i \in 1..n : schema[i] \in FlatAttribute /\ table[i] \in FlatSlot
  OBVIOUS
<1>2. \A i \in 1..n : P[i] = serializeAttribute(schema[i], table[i])  BY DEF FlatPieces
<1>3. \A i \in 1..n : P[i] \in Seq(Leaf)  BY <1>1, <1>2, FlatSegments
<1>4. P = [i \in 1..n |-> P[i]]  BY DEF FlatPieces
<1> HIDE DEF P, n
<1>5. P \in Seq(Seq(Leaf)) /\ Len(P) = n  BY <1>1, <1>3, <1>4, ListOf
<1>6. FlattenSeq(P) \in Seq(Leaf)
  <2>1. FlattenSeq(P) = UpTo(P, n) /\ \A k \in 0..n : UpTo(P, k) \in Seq(Leaf)  BY <1>5, FlatOf
  <2> QED  BY <1>1, <2>1
<1> QED  BY <1>5, <1>6, SerializeOf DEF P, n

(* An attribute makes of its slot segments of the payload, those that have *)
(* bytes being whole.                                                      *)
Field == {s \in Seg : s.n > 0 => s \in Entire}

(* They are its own unless it held the bytes of other transactions.        *)
Own == {s \in Field : s.field \in SlotNames /\ s.owner = 0}

(* Fields of the transaction's own are fields.                             *)
LEMMA OwnFields ==
    ASSUME NEW x \in Seq(Own)
    PROVE  x \in Seq(Field)
<1>1. Own \subseteq Field  BY DEF Own
<1> QED  BY <1>1

(* A segment made for a slot is a field of its own.                        *)
LEMMA FieldSegment ==
    ASSUME NEW name \in SlotNames, NEW n \in Nat, NEW v \in Nat, NEW each \in Seq(Leaf)
    PROVE  <<Segment(name, n, v, each)>> \in Seq(Own)
<1> DEFINE s == Segment(name, n, v, each)
<1>1. /\ s \in Seg /\ s.n = n /\ s.from = 0 /\ s.whole = n /\ s.field = name
      /\ s.owner = 0
  BY DEF s, Segment, Seg, FieldNames
<1>2. name \notin {"signature", "signer"}  BY DEF SlotNames
<1> HIDE DEF s
<1>3. s \in Own  BY <1>1, <1>2 DEF Own, Field, Entire, Solid
<1> QED  BY <1>3 DEF s

(* What an attribute makes of a slot: fields, and fields of the            *)
(* transaction's own unless the slot holds bytes that were made before.    *)
LEMMA PieceFields ==
    ASSUME NEW a \in Attributes, NEW slot \in Slots,
           a.kind \in {"table", "tableArray"} => Len(a.schema) = Len(slot.object.table)
    PROVE  /\ Piece(a, slot) \in Seq(Field)
           /\ slot.object.content = <<>> => Piece(a, slot) \in Seq(Own)
<1>1. /\ a.size \in Nat /\ a.schema \in Seq(FlatAttribute) /\ slot.inline \in Nat
      /\ slot.name \in SlotNames /\ slot.object \in Objects
  BY DEF Attributes, Slots
<1>2. /\ slot.object.elements \in Nat /\ slot.object.v \in Nat
      /\ slot.object.content \in Seq(Entire) /\ slot.object.table \in Seq(FlatSlot)
  BY <1>1 DEF Objects
<1>3. CASE a.kind \in {"table", "tableArray"}
  <2> DEFINE each == serializeFlat(a.schema, slot.object.table)
             n == slot.object.elements * Length(each)
             v == IF a.kind = "table" THEN n ELSE slot.object.elements
  <2>1. each \in Seq(Leaf)  BY <1>1, <1>2, <1>3, FlatTable
  <2>2. each \in Seq(Seg)  BY <2>1, LeafSeg
  <2> HIDE DEF each
  <2>3. Length(each) \in Nat  BY <2>2, LengthJoin
  <2>4. n \in Nat /\ v \in Nat  BY <1>2, <2>3
  <2>5. Piece(a, slot) = <<Segment(slot.name, n, v, each)>>
    BY <1>3 DEF Piece, serializeTables, each
  <2>6. Piece(a, slot) \in Seq(Own)  BY <1>1, <2>1, <2>4, <2>5, FieldSegment
  <2> QED  BY <2>6, OwnFields
<1>4. CASE a.kind \notin {"table", "tableArray"}
  <2>1. Piece(a, slot) = IF a.kind = "scalar" THEN findParam(slot, a.size)
                         ELSE findVector(slot, a.size)
    BY <1>4 DEF Piece, serializeAttribute
  <2>2. <<>> \in Seq(Leaf)  OBVIOUS
  <2>3. findParam(slot, a.size) \in Seq(Own)
    <3>1. (IF slot.inline = 0 THEN 1 ELSE a.size) \in Nat  BY <1>1
    <3> QED  BY <1>1, <2>2, <3>1, FieldSegment DEF findParam
  <2>4. /\ findVector(slot, a.size) \in Seq(Field)
        /\ slot.object.content = <<>> => findVector(slot, a.size) \in Seq(Own)
    <3>1. slot.object.elements * a.size \in Nat  BY <1>1, <1>2
    <3>2. <<Segment(slot.name, slot.object.elements * a.size, slot.object.v, <<>>)>> \in Seq(Own)
      BY <1>1, <1>2, <2>2, <3>1, FieldSegment
    <3>3. Entire \subseteq Field  BY DEF Entire, Field, Solid
    <3>4. slot.object.content \in Seq(Field)  BY <1>2, <3>3
    <3> QED  BY <3>2, <3>4, OwnFields DEF findVector
  <2> QED  BY <2>1, <2>3, <2>4, OwnFields
<1> QED  BY <1>3, <1>4

(* A table that has what the schema expects.                               *)
Fits(schema, table) ==
    /\ schema \in Seq(Attributes) /\ table \in Seq(Slots) /\ Len(schema) = Len(table)
    /\ \A i \in 1..Len(schema) :
          schema[i].kind \in {"table", "tableArray"} =>
              Len(schema[i].schema) = Len(table[i].object.table)

(* Fields that have bytes are whole.                                       *)
LEMMA FieldSeg == Field \subseteq Seg /\ {s \in Field : s.n > 0} \subseteq Entire
BY DEF Field

(* One piece per attribute.                                                *)
LEMMA PiecesOf ==
    ASSUME NEW s, NEW t, Fits(s, t)
    PROVE  /\ Pieces(s, t) \in Seq(Seq(Field)) /\ Len(Pieces(s, t)) = Len(s) /\ Len(s) \in Nat
           /\ \A i \in 1..Len(s) : Pieces(s, t)[i] = Piece(s[i], t[i])
<1> DEFINE P == Pieces(s, t)
           n == Len(s)
<1>1. n \in Nat /\ \A i \in 1..n : s[i] \in Attributes /\ t[i] \in Slots
  BY DEF Fits
<1>2. \A i \in 1..n : P[i] = Piece(s[i], t[i])  BY DEF Pieces
<1>3. \A i \in 1..n : P[i] \in Seq(Field)
  <2> TAKE i \in 1..n
  <2>1. /\ s[i] \in Attributes /\ t[i] \in Slots
        /\ s[i].kind \in {"table", "tableArray"} =>
               Len(s[i].schema) = Len(t[i].object.table)
    BY <1>1 DEF Fits
  <2> QED  BY <1>2, <2>1, PieceFields
<1>4. P = [i \in 1..n |-> P[i]]  BY DEF Pieces
<1> HIDE DEF P, n
<1>5. P \in Seq(Seq(Field)) /\ Len(P) = n  BY <1>1, <1>3, <1>4, ListOf
<1> QED  BY <1>1, <1>2, <1>5 DEF P, n

(* A list over a set is one over a larger set.                             *)
LEMMA SeqWider ==
    ASSUME NEW S, NEW T, S \subseteq T, NEW x \in Seq(S)
    PROVE  x \in Seq(T)
OBVIOUS

(* The sum of so many lengths, none of which is a list of more than eight. *)
Part(lens, i) == IF i <= Len(lens) THEN lens[i] ELSE 0

Total(lens) ==
    Part(lens, 1) + Part(lens, 2) + Part(lens, 3) + Part(lens, 4)
        + Part(lens, 5) + Part(lens, 6) + Part(lens, 7) + Part(lens, 8)

(* Lists put together are as long as all of them.                          *)
LEMMA FlatLength ==
    ASSUME NEW P \in Seq(Seq(Seg)), NEW lens \in Seq(Nat), Len(lens) = Len(P), Len(P) <= 8,
           \A i \in 1..Len(P) : Length(P[i]) = lens[i]
    PROVE  /\ FlattenSeq(P) \in Seq(Seg)
           /\ Length(FlattenSeq(P)) = Total(lens)
<1> DEFINE n == Len(P)
           L(k) == Length(UpTo(P, k))
           F(k) == IF k <= n THEN L(k) ELSE L(n)
<1>1. n \in Nat /\ n <= 8 /\ \A i \in 1..n : lens[i] \in Nat  OBVIOUS
<1>2. /\ \A k \in 0..n : UpTo(P, k) \in Seq(Seg)
      /\ \A k \in 1..n : UpTo(P, k) = UpTo(P, k - 1) \o P[k]
      /\ UpTo(P, 0) = <<>> /\ FlattenSeq(P) = UpTo(P, n)
  BY FlatOf
<1>3. \A k \in 1..n : L(k) = L(k - 1) + lens[k] /\ L(k - 1) \in Nat
  <2> TAKE k \in 1..n
  <2>1. k - 1 \in 0..n /\ P[k] \in Seq(Seg) /\ Length(P[k]) = lens[k]  BY <1>1
  <2>2. UpTo(P, k - 1) \in Seq(Seg) /\ UpTo(P, k) = UpTo(P, k - 1) \o P[k]  BY <1>2, <2>1
  <2> QED  BY <2>1, <2>2, LengthJoin
<1>4. L(0) = 0  BY <1>2, LengthOne
<1>5. Len(lens) = n /\ L(n) \in Nat
  <2>1. UpTo(P, n) \in Seq(Seg)  BY <1>1, <1>2
  <2> QED  BY <2>1, LengthJoin
<1> HIDE DEF n, L
<1>6. ASSUME NEW k \in 1..8 PROVE F(k) = F(k - 1) + Part(lens, k) /\ F(k - 1) \in Nat /\ Part(lens, k) \in Nat
  <2>1. CASE k <= n
    <3>1. k \in 1..n /\ k - 1 <= n  BY <1>1, <2>1
    <3> QED  BY <1>1, <1>3, <1>5, <2>1, <3>1 DEF Part
  <2>2. CASE k > n
    <3>1. F(k) = L(n) /\ F(k - 1) = L(n)  BY <1>1, <2>2
    <3>2. Part(lens, k) = 0  BY <1>1, <1>5, <2>2 DEF Part
    <3> QED  BY <1>5, <3>1, <3>2
  <2> QED  BY <1>1, <2>1, <2>2
<1>7. F(0) = 0 /\ F(8) = L(n)  BY <1>1, <1>4
<1> HIDE DEF F
<1>8. /\ F(1) = F(0) + Part(lens, 1) /\ F(2) = F(1) + Part(lens, 2)
      /\ F(3) = F(2) + Part(lens, 3) /\ F(4) = F(3) + Part(lens, 4)
      /\ F(5) = F(4) + Part(lens, 5) /\ F(6) = F(5) + Part(lens, 6)
      /\ F(7) = F(6) + Part(lens, 7) /\ F(8) = F(7) + Part(lens, 8)
      /\ \A k \in 1..8 : Part(lens, k) \in Nat
  <2>1. ASSUME NEW j \in 0..7 PROVE F(j + 1) = F(j) + Part(lens, j + 1)
    <3>1. j + 1 \in 1..8 /\ (j + 1) - 1 = j  OBVIOUS
    <3>2. F(j + 1) = F((j + 1) - 1) + Part(lens, j + 1)  BY <1>6, <3>1
    <3> QED  BY <3>1, <3>2
  <2>2. /\ 0 + 1 = 1 /\ 1 + 1 = 2 /\ 2 + 1 = 3 /\ 3 + 1 = 4 /\ 4 + 1 = 5 /\ 5 + 1 = 6
        /\ 6 + 1 = 7 /\ 7 + 1 = 8
    OBVIOUS
  <2>3. /\ 0 \in 0..7 /\ 1 \in 0..7 /\ 2 \in 0..7 /\ 3 \in 0..7 /\ 4 \in 0..7 /\ 5 \in 0..7
        /\ 6 \in 0..7 /\ 7 \in 0..7
    OBVIOUS
  <2> QED  BY <1>6, <2>1, <2>2, <2>3
<1>9. L(n) = Total(lens)  BY <1>7, <1>8 DEF Total
<1>10. FlattenSeq(P) \in Seq(Seg)  BY <1>1, <1>2
<1> QED  BY <1>2, <1>9, <1>10 DEF L

(* What an attribute makes of a slot is so long.                           *)
Makes(attribute, slot, n) ==
    /\ attribute \in Attributes /\ slot \in Slots /\ slot.object.content = <<>> /\ n \in Nat
    /\ attribute.kind \in {"table", "tableArray"} =>
           Len(attribute.schema) = Len(slot.object.table)
    /\ Length(Piece(attribute, slot)) = n

IsList(f, n) == f = [i \in 1..n |-> f[i]]

(* What is behind the header of a transaction that is no aggregate.        *)
Plain == {s \in Entire : s.field \in SlotNames /\ s.owner = 0}

(* What a transaction has of its own is whole.                             *)
LEMMA PlainEntire ==
    ASSUME NEW x \in Seq(Plain)
    PROVE  x \in Seq(Entire)
<1>1. Plain \subseteq Entire  BY DEF Plain
<1> QED  BY <1>1, SeqWider

(* What a table is serialized to has no empty fields, and is as long as    *)
(* its pieces are together.                                                *)
LEMMA BodyOf ==
    ASSUME NEW s, NEW t, NEW lens, Len(lens) \in Nat, Len(lens) <= 8,
           IsList(s, Len(lens)), IsList(t, Len(lens)), IsList(lens, Len(lens)),
           \A i \in 1..Len(lens) : Makes(s[i], t[i], lens[i])
    PROVE  /\ Fits(s, t) /\ Body(s, t) \in Seq(Plain)
           /\ Length(Body(s, t)) = Total(lens)
<1> DEFINE n == Len(lens)
           P == Pieces(s, t)
           b == FlattenSeq(P)
<1>1. n \in Nat /\ n <= 8 /\ \A i \in 1..n : Makes(s[i], t[i], lens[i])  OBVIOUS
<1>2. s = [i \in 1..n |-> s[i]] /\ t = [i \in 1..n |-> t[i]] /\ lens = [i \in 1..n |-> lens[i]]
  BY DEF IsList
<1>d. n = Len(lens)  OBVIOUS
<1> HIDE DEF n
<1>3. \A i \in 1..n : s[i] \in Attributes /\ t[i] \in Slots /\ lens[i] \in Nat
                     /\ Length(Piece(s[i], t[i])) = lens[i]
  BY <1>1 DEF Makes
<1>4. s \in Seq(Attributes) /\ Len(s) = n  BY <1>1, <1>2, <1>3, ListOf
<1>5. t \in Seq(Slots) /\ Len(t) = n  BY <1>1, <1>2, <1>3, ListOf
<1>6. lens \in Seq(Nat)  BY <1>1, <1>2, <1>3, ListOf
<1>7. Fits(s, t)  BY <1>1, <1>4, <1>5 DEF Fits, Makes
<1>8. Len(P) = n /\ \A i \in 1..n : P[i] = Piece(s[i], t[i])
  BY <1>4, <1>7, PiecesOf
<1>9. IsList(P, n)  BY <1>4 DEF Pieces, IsList
<1> HIDE DEF P, b
<1>10. \A i \in 1..n : P[i] \in Seq(Own)
  <2> TAKE i \in 1..n
  <2>1. /\ s[i] \in Attributes /\ t[i] \in Slots /\ t[i].object.content = <<>>
        /\ s[i].kind \in {"table", "tableArray"} => Len(s[i].schema) = Len(t[i].object.table)
    BY <1>1 DEF Makes
  <2> QED  BY <1>8, <2>1, PieceFields
<1>11. P \in Seq(Seq(Own))  BY <1>1, <1>9, <1>10, ListOf DEF IsList
<1>12. b \in Seq(Own)
  <2>1. b = UpTo(P, n) /\ \A k \in 0..n : UpTo(P, k) \in Seq(Own)  BY <1>8, <1>11, FlatOf DEF b
  <2> QED  BY <1>1, <2>1
<1>13. Own \subseteq Seg  BY DEF Own, Field
<1>14. Length(b) = Total(lens)
  <2>1. Seq(Own) \subseteq Seq(Seg)  BY <1>13, SeqWider
  <2>2. P \in Seq(Seq(Seg))  BY <1>11, <2>1, SeqWider
  <2>3. \A i \in 1..Len(P) : Length(P[i]) = lens[i]  BY <1>3, <1>8
  <2> QED  BY <1>1, <1>6, <1>8, <1>d, <2>2, <2>3, FlatLength DEF b
<1>15. Nonempty(b) \in Seq({x \in Own : x.n > 0}) /\ Length(Nonempty(b)) = Length(b)
  BY <1>12, <1>13, NonemptyBytes
<1>16. Nonempty(b) \in Seq(Plain)
  <2>1. {x \in Own : x.n > 0} \subseteq Plain  BY DEF Own, Field, Plain
  <2> QED  BY <1>15, <2>1, SeqWider
<1> QED  BY <1>7, <1>14, <1>15, <1>16 DEF Body, P, b

(***************************************************************************)
(* What each kind of slot is serialized to.                                *)
(***************************************************************************)
ByteSlot(name, x) == [name |-> name, inline |-> x % 256, object |-> ZeroVector(0)]
ShortSlot(name, x) == [name |-> name, inline |-> x % 65536, object |-> ZeroVector(0)]
IntSlot(name, x) == [name |-> name, inline |-> x, object |-> ZeroVector(0)]
ObjectSlot(name, object) == [name |-> name, inline |-> 0, object |-> object]

(* Slots of each kind are slots.                                           *)
LEMMA SlotKinds ==
    ASSUME NEW name, NEW values
    PROVE  /\ SlotOf(Byte(name), values) = ByteSlot(name, values[name])
           /\ SlotOf(Uint16(name), values) = ShortSlot(name, values[name])
           /\ SlotOf(Uint32(name), values) = IntSlot(name, values[name])
           /\ SlotOf(UOffsetT(name), values) = ObjectSlot(name, values[name])
BY DEF SlotOf, Byte, Uint16, Uint32, UOffsetT, ByteSlot, ShortSlot, IntSlot, ObjectSlot

(* The place of an inline slot.                                            *)
LEMMA EmptyObject ==
    /\ ZeroVector(0) \in Objects /\ ZeroVector(0) \in FlatObject
    /\ \A n \in Nat : ByteVector(n) \in Objects /\ ByteVector(n) \in FlatObject
    /\ \A n \in Nat : ZeroVector(n) \in Objects
    /\ Uint32Vector \in Objects /\ Uint32Vector \in FlatObject
    /\ \A n \in Nat : ShortVector(n) \in FlatObject
<1>1. \A n \in Nat, v \in Nat : Object(n, v, <<>>, <<>>) \in Objects
                               /\ Object(n, v, <<>>, <<>>) \in FlatObject
  <2>1. <<>> \in Seq(Entire) /\ <<>> \in Seq(FlatSlot)  OBVIOUS
  <2> QED  BY <2>1 DEF Object, Objects, FlatObject
<1>2. \A n \in Nat : n % 65536 \in Nat  OBVIOUS
<1> QED  BY <1>1, <1>2 DEF ZeroVector, ByteVector, Uint32Vector, ShortVector

(* A segment, alone.                                                       *)
LEMMA SegmentLength ==
    ASSUME NEW name \in FieldNames, NEW n \in Nat, NEW v \in Nat, NEW each \in Seq(Leaf)
    PROVE  /\ Segment(name, n, v, each) \in Seg
           /\ Length(<<Segment(name, n, v, each)>>) = n
<1>1. Segment(name, n, v, each) \in Seg /\ Segment(name, n, v, each).n = n
  BY DEF Segment, Seg
<1> QED  BY <1>1, LengthOne

(* The same for a segment without parts.                                   *)
LEMMA PlainLength ==
    ASSUME NEW name \in FieldNames, NEW n \in Nat, NEW v \in Nat
    PROVE  Length(<<Segment(name, n, v, <<>>)>>) = n
<1> DEFINE e == <<>>
<1>1. e \in Seq(Leaf)  OBVIOUS
<1> HIDE DEF e
<1>2. Length(<<Segment(name, n, v, e)>>) = n  BY <1>1, SegmentLength
<1> QED  BY <1>2 DEF e

(* Attributes of each kind are attributes.                                 *)
LEMMA FlatAttributes ==
    ASSUME NEW size \in Nat
    PROVE  /\ scalarAttribute(size) \in FlatAttribute /\ arrayAttribute(size) \in FlatAttribute
           /\ scalarAttribute(size) \in Attributes /\ arrayAttribute(size) \in Attributes
<1>1. <<>> \in Seq(FlatAttribute)  OBVIOUS
<1> QED  BY <1>1 DEF scalarAttribute, arrayAttribute, Attribute, FlatAttribute, Attributes

(* Numbers.                                                                *)
LEMMA ScalarLength ==
    ASSUME NEW name \in FieldNames, NEW x \in Nat
    PROVE  /\ Length(serializeAttribute(scalarAttribute(ByteSize), ByteSlot(name, x))) = 1
           /\ Length(serializeAttribute(scalarAttribute(ShortSize), ShortSlot(name, x)))
                  = Payload!ShortSize(x)
           /\ Length(serializeAttribute(scalarAttribute(IntSize), IntSlot(name, x)))
                  = Payload!IntSize(x)
<1> DEFINE a(k) == scalarAttribute(k)
<1>1. \A k, slot : serializeAttribute(a(k), slot) = findParam(slot, k)
  BY DEF serializeAttribute, scalarAttribute, Attribute
<1>2. /\ ByteSlot(name, x).inline = x % 256 /\ ByteSlot(name, x).name = name
      /\ ShortSlot(name, x).inline = x % 65536 /\ ShortSlot(name, x).name = name
      /\ IntSlot(name, x).inline = x /\ IntSlot(name, x).name = name
  BY DEF ByteSlot, ShortSlot, IntSlot
<1>3. \A n \in Nat, v \in Nat : Length(<<Segment(name, n, v, <<>>)>>) = n
  BY PlainLength
<1>4. x % 256 \in Nat /\ x % 65536 \in Nat  OBVIOUS
<1>5. /\ Length(findParam(ByteSlot(name, x), 1)) = 1
      /\ Length(findParam(ShortSlot(name, x), 2)) = IF x % 65536 = 0 THEN 1 ELSE 2
      /\ Length(findParam(IntSlot(name, x), 4)) = IF x = 0 THEN 1 ELSE 4
  <2>1. ASSUME NEW slot, NEW size \in Nat, slot.name = name, slot.inline \in Nat
        PROVE  Length(findParam(slot, size)) = IF slot.inline = 0 THEN 1 ELSE size
    <3> DEFINE k == IF slot.inline = 0 THEN 1 ELSE size
               v == slot.inline
    <3>1. k \in Nat /\ v \in Nat  BY <2>1
    <3>2. findParam(slot, size) = <<Segment(name, k, v, <<>>)>>  BY <2>1 DEF findParam
    <3> HIDE DEF k, v
    <3>3. Length(<<Segment(name, k, v, <<>>)>>) = k  BY <1>3, <3>1
    <3> QED  BY <3>2, <3>3 DEF k
  <2>2. /\ Length(findParam(ByteSlot(name, x), 1)) = IF x % 256 = 0 THEN 1 ELSE 1
        /\ Length(findParam(ShortSlot(name, x), 2)) = IF x % 65536 = 0 THEN 1 ELSE 2
        /\ Length(findParam(IntSlot(name, x), 4)) = IF x = 0 THEN 1 ELSE 4
    BY <1>2, <1>4, <2>1
  <2> QED  BY <2>2
<1> QED
  BY <1>1, <1>5 DEF ByteSize, ShortSize, IntSize, Payload!ShortSize, Payload!IntSize, Payload!ShortLimit

(* Vectors.                                                                *)
LEMMA VectorLength ==
    ASSUME NEW name \in FieldNames, NEW n \in Nat
    PROVE  /\ Length(serializeAttribute(arrayAttribute(ByteSize), ObjectSlot(name, ByteVector(n)))) = n
           /\ Length(serializeAttribute(arrayAttribute(ByteSize), ObjectSlot(name, ShortVector(n)))) = 2
           /\ Length(serializeAttribute(arrayAttribute(IntSize), ObjectSlot(name, Uint32Vector))) = 8
<1>1. ASSUME NEW size \in Nat, NEW k \in Nat, NEW v \in Nat
      PROVE  Length(serializeAttribute(arrayAttribute(size), ObjectSlot(name, Object(k, v, <<>>, <<>>))))
                 = k * size
  <2> DEFINE slot == ObjectSlot(name, Object(k, v, <<>>, <<>>))
  <2>1. serializeAttribute(arrayAttribute(size), slot) = findVector(slot, size)
    BY DEF serializeAttribute, arrayAttribute, Attribute
  <2>2. slot.object.content = <<>> /\ slot.object.elements = k /\ slot.object.v = v /\ slot.name = name
    BY DEF ObjectSlot, Object
  <2>3. k * size \in Nat /\ <<>> \in Seq(Leaf)  OBVIOUS
  <2> HIDE DEF slot
  <2>4. findVector(slot, size) = <<Segment(name, k * size, v, <<>>)>>
    BY <2>2 DEF findVector
  <2> DEFINE m == k * size
  <2>5. m \in Nat /\ findVector(slot, size) = <<Segment(name, m, v, <<>>)>>  BY <2>3, <2>4
  <2> HIDE DEF m
  <2>6. Length(<<Segment(name, m, v, <<>>)>>) = m
    <3>1. m \in Nat  BY <2>5
    <3> QED  BY <3>1, PlainLength
  <2>7. Length(serializeAttribute(arrayAttribute(size), slot)) = m  BY <2>1, <2>5, <2>6
  <2> QED  BY <2>7 DEF slot, m
<1>2. n % 65536 \in Nat /\ n * 1 = n /\ 2 * 1 = 2 /\ 2 * 4 = 8  OBVIOUS
<1>3. /\ ByteVector(n) = Object(n, n, <<>>, <<>>) /\ Uint32Vector = Object(2, 1, <<>>, <<>>)
      /\ ShortVector(n) = Object(2, n % 65536, <<>>, <<>>)
  BY DEF ByteVector, Uint32Vector, ShortVector
<1>4. ByteSize = 1 /\ IntSize = 4  BY DEF ByteSize, IntSize
<1>5. Length(serializeAttribute(arrayAttribute(1), ObjectSlot(name, Object(n, n, <<>>, <<>>)))) = n * 1
  <2>1. 1 \in Nat /\ n \in Nat  OBVIOUS
  <2> QED  BY <1>1, <2>1
<1>6. Length(serializeAttribute(arrayAttribute(1), ObjectSlot(name, Object(2, n % 65536, <<>>, <<>>)))) = 2 * 1
  <2>1. 1 \in Nat /\ 2 \in Nat /\ n % 65536 \in Nat  OBVIOUS
  <2> QED  BY <1>1, <2>1
<1>7. Length(serializeAttribute(arrayAttribute(4), ObjectSlot(name, Object(2, 1, <<>>, <<>>)))) = 2 * 4
  <2>1. 1 \in Nat /\ 2 \in Nat /\ 4 \in Nat  OBVIOUS
  <2> QED  BY <1>1, <2>1
<1> QED  BY <1>2, <1>3, <1>4, <1>5, <1>6, <1>7

(* The slots behind the header.                                            *)
LEMMA ScalarMakes ==
    ASSUME NEW name \in SlotNames, NEW x \in Nat
    PROVE  /\ Makes(scalarAttribute(ByteSize), ByteSlot(name, x), 1)
           /\ Makes(scalarAttribute(ShortSize), ShortSlot(name, x), Payload!ShortSize(x))
           /\ Makes(scalarAttribute(IntSize), IntSlot(name, x), Payload!IntSize(x))
<1>1. name \in FieldNames  BY DEF FieldNames
<1>2. /\ ByteSlot(name, x) \in Slots /\ ShortSlot(name, x) \in Slots /\ IntSlot(name, x) \in Slots
  <2>1. x % 256 \in Nat /\ x % 65536 \in Nat  OBVIOUS
  <2> QED  BY <2>1, EmptyObject DEF ByteSlot, ShortSlot, IntSlot, Slots
<1>3. /\ \A k : scalarAttribute(k).kind = "scalar"
      /\ \A k \in Nat : scalarAttribute(k) \in Attributes
  BY FlatAttributes DEF scalarAttribute, Attribute
<1>4. ByteSize \in Nat /\ ShortSize \in Nat /\ IntSize \in Nat
      /\ Payload!ShortSize(x) \in Nat /\ Payload!IntSize(x) \in Nat
  BY DEF ByteSize, ShortSize, IntSize, Payload!ShortSize, Payload!IntSize
<1>5. \A k, slot : Piece(scalarAttribute(k), slot) = serializeAttribute(scalarAttribute(k), slot)
  BY <1>3 DEF Piece
<1>6. /\ ByteSlot(name, x).object.content = <<>> /\ ShortSlot(name, x).object.content = <<>>
      /\ IntSlot(name, x).object.content = <<>>
  BY DEF ByteSlot, ShortSlot, IntSlot, ZeroVector, Object
<1> QED  BY <1>1, <1>2, <1>3, <1>4, <1>5, <1>6, ScalarLength DEF Makes

(* A vector of bytes is serialized to as many.                             *)
LEMMA VectorMakes ==
    ASSUME NEW name \in SlotNames, NEW n \in Nat
    PROVE  /\ Makes(arrayAttribute(ByteSize), ObjectSlot(name, ByteVector(n)), n)
           /\ Makes(arrayAttribute(IntSize), ObjectSlot(name, Uint32Vector), 8)
<1>1. name \in FieldNames  BY DEF FieldNames
<1>2. ObjectSlot(name, ByteVector(n)) \in Slots /\ ObjectSlot(name, Uint32Vector) \in Slots
  BY EmptyObject DEF ObjectSlot, Slots
<1>3. /\ \A k : arrayAttribute(k).kind = "array"
      /\ \A k \in Nat : arrayAttribute(k) \in Attributes
  BY FlatAttributes DEF arrayAttribute, Attribute
<1>4. ByteSize \in Nat /\ IntSize \in Nat  BY DEF ByteSize, IntSize
<1>5. \A k, slot : Piece(arrayAttribute(k), slot) = serializeAttribute(arrayAttribute(k), slot)
  BY <1>3 DEF Piece
<1>6. /\ ObjectSlot(name, ByteVector(n)).object.content = <<>>
      /\ ObjectSlot(name, Uint32Vector).object.content = <<>>
  BY DEF ObjectSlot, ByteVector, Uint32Vector, Object
<1> QED  BY <1>1, <1>2, <1>3, <1>4, <1>5, <1>6, VectorLength DEF Makes

(* A vector of n equal tables is n times as long as one of them.           *)
LEMMA TableMakes ==
    ASSUME NEW name \in SlotNames, NEW n \in Nat, NEW schema \in Seq(FlatAttribute),
           NEW table \in Seq(FlatSlot), Len(schema) = Len(table)
    PROVE  /\ Length(serializeFlat(schema, table)) \in Nat
           /\ Makes(tableArrayAttribute(schema), ObjectSlot(name, UOffsetVector(n, table)),
                    n * Length(serializeFlat(schema, table)))
           /\ Makes(tableAttribute(schema), ObjectSlot(name, Table(table)),
                    Length(serializeFlat(schema, table)))
<1> DEFINE each == serializeFlat(schema, table)
           k == Length(each)
<1>1. each \in Seq(Leaf)  BY FlatTable
<1>2. each \in Seq(Seg)  BY <1>1, LeafSeg, SeqWider
<1>3. k \in Nat  BY <1>2, LengthJoin
<1>4. name \in FieldNames  BY DEF FieldNames
<1> HIDE DEF each, k
<1>5. ASSUME NEW m \in Nat, NEW v \in Nat, NEW a \in {tableArrayAttribute(schema), tableAttribute(schema)}
      PROVE  Makes(a, ObjectSlot(name, Object(m, v, <<>>, table)), m * k)
  <2> DEFINE slot == ObjectSlot(name, Object(m, v, <<>>, table))
             w == IF a.kind = "table" THEN m * k ELSE m
             nk == m * k
  <2>1. a \in Attributes /\ a.kind \in {"table", "tableArray"} /\ a.schema = schema
    BY DEF tableArrayAttribute, tableAttribute, Attribute, Attributes
  <2>2. slot \in Slots
    <3>1. <<>> \in Seq(Entire)  OBVIOUS
    <3>2. Object(m, v, <<>>, table) \in Objects  BY <3>1 DEF Object, Objects
    <3> QED  BY <3>2 DEF ObjectSlot, Slots
  <2>3. /\ slot.object.table = table /\ slot.object.elements = m /\ slot.name = name
        /\ slot.object.content = <<>>
    BY DEF ObjectSlot, Object
  <2>4. nk \in Nat /\ w \in Nat  BY <1>3
  <2> HIDE DEF slot
  <2>5. Piece(a, slot) = <<Segment(name, nk, w, each)>>
    BY <2>1, <2>3 DEF Piece, serializeTables, each, k
  <2> HIDE DEF w, nk
  <2>6. Length(Piece(a, slot)) = nk  BY <1>1, <1>4, <2>4, <2>5, SegmentLength
  <2>7. Makes(a, slot, nk)  BY <2>1, <2>2, <2>3, <2>4, <2>6 DEF Makes
  <2> QED  BY <2>7 DEF slot, nk
<1>6. Makes(tableArrayAttribute(schema), ObjectSlot(name, Object(n, n, <<>>, table)), n * k)
  BY <1>5
<1>7. Makes(tableAttribute(schema), ObjectSlot(name, Object(1, 1, <<>>, table)), k)
  <2>1. 1 \in Nat /\ 1 * k = k  BY <1>3
  <2>2. Makes(tableAttribute(schema), ObjectSlot(name, Object(1, 1, <<>>, table)), 1 * k)
    BY <1>5, <2>1
  <2> QED  BY <2>1, <2>2
<1> QED  BY <1>3, <1>6, <1>7 DEF k, each, UOffsetVector, Table

FlatMakes(attribute, slot, n) ==
    /\ attribute \in FlatAttribute /\ slot \in FlatSlot /\ n \in Nat
    /\ Length(serializeAttribute(attribute, slot)) = n

(* Slots of inner tables are slots.                                        *)
LEMMA FlatSlots ==
    ASSUME NEW name \in TableNames, NEW x \in Nat
    PROVE  /\ FlatMakes(scalarAttribute(ByteSize), ByteSlot(name, x), 1)
           /\ FlatMakes(scalarAttribute(IntSize), IntSlot(name, x), Payload!IntSize(x))
           /\ FlatMakes(arrayAttribute(ByteSize), ObjectSlot(name, ByteVector(x)), x)
           /\ FlatMakes(arrayAttribute(ByteSize), ObjectSlot(name, ShortVector(x)), 2)
           /\ FlatMakes(arrayAttribute(IntSize), ObjectSlot(name, Uint32Vector), 8)
<1>1. name \in FieldNames  BY DEF FieldNames
<1>2. /\ ByteSlot(name, x) \in FlatSlot /\ IntSlot(name, x) \in FlatSlot
      /\ ObjectSlot(name, ByteVector(x)) \in FlatSlot
      /\ ObjectSlot(name, ShortVector(x)) \in FlatSlot
      /\ ObjectSlot(name, Uint32Vector) \in FlatSlot
  <2>1. x % 256 \in Nat  OBVIOUS
  <2> QED  BY <2>1, EmptyObject DEF ByteSlot, IntSlot, ObjectSlot, FlatSlot
<1>3. /\ scalarAttribute(ByteSize) \in FlatAttribute /\ scalarAttribute(IntSize) \in FlatAttribute
      /\ arrayAttribute(ByteSize) \in FlatAttribute /\ arrayAttribute(IntSize) \in FlatAttribute
      /\ Payload!IntSize(x) \in Nat
  BY FlatAttributes DEF ByteSize, IntSize, Payload!IntSize
<1> QED  BY <1>1, <1>2, <1>3, ScalarLength, VectorLength DEF FlatMakes

(* The length of an inner table is the sum over its attributes.            *)
LEMMA FlatBodyOf ==
    ASSUME NEW s, NEW t, NEW lens, Len(lens) \in Nat, Len(lens) <= 8,
           IsList(s, Len(lens)), IsList(t, Len(lens)), IsList(lens, Len(lens)),
           \A i \in 1..Len(lens) : FlatMakes(s[i], t[i], lens[i])
    PROVE  /\ s \in Seq(FlatAttribute) /\ t \in Seq(FlatSlot) /\ Len(s) = Len(t)
           /\ Length(serializeFlat(s, t)) = Total(lens)
<1> DEFINE n == Len(lens)
           P == FlatPieces(s, t)
<1>1. n \in Nat /\ n <= 8 /\ \A i \in 1..n : FlatMakes(s[i], t[i], lens[i])  OBVIOUS
<1>2. s = [i \in 1..n |-> s[i]] /\ t = [i \in 1..n |-> t[i]] /\ lens = [i \in 1..n |-> lens[i]]
  BY DEF IsList
<1>d. n = Len(lens)  OBVIOUS
<1> HIDE DEF n
<1>3. \A i \in 1..n : s[i] \in FlatAttribute /\ t[i] \in FlatSlot /\ lens[i] \in Nat
                     /\ Length(serializeAttribute(s[i], t[i])) = lens[i]
  BY <1>1 DEF FlatMakes
<1>4. s \in Seq(FlatAttribute) /\ Len(s) = n  BY <1>1, <1>2, <1>3, ListOf
<1>5. t \in Seq(FlatSlot) /\ Len(t) = n  BY <1>1, <1>2, <1>3, ListOf
<1>6. lens \in Seq(Nat)  BY <1>1, <1>2, <1>3, ListOf
<1>7. P \in Seq(Seq(Leaf)) /\ Len(P) = n /\ \A i \in 1..n : P[i] = serializeAttribute(s[i], t[i])
  BY <1>4, <1>5, FlatTable DEF FlatPieces
<1> HIDE DEF P
<1>8. Length(FlattenSeq(P)) = Total(lens)
  <2>1. Seq(Leaf) \subseteq Seq(Seg)  BY LeafSeg, SeqWider
  <2>2. P \in Seq(Seq(Seg))  BY <1>7, <2>1, SeqWider
  <2>3. \A i \in 1..Len(P) : Length(P[i]) = lens[i]  BY <1>3, <1>7
  <2> QED  BY <1>1, <1>6, <1>7, <1>d, <2>2, <2>3, FlatLength
<1> QED  BY <1>4, <1>5, <1>8, SerializeOf DEF P

(***************************************************************************)
(* The tables that are put into a transaction.                             *)
(***************************************************************************)
Fitting(schema, table, n) ==
    /\ schema \in Seq(FlatAttribute) /\ table \in Seq(FlatSlot) /\ Len(schema) = Len(table)
    /\ Length(serializeFlat(schema, table)) = n

(* A byte and a vector of bytes.                                           *)
LEMMA TypedValue ==
    ASSUME NEW type \in TableNames, NEW value \in TableNames, NEW values, NEW k \in Nat,
           values[type] = 1, values[value] = ByteVector(k)
    PROVE  Fitting(typedValueSchema, Build(<<Byte(type), UOffsetT(value)>>, values), 1 + k)
<1> DEFINE b == <<Byte(type), UOffsetT(value)>>
           s == typedValueSchema
           t == Build(b, values)
           lens == <<1, k>>
<1>1. t = [i \in 1..2 |-> SlotOf(b[i], values)]  BY BuildOf
<1>2. t[1] = ByteSlot(type, 1) /\ t[2] = ObjectSlot(value, ByteVector(k))
  <2>1. t[1] = SlotOf(Byte(type), values) /\ t[2] = SlotOf(UOffsetT(value), values)
    BY <1>1
  <2> QED  BY <2>1, SlotKinds
<1>3. s[1] = scalarAttribute(ByteSize) /\ s[2] = arrayAttribute(ByteSize)
  BY DEF typedValueSchema
<1>4. FlatMakes(s[1], t[1], 1) /\ FlatMakes(s[2], t[2], k)
  BY <1>2, <1>3, FlatSlots
<1>5. /\ Len(lens) = 2 /\ lens[1] = 1 /\ lens[2] = k /\ IsList(lens, 2) /\ IsList(s, 2)
  BY DEF typedValueSchema, IsList
<1>6. IsList(t, 2)  BY <1>1 DEF IsList
<1> HIDE DEF s, t, lens
<1>7. \A i \in 1..2 : FlatMakes(s[i], t[i], lens[i])
  <2>1. \A i \in 1..2 : i = 1 \/ i = 2  OBVIOUS
  <2> QED  BY <1>4, <1>5, <2>1
<1>8. Total(lens) = 1 + k  BY <1>5 DEF Total, Part
<1>9. /\ s \in Seq(FlatAttribute) /\ t \in Seq(FlatSlot) /\ Len(s) = Len(t)
      /\ Length(serializeFlat(s, t)) = Total(lens)
  <2>1. /\ Len(lens) \in Nat /\ Len(lens) <= 8 /\ IsList(s, Len(lens))
        /\ IsList(t, Len(lens)) /\ IsList(lens, Len(lens))
        /\ \A i \in 1..Len(lens) : FlatMakes(s[i], t[i], lens[i])
    BY <1>5, <1>6, <1>7
  <2> QED  BY <2>1, FlatBodyOf
<1> QED  BY <1>8, <1>9 DEF Fitting, s, t

(* The tables of a byte and a vector.                                      *)
LEMMA TypedTables ==
    ASSUME NEW k \in Nat
    PROVE  /\ Fitting(typedValueSchema,
                      Build(PropertyModificationBuffer,
                            [modificationType |-> 1, value |-> ByteVector(k)]), 1 + k)
           /\ Fitting(typedValueSchema,
                      Build(CosignatoryModificationBuffer,
                            [type |-> 1, cosignatoryPublicKey |-> ByteVector(k)]), 1 + k)
           /\ Fitting(typedValueSchema,
                      Build(MessageBuffer, [type |-> 1, payload |-> ByteVector(k)]), 1 + k)
<1> DEFINE property == [modificationType |-> 1, value |-> ByteVector(k)]
           member == [type |-> 1, cosignatoryPublicKey |-> ByteVector(k)]
           message == [type |-> 1, payload |-> ByteVector(k)]
<1>1. /\ property["modificationType"] = 1 /\ property["value"] = ByteVector(k)
      /\ member["type"] = 1 /\ member["cosignatoryPublicKey"] = ByteVector(k)
      /\ message["type"] = 1 /\ message["payload"] = ByteVector(k)
  OBVIOUS
<1>2. /\ "modificationType" \in TableNames /\ "value" \in TableNames /\ "type" \in TableNames
      /\ "cosignatoryPublicKey" \in TableNames /\ "payload" \in TableNames
  BY DEF TableNames
<1> HIDE DEF property, member, message
<1>3. Fitting(typedValueSchema, Build(PropertyModificationBuffer, property), 1 + k)
  BY <1>1, <1>2, TypedValue DEF PropertyModificationBuffer
<1>4. Fitting(typedValueSchema, Build(CosignatoryModificationBuffer, member), 1 + k)
  BY <1>1, <1>2, TypedValue DEF CosignatoryModificationBuffer
<1>5. Fitting(typedValueSchema, Build(MessageBuffer, message), 1 + k)
  BY <1>1, <1>2, TypedValue DEF MessageBuffer
<1> QED  BY <1>3, <1>4, <1>5 DEF property, member, message

(* A mosaic's property: its id and a number of 64 bits.                    *)
LEMMA PropertyTable ==
    Fitting(<<scalarAttribute(ByteSize), arrayAttribute(IntSize)>>,
            Build(MosaicPropertyBuffer, [mosaicPropertyId |-> 1, value |-> Uint32Vector]), 9)
<1> DEFINE b == MosaicPropertyBuffer
           values == [mosaicPropertyId |-> 1, value |-> Uint32Vector]
           s == <<scalarAttribute(ByteSize), arrayAttribute(IntSize)>>
           t == Build(b, values)
           lens == <<1, 8>>
<1>1. t = [i \in 1..2 |-> SlotOf(b[i], values)]  BY BuildOf DEF MosaicPropertyBuffer
<1>2. values["mosaicPropertyId"] = 1 /\ values["value"] = Uint32Vector  OBVIOUS
<1>3. "mosaicPropertyId" \in TableNames /\ "value" \in TableNames  BY DEF TableNames
<1> HIDE DEF values
<1>4. t[1] = ByteSlot("mosaicPropertyId", 1) /\ t[2] = ObjectSlot("value", Uint32Vector)
  <2>1. /\ t[1] = SlotOf(Byte("mosaicPropertyId"), values)
        /\ t[2] = SlotOf(UOffsetT("value"), values)
    BY <1>1 DEF MosaicPropertyBuffer
  <2> QED  BY <1>2, <2>1, SlotKinds
<1>5. IsList(s, 2) /\ IsList(lens, 2) /\ Len(lens) = 2  BY DEF IsList
<1>6. IsList(t, 2)  BY <1>1 DEF IsList
<1> HIDE DEF t
<1>7. FlatMakes(s[1], t[1], lens[1]) /\ FlatMakes(s[2], t[2], lens[2])
  BY <1>3, <1>4, FlatSlots
<1>8. Total(lens) = 9  BY <1>5 DEF Total, Part
<1> HIDE DEF s, lens
<1>9. \A i \in 1..Len(lens) : FlatMakes(s[i], t[i], lens[i])
  <2>1. \A i \in 1..2 : i = 1 \/ i = 2  OBVIOUS
  <2> QED  BY <1>5, <1>7, <2>1
<1>10. /\ s \in Seq(FlatAttribute) /\ t \in Seq(FlatSlot) /\ Len(s) = Len(t)
       /\ Length(serializeFlat(s, t)) = Total(lens)
  <2>1. /\ Len(lens) \in Nat /\ Len(lens) <= 8 /\ IsList(s, Len(lens))
        /\ IsList(t, Len(lens)) /\ IsList(lens, Len(lens))
    BY <1>5, <1>6
  <2> QED  BY <1>9, <2>1, FlatBodyOf
<1> QED  BY <1>8, <1>10 DEF Fitting, s, t, values

(***************************************************************************)
(* The header.                                                             *)
(***************************************************************************)
HeaderTable(size) == Build(TransactionBuffer, Header(size))

(* What the schema makes of it.                                            *)
HeaderPieces(size) ==
    <<SizeField(size), SignatureField(0), SignerField(0),
      <<Written("version", VersionSize, 1)>>, <<Written("type", TypeSize, 1)>>,
      <<Written("maxFee", MaxFeeSize, 1)>>, <<Written("deadline", DeadLineSize, 1)>>>>

(* The builder fills the seven slots of the header.                        *)
LEMMA HeaderSlots ==
    ASSUME NEW size
    PROVE  HeaderTable(size) =
               <<IntSlot("size", size), ObjectSlot("signature", ZeroVector(SignatureSize)),
                 ObjectSlot("signer", ZeroVector(SignerSize)), IntSlot("version", 1),
                 ShortSlot("type", 1), ObjectSlot("maxFee", Uint32Vector),
                 ObjectSlot("deadline", Uint32Vector)>>
<1> DEFINE b == TransactionBuffer
           h == Header(size)
           t == HeaderTable(size)
<1>1. t = [i \in 1..7 |-> SlotOf(b[i], h)]  BY BuildOf DEF HeaderTable, TransactionBuffer
<1>2. /\ h["size"] = size /\ h["signature"] = ZeroVector(SignatureSize)
      /\ h["signer"] = ZeroVector(SignerSize) /\ h["version"] = 1 /\ h["type"] = 1
      /\ h["maxFee"] = Uint32Vector /\ h["deadline"] = Uint32Vector
  BY DEF Header
<1> HIDE DEF h
<1>3. /\ t[1] = SlotOf(Uint32("size"), h) /\ t[2] = SlotOf(UOffsetT("signature"), h)
      /\ t[3] = SlotOf(UOffsetT("signer"), h) /\ t[4] = SlotOf(Uint32("version"), h)
      /\ t[5] = SlotOf(Uint16("type"), h) /\ t[6] = SlotOf(UOffsetT("maxFee"), h)
      /\ t[7] = SlotOf(UOffsetT("deadline"), h)
  BY <1>1 DEF TransactionBuffer
<1>4. /\ t[1] = IntSlot("size", size) /\ t[2] = ObjectSlot("signature", ZeroVector(SignatureSize))
      /\ t[3] = ObjectSlot("signer", ZeroVector(SignerSize)) /\ t[4] = IntSlot("version", 1)
      /\ t[5] = ShortSlot("type", 1) /\ t[6] = ObjectSlot("maxFee", Uint32Vector)
      /\ t[7] = ObjectSlot("deadline", Uint32Vector)
  BY <1>2, <1>3, SlotKinds
<1> DEFINE w == <<t[1], t[2], t[3], t[4], t[5], t[6], t[7]>>
<1>5. t = w
  <2>1. t = [i \in 1..7 |-> t[i]]  BY <1>1
  <2> HIDE DEF t
  <2> QED  BY <2>1
<1> QED  BY <1>4, <1>5

(* The schema reads them in the same order.                                *)
LEMMA HeaderPiece ==
    ASSUME NEW size \in Nat, size > 0
    PROVE  LET t == HeaderTable(size) IN
           /\ Piece(headerSchema[1], t[1]) = SizeField(size)
           /\ Piece(headerSchema[2], t[2]) = SignatureField(0)
           /\ Piece(headerSchema[3], t[3]) = SignerField(0)
           /\ Piece(headerSchema[4], t[4]) = <<Written("version", VersionSize, 1)>>
           /\ Piece(headerSchema[5], t[5]) = <<Written("type", TypeSize, 1)>>
           /\ Piece(headerSchema[6], t[6]) = <<Written("maxFee", MaxFeeSize, 1)>>
           /\ Piece(headerSchema[7], t[7]) = <<Written("deadline", DeadLineSize, 1)>>
<1> DEFINE t == HeaderTable(size)
<1>1. /\ t[1] = IntSlot("size", size) /\ t[2] = ObjectSlot("signature", ZeroVector(64))
      /\ t[3] = ObjectSlot("signer", ZeroVector(32)) /\ t[4] = IntSlot("version", 1)
      /\ t[5] = ShortSlot("type", 1) /\ t[6] = ObjectSlot("maxFee", Uint32Vector)
      /\ t[7] = ObjectSlot("deadline", Uint32Vector)
  BY HeaderSlots DEF SignatureSize, SignerSize
<1> HIDE DEF t
<1>2. /\ headerSchema[1] = scalarAttribute(4) /\ headerSchema[2] = arrayAttribute(1)
      /\ headerSchema[3] = arrayAttribute(1) /\ headerSchema[4] = scalarAttribute(4)
      /\ headerSchema[5] = scalarAttribute(2) /\ headerSchema[6] = arrayAttribute(4)
      /\ headerSchema[7] = arrayAttribute(4)
  BY DEF headerSchema, ByteSize, ShortSize, IntSize
<1>3. \A k, slot : /\ Piece(scalarAttribute(k), slot) = findParam(slot, k)
                   /\ Piece(arrayAttribute(k), slot) = findVector(slot, k)
  BY DEF Piece, serializeAttribute, scalarAttribute, arrayAttribute, Attribute
<1>4. ASSUME NEW name, NEW x \in Nat \ {0}
      PROVE  findParam(IntSlot(name, x), 4) = <<Segment(name, 4, x, <<>>)>>
  BY DEF findParam, IntSlot
<1>5. findParam(ShortSlot("type", 1), 2) = <<Segment("type", 2, 1, <<>>)>>
  <2>1. 1 % 65536 = 1  OBVIOUS
  <2> QED  BY <2>1 DEF findParam, ShortSlot
<1>6. ASSUME NEW name, NEW n \in Nat
      PROVE  findVector(ObjectSlot(name, ZeroVector(n)), 1) = <<Segment(name, n, 0, <<>>)>>
  <2>1. n * 1 = n  OBVIOUS
  <2> QED  BY <2>1 DEF findVector, ObjectSlot, ZeroVector, Object
<1>7. ASSUME NEW name
      PROVE  findVector(ObjectSlot(name, Uint32Vector), 4) = <<Segment(name, 8, 1, <<>>)>>
  <2>1. 2 * 4 = 8  OBVIOUS
  <2> QED  BY <2>1 DEF findVector, ObjectSlot, Uint32Vector, Object
<1>8. size \in Nat \ {0} /\ 1 \in Nat \ {0} /\ 64 \in Nat /\ 32 \in Nat  OBVIOUS
<1>9. /\ findParam(t[1], 4) = <<Segment("size", 4, size, <<>>)>>
      /\ findVector(t[2], 1) = <<Segment("signature", 64, 0, <<>>)>>
      /\ findVector(t[3], 1) = <<Segment("signer", 32, 0, <<>>)>>
      /\ findParam(t[4], 4) = <<Segment("version", 4, 1, <<>>)>>
      /\ findParam(t[5], 2) = <<Segment("type", 2, 1, <<>>)>>
      /\ findVector(t[6], 4) = <<Segment("maxFee", 8, 1, <<>>)>>
      /\ findVector(t[7], 4) = <<Segment("deadline", 8, 1, <<>>)>>
  BY <1>1, <1>4, <1>5, <1>6, <1>7, <1>8
<1> QED
  BY <1>2, <1>3, <1>9 DEF t, SizeField, SignatureField, SignerField, Written, SizeSize,
     SignatureSize, SignerSize, VersionSize, TypeSize, MaxFeeSize, DeadLineSize

(* Put together they are the header.                                       *)
LEMMA HeaderFlat ==
    ASSUME NEW size \in Nat
    PROVE  LET P == HeaderPieces(size) IN
           /\ P \in Seq(Seq(Solid)) /\ Len(P) = 7 /\ FlattenSeq(P) \in Bytes
           /\ \A rest \in Bytes : Cat(FlattenSeq(P), rest) = Framed(size, 0, 0, rest)
<1> DEFINE P == HeaderPieces(size)
           a == SizeField(size)
           b == SignatureField(0)
           c == SignerField(0)
           d == <<Written("version", VersionSize, 1)>>
           e == <<Written("type", TypeSize, 1)>>
           f == <<Written("maxFee", MaxFeeSize, 1)>>
           g == <<Written("deadline", DeadLineSize, 1)>>
<1>1. a \in Bytes /\ b \in Bytes /\ c \in Bytes  BY FieldLists
<1>2. /\ d \in Bytes /\ e \in Bytes /\ f \in Bytes /\ g \in Bytes
      /\ KindFields = Cat(d, e) /\ FeeFields = Cat(f, g)
  <2>1. /\ "version" \in FieldNames /\ "type" \in FieldNames /\ "maxFee" \in FieldNames
        /\ "deadline" \in FieldNames
    BY DEF FieldNames, HeaderNames
  <2>2. /\ Written("version", VersionSize, 1) \in Solid /\ Written("type", TypeSize, 1) \in Solid
        /\ Written("maxFee", MaxFeeSize, 1) \in Solid
        /\ Written("deadline", DeadLineSize, 1) \in Solid
    BY <2>1, Written1 DEF VersionSize, TypeSize, MaxFeeSize, DeadLineSize
  <2>3. \A s \in Solid : <<s>> \in Bytes  BY DEF Bytes
  <2> QED  BY <2>2, <2>3, PairSplit DEF KindFields, FeeFields, Cat
<1>3. /\ Len(P) = 7 /\ P[1] = a /\ P[2] = b /\ P[3] = c /\ P[4] = d /\ P[5] = e /\ P[6] = f
      /\ P[7] = g /\ IsList(P, 7)
  BY DEF HeaderPieces, IsList
<1> HIDE DEF P, a, b, c, d, e, f, g
<1>4. P \in Seq(Bytes)
  <2>1. \A i \in 1..7 : P[i] \in Bytes
    <3>1. \A i \in 1..7 : i = 1 \/ i = 2 \/ i = 3 \/ i = 4 \/ i = 5 \/ i = 6 \/ i = 7  OBVIOUS
    <3> QED  BY <1>1, <1>2, <1>3, <3>1
  <2> QED  BY <1>3, <2>1, ListOf DEF IsList
<1>5. P \in Seq(Seq(Solid))  BY <1>4 DEF Bytes
<1> DEFINE U(k) == UpTo(P, k)
<1>6. /\ \A k \in 0..7 : U(k) \in Bytes
      /\ \A k \in 1..7 : U(k) = Cat(U(k - 1), P[k])
      /\ U(0) = <<>> /\ FlattenSeq(P) = U(7)
  BY <1>3, <1>5, FlatOf DEF Bytes, Cat
<1> HIDE DEF U
<1>7. /\ U(1) = Cat(U(0), a) /\ U(2) = Cat(U(1), b) /\ U(3) = Cat(U(2), c) /\ U(4) = Cat(U(3), d)
      /\ U(5) = Cat(U(4), e) /\ U(6) = Cat(U(5), f) /\ U(7) = Cat(U(6), g)
  <2>1. ASSUME NEW j \in 0..6 PROVE U(j + 1) = Cat(U(j), P[j + 1])
    <3>1. j + 1 \in 1..7 /\ (j + 1) - 1 = j  OBVIOUS
    <3>2. U(j + 1) = Cat(U((j + 1) - 1), P[j + 1])  BY <1>6, <3>1
    <3> QED  BY <3>1, <3>2
  <2>2. /\ 0 + 1 = 1 /\ 1 + 1 = 2 /\ 2 + 1 = 3 /\ 3 + 1 = 4 /\ 4 + 1 = 5 /\ 5 + 1 = 6 /\ 6 + 1 = 7
        /\ 0 \in 0..6 /\ 1 \in 0..6 /\ 2 \in 0..6 /\ 3 \in 0..6 /\ 4 \in 0..6 /\ 5 \in 0..6 /\ 6 \in 0..6
    OBVIOUS
  <2>3. /\ U(0 + 1) = Cat(U(0), P[0 + 1]) /\ U(1 + 1) = Cat(U(1), P[1 + 1])
        /\ U(2 + 1) = Cat(U(2), P[2 + 1]) /\ U(3 + 1) = Cat(U(3), P[3 + 1])
        /\ U(4 + 1) = Cat(U(4), P[4 + 1]) /\ U(5 + 1) = Cat(U(5), P[5 + 1])
        /\ U(6 + 1) = Cat(U(6), P[6 + 1])
    BY <2>1, <2>2
  <2> QED  BY <1>3, <2>2, <2>3
<1>8. /\ U(1) \in Bytes /\ U(2) \in Bytes /\ U(3) \in Bytes /\ U(4) \in Bytes /\ U(5) \in Bytes
      /\ U(6) \in Bytes /\ U(7) \in Bytes
  <2>1. 1 \in 0..7 /\ 2 \in 0..7 /\ 3 \in 0..7 /\ 4 \in 0..7 /\ 5 \in 0..7 /\ 6 \in 0..7 /\ 7 \in 0..7
    OBVIOUS
  <2> QED  BY <1>6, <2>1
<1>9. ASSUME NEW rest \in Bytes PROVE Cat(U(7), rest) = Framed(size, 0, 0, rest)
  <2> DEFINE gr == Cat(g, rest)
             fgr == Cat(f, gr)
             efgr == Cat(e, fgr)
             defgr == Cat(d, efgr)
             cdefgr == Cat(c, defgr)
             bcdefgr == Cat(b, cdefgr)
  <2>1. gr \in Bytes /\ fgr \in Bytes /\ efgr \in Bytes /\ defgr \in Bytes /\ cdefgr \in Bytes
        /\ bcdefgr \in Bytes
    <3>1. gr \in Bytes  BY <1>2, CatBytes
    <3>2. fgr \in Bytes  BY <1>2, <3>1, CatBytes
    <3>3. efgr \in Bytes  BY <1>2, <3>2, CatBytes
    <3>4. defgr \in Bytes  BY <1>2, <3>3, CatBytes
    <3>5. cdefgr \in Bytes  BY <1>1, <3>4, CatBytes
    <3>6. bcdefgr \in Bytes  BY <1>1, <3>5, CatBytes
    <3> QED  BY <3>1, <3>2, <3>3, <3>4, <3>5, <3>6
  <2>2. Cat(U(7), rest) = Cat(U(6), gr)  BY <1>2, <1>7, <1>8, CatAssociative
  <2> HIDE DEF gr
  <2>3. Cat(U(6), gr) = Cat(U(5), fgr)  BY <1>2, <1>7, <1>8, <2>1, CatAssociative
  <2> HIDE DEF fgr
  <2>4. Cat(U(5), fgr) = Cat(U(4), efgr)  BY <1>2, <1>7, <1>8, <2>1, CatAssociative
  <2> HIDE DEF efgr
  <2>5. Cat(U(4), efgr) = Cat(U(3), defgr)  BY <1>2, <1>7, <1>8, <2>1, CatAssociative
  <2> HIDE DEF defgr
  <2>6. Cat(U(3), defgr) = Cat(U(2), cdefgr)  BY <1>1, <1>7, <1>8, <2>1, CatAssociative
  <2> HIDE DEF cdefgr
  <2>7. Cat(U(2), cdefgr) = Cat(U(1), bcdefgr)  BY <1>1, <1>7, <1>8, <2>1, CatAssociative
  <2> HIDE DEF bcdefgr
  <2>8. U(1) = a  BY <1>1, <1>6, <1>7, CatNothing
  <2>9. defgr = Cat(KindFields, Cat(FeeFields, rest))
    <3>1. Cat(FeeFields, rest) = fgr  BY <1>2, CatAssociative DEF fgr, gr
    <3>2. Cat(KindFields, fgr) = defgr  BY <1>2, <2>1, CatAssociative DEF defgr, efgr
    <3> QED  BY <3>1, <3>2
  <2>10. Framed(size, 0, 0, rest) = Cat(a, bcdefgr)
    BY <2>9 DEF Framed, a, b, c, cdefgr, bcdefgr
  <2> QED  BY <2>2, <2>3, <2>4, <2>5, <2>6, <2>7, <2>8, <2>10
<1> QED  BY <1>3, <1>5, <1>6, <1>8, <1>9 DEF P

(* Whole segments have bytes.                                              *)
LEMMA EntireBytes ==
    ASSUME NEW b \in Seq(Entire)
    PROVE  b \in Bytes
<1>1. Entire \subseteq Solid  BY DEF Entire
<1> QED  BY <1>1, SeqWider DEF Bytes

(* The pieces of a transaction are those of its header and the others.     *)
LEMMA HeaderFirst ==
    ASSUME NEW size \in Nat, size > 0, NEW s, NEW t, Fits(s, t)
    PROVE  Pieces(headerSchema \o s, HeaderTable(size) \o t) = HeaderPieces(size) \o Pieces(s, t)
<1> DEFINE h == headerSchema
           H == HeaderTable(size)
           P == Pieces(s, t)
           HP == HeaderPieces(size)
           Q == Pieces(h \o s, H \o t)
           T == Slots \cup {H[i] : i \in 1..7}
           n == Len(s)
<1>1. h \in Seq(Attributes) /\ Len(h) = 7
  <2>1. /\ Len(h) = 7 /\ IsList(h, 7) /\ h[1] = scalarAttribute(4) /\ h[2] = arrayAttribute(1)
        /\ h[3] = arrayAttribute(1) /\ h[4] = scalarAttribute(4) /\ h[5] = scalarAttribute(2)
        /\ h[6] = arrayAttribute(4) /\ h[7] = arrayAttribute(4)
    BY DEF headerSchema, ByteSize, ShortSize, IntSize, IsList
  <2> HIDE DEF h
  <2>2. \A i \in 1..7 : h[i] \in Attributes
    <3>1. \A i \in 1..7 : i = 1 \/ i = 2 \/ i = 3 \/ i = 4 \/ i = 5 \/ i = 6 \/ i = 7  OBVIOUS
    <3> QED  BY <2>1, <3>1, FlatAttributes
  <2> QED  BY <2>1, <2>2, ListOf DEF IsList
<1>2. H \in Seq(T) /\ Len(H) = 7
  <2>1. Len(H) = 7 /\ IsList(H, 7)  BY HeaderSlots DEF IsList
  <2> HIDE DEF H
  <2>2. \A i \in 1..7 : H[i] \in T  OBVIOUS
  <2> HIDE DEF T
  <2> QED  BY <2>1, <2>2, ListOf DEF IsList
<1>3. /\ s \in Seq(Attributes) /\ t \in Seq(T) /\ Len(t) = n /\ n \in Nat
      /\ P \in Seq(Seq(Field)) /\ Len(P) = n /\ \A i \in 1..n : P[i] = Piece(s[i], t[i])
  <2>1. s \in Seq(Attributes) /\ t \in Seq(Slots) /\ Len(t) = n  BY DEF Fits
  <2>2. Slots \subseteq T  OBVIOUS
  <2> HIDE DEF P, n, T
  <2>3. t \in Seq(T)  BY <2>1, <2>2, SeqWider
  <2> QED  BY <2>1, <2>3, PiecesOf DEF P, n
<1>4. HP \in Seq(Seq(Solid)) /\ Len(HP) = 7  BY HeaderFlat
<1>5. \A i \in 1..7 : HP[i] = Piece(h[i], H[i])
  <2>1. /\ HP[1] = Piece(h[1], H[1]) /\ HP[2] = Piece(h[2], H[2]) /\ HP[3] = Piece(h[3], H[3])
        /\ HP[4] = Piece(h[4], H[4]) /\ HP[5] = Piece(h[5], H[5]) /\ HP[6] = Piece(h[6], H[6])
        /\ HP[7] = Piece(h[7], H[7])
    BY HeaderPiece DEF HeaderPieces
  <2> HIDE DEF HP, h, H
  <2>2. \A i \in 1..7 : i = 1 \/ i = 2 \/ i = 3 \/ i = 4 \/ i = 5 \/ i = 6 \/ i = 7  OBVIOUS
  <2> QED  BY <2>1, <2>2
<1> HIDE DEF h, H, P, HP, T, n
<1>6. /\ h \o s \in Seq(Attributes) /\ Len(h \o s) = 7 + n
      /\ \A i \in 1..7 : (h \o s)[i] = h[i]
      /\ \A i \in 1..n : (h \o s)[7 + i] = s[i]
  <2>1. /\ h \o s \in Seq(Attributes) /\ Len(h \o s) = Len(h) + Len(s)
        /\ \A i \in 1..Len(h) : (h \o s)[i] = h[i]
        /\ \A i \in 1..Len(s) : (h \o s)[Len(h) + i] = s[i]
    <3>1. h \in Seq(Attributes) /\ s \in Seq(Attributes)  BY <1>1, <1>3
    <3> QED  BY <3>1, JoinParts
  <2>2. Len(s) = n  BY DEF n
  <2> QED  BY <1>1, <2>1, <2>2
<1>7. /\ \A i \in 1..7 : (H \o t)[i] = H[i]
      /\ \A i \in 1..n : (H \o t)[7 + i] = t[i]
  <2>1. /\ \A i \in 1..Len(H) : (H \o t)[i] = H[i]
        /\ \A i \in 1..Len(t) : (H \o t)[Len(H) + i] = t[i]
    <3>1. H \in Seq(T) /\ t \in Seq(T)  BY <1>2, <1>3
    <3> QED  BY <3>1, JoinParts
  <2> QED  BY <1>2, <1>3, <2>1
<1> DEFINE S == Seq(Seg)
<1>8. HP \in Seq(S) /\ P \in Seq(S)
  <2>1. Solid \subseteq Seg /\ Field \subseteq Seg  BY DEF Solid, Field
  <2>2. Seq(Solid) \subseteq S /\ Seq(Field) \subseteq S  BY <2>1, SeqWider
  <2> HIDE DEF S
  <2> QED  BY <1>3, <1>4, <2>2, SeqWider
<1> HIDE DEF S
<1>9. /\ HP \o P \in Seq(S) /\ Len(HP \o P) = 7 + n
      /\ \A i \in 1..7 : (HP \o P)[i] = HP[i]
      /\ \A i \in 1..n : (HP \o P)[7 + i] = P[i]
  <2>1. /\ HP \o P \in Seq(S) /\ Len(HP \o P) = Len(HP) + Len(P)
        /\ \A i \in 1..Len(HP) : (HP \o P)[i] = HP[i]
        /\ \A i \in 1..Len(P) : (HP \o P)[Len(HP) + i] = P[i]
    BY <1>8, JoinParts
  <2> QED  BY <1>3, <1>4, <2>1
<1>10. Q = [i \in 1..7 + n |-> Piece((h \o s)[i], (H \o t)[i])]
  BY <1>6 DEF Pieces
<1>11. ASSUME NEW i \in 1..7 + n PROVE Q[i] = (HP \o P)[i]
  <2>1. Q[i] = Piece((h \o s)[i], (H \o t)[i])  BY <1>10
  <2>2. CASE i \in 1..7  BY <1>5, <1>6, <1>7, <1>9, <2>1, <2>2
  <2>3. CASE i \notin 1..7
    <3>1. i - 7 \in 1..n /\ 7 + (i - 7) = i  BY <1>3, <2>3
    <3>2. (h \o s)[i] = s[i - 7] /\ (H \o t)[i] = t[i - 7] /\ (HP \o P)[i] = P[i - 7]
      <4>1. /\ (h \o s)[7 + (i - 7)] = s[i - 7] /\ (H \o t)[7 + (i - 7)] = t[i - 7]
            /\ (HP \o P)[7 + (i - 7)] = P[i - 7]
        BY <1>6, <1>7, <1>9, <3>1
      <4> QED  BY <3>1, <4>1
    <3> QED  BY <1>3, <2>1, <3>1, <3>2
  <2> QED  BY <2>2, <2>3
<1>12. Q = [i \in 1..7 + n |-> Q[i]] /\ HP \o P = [i \in 1..7 + n |-> (HP \o P)[i]]
  <2>1. Q = [i \in 1..7 + n |-> Q[i]]  BY <1>10
  <2>2. HP \o P = [i \in 1..7 + n |-> (HP \o P)[i]]
    <3> DEFINE z == HP \o P
    <3>1. z \in Seq(S) /\ Len(z) = 7 + n  BY <1>9
    <3> HIDE DEF z
    <3>2. z = [i \in 1..Len(z) |-> z[i]]  BY <3>1
    <3>3. z = [i \in 1..7 + n |-> z[i]]  BY <3>1, <3>2
    <3> QED  BY <3>3 DEF z
  <2> QED  BY <2>1, <2>2
<1>13. Q = HP \o P
  <2> HIDE DEF Q
  <2> QED  BY <1>11, <1>12
<1> QED  BY <1>13 DEF h, H, P, HP

(* The header, and behind it what the schema makes of the other slots.     *)
LEMMA SerializeAll ==
    ASSUME NEW size \in Nat, size > 0, NEW s, NEW t, Fits(s, t), Body(s, t) \in Seq(Entire)
    PROVE  serialize(headerSchema \o s, HeaderTable(size) \o t) = Framed(size, 0, 0, Body(s, t))
<1> DEFINE P == Pieces(s, t)
           HP == HeaderPieces(size)
<1>1. /\ HP \in Seq(Seq(Solid)) /\ FlattenSeq(HP) \in Bytes
      /\ \A rest \in Bytes : Cat(FlattenSeq(HP), rest) = Framed(size, 0, 0, rest)
  BY HeaderFlat
<1>2. P \in Seq(Seq(Field))  BY PiecesOf
<1>3. serialize(headerSchema \o s, HeaderTable(size) \o t) = Nonempty(FlattenSeq(HP \o P))
  <2>1. serialize(headerSchema \o s, HeaderTable(size) \o t)
            = Nonempty(FlattenSeq(Pieces(headerSchema \o s, HeaderTable(size) \o t)))
    BY SerializeOf DEF Body
  <2>2. Pieces(headerSchema \o s, HeaderTable(size) \o t) = HP \o P  BY HeaderFirst
  <2> HIDE DEF P, HP
  <2> QED  BY <2>1, <2>2
<1>4. Body(s, t) = Nonempty(FlattenSeq(P))  BY DEF Body
<1> HIDE DEF P, HP
<1>5. HP \in Seq(Seq(Seg)) /\ P \in Seq(Seq(Seg))
  <2>1. Solid \subseteq Seg /\ Field \subseteq Seg  BY DEF Solid, Field
  <2>2. Seq(Solid) \subseteq Seq(Seg) /\ Seq(Field) \subseteq Seq(Seg)  BY <2>1, SeqWider
  <2> QED  BY <1>1, <1>2, <2>2, SeqWider
<1> DEFINE x == FlattenSeq(HP)
           y == FlattenSeq(P)
<1>6. x \in Seq(Seg) /\ y \in Seq(Seg) /\ FlattenSeq(HP \o P) = x \o y
  BY <1>5, FlatJoin
<1> HIDE DEF x, y
<1>7. Nonempty(x \o y) = Nonempty(x) \o Nonempty(y)  BY <1>6, NonemptyJoin
<1>8. Nonempty(x) = x
  <2>1. x \in Seq(Solid)  BY <1>1 DEF x, Bytes
  <2>2. \A i \in 1..Len(x) : x[i].n > 0  BY <2>1, SolidSeq
  <2> QED  BY <1>6, <2>2, NonemptyBytes
<1>9. Nonempty(y) = Body(s, t) /\ Body(s, t) \in Bytes  BY <1>4, EntireBytes DEF y
<1>10. Cat(x, Body(s, t)) = Framed(size, 0, 0, Body(s, t))  BY <1>1, <1>9 DEF x
<1> QED  BY <1>3, <1>6, <1>7, <1>8, <1>9, <1>10 DEF Cat

(***************************************************************************)
(* What generateBytes makes.                                               *)
(***************************************************************************)

(* What follows the header.                                                *)
Rest(bytes) == Slice(bytes, TransactionHeaderSize, Length(bytes))

(* A transaction whose header is in front and whose fields are entire.     *)
Framing(t) ==
    /\ t.size \in Nat /\ t.size >= 122
    /\ t.bytes = Framed(t.size, 0, 0, Rest(t.bytes)) /\ Rest(t.bytes) \in Seq(Entire)
    /\ Length(t.bytes) = 122 + Length(Rest(t.bytes))

(* One that is as long as TxPayload says of its type.                      *)
Faithful(t, type) ==
    /\ Framing(t) /\ t.kind = type.kind /\ t.size = type.size /\ Length(t.bytes) = type.bytes
    /\ type.kind \in {"plain", "versioning"} /\ Rest(t.bytes) \in Seq(Plain)

(* generateBytes writes the header, and behind it what the schema makes of *)
(* the other slots.                                                        *)
LEMMA GeneratedFrame ==
    ASSUME NEW type, NEW buffer, NEW s, NEW values, type.size \in Nat, type.size >= 122,
           Fits(s, Build(buffer, values)), Body(s, Build(buffer, values)) \in Seq(Entire)
    PROVE  LET t == generateBytes(type, buffer, headerSchema \o s, values) IN
           /\ Framing(t) /\ t.kind = type.kind /\ t.size = type.size
           /\ Rest(t.bytes) = Body(s, Build(buffer, values))
<1> DEFINE tx0 == generateBytes(type, buffer, headerSchema \o s, values)
           rest == Body(s, Build(buffer, values))
<1>1. tx0.kind = type.kind /\ tx0.size = type.size
      /\ tx0.bytes = serialize(headerSchema \o s, HeaderTable(type.size) \o Build(buffer, values))
  BY DEF generateBytes, HeaderTable
<1>2. tx0.bytes = Framed(type.size, 0, 0, rest)
  <2>1. type.size > 0  OBVIOUS
  <2> QED  BY <1>1, <2>1, SerializeAll
<1>3. rest \in Bytes /\ rest \in Seq(Entire)  BY EntireBytes
<1> HIDE DEF rest, tx0
<1>4. Length(tx0.bytes) = 122 + Length(rest) /\ Slice(tx0.bytes, 122, Length(tx0.bytes)) = rest
  <2>1. 0 \in Nat  OBVIOUS
  <2> QED  BY <1>2, <1>3, <2>1, FramedParts
<1>5. TransactionHeaderSize = 122
  BY DEF TransactionHeaderSize, Payload!TransactionHeaderSize, Payload!SizeSize,
         Payload!SignerSize, Payload!KeySize, Payload!SignatureSize
<1>6. Rest(tx0.bytes) = rest  BY <1>4, <1>5 DEF Rest
<1> QED  BY <1>1, <1>2, <1>3, <1>4, <1>6 DEF Framing, tx0, rest

(* A transaction whose slots fit its schema is faithful to the type that   *)
(* has the same size.                                                      *)
LEMMA Generated ==
    ASSUME NEW type, NEW buffer, NEW s, NEW values, type.size \in Nat, type.size >= 122,
           type.kind \in {"plain", "versioning"},
           Fits(s, Build(buffer, values)), Body(s, Build(buffer, values)) \in Seq(Plain),
           type.bytes = 122 + Length(Body(s, Build(buffer, values)))
    PROVE  Faithful(generateBytes(type, buffer, headerSchema \o s, values), type)
<1> DEFINE t == generateBytes(type, buffer, headerSchema \o s, values)
           rest == Body(s, Build(buffer, values))
<1>1. Framing(t) /\ t.kind = type.kind /\ t.size = type.size /\ Rest(t.bytes) = rest
  <2>1. rest \in Seq(Entire)  BY PlainEntire
  <2> QED  BY <2>1, GeneratedFrame
<1>2. type.bytes = 122 + Length(rest) /\ rest \in Seq(Plain)  OBVIOUS
<1> HIDE DEF t, rest
<1>3. Length(t.bytes) = type.bytes  BY <1>1, <1>2 DEF Framing
<1>4. Faithful(t, type)  BY <1>1, <1>2, <1>3 DEF Faithful
<1> QED  BY <1>4 DEF t

Sized(schema, table, n) ==
    /\ Fits(schema, table) /\ Body(schema, table) \in Seq(Plain)
    /\ Length(Body(schema, table)) = n

(* Tables of a known length, alone and in a vector.                        *)
LEMMA TableMakesOf ==
    ASSUME NEW schema, NEW table, NEW k, Fitting(schema, table, k)
    PROVE  /\ k \in Nat
           /\ \A name \in SlotNames, n \in Nat :
                 /\ Makes(tableArrayAttribute(schema), ObjectSlot(name, UOffsetVector(n, table)), n * k)
                 /\ Makes(tableAttribute(schema), ObjectSlot(name, Table(table)), k)
<1>1. /\ schema \in Seq(FlatAttribute) /\ table \in Seq(FlatSlot) /\ Len(schema) = Len(table)
      /\ Length(serializeFlat(schema, table)) = k
  BY DEF Fitting
<1>2. 0 \in Nat /\ "hash" \in SlotNames  BY DEF SlotNames
<1>3. k \in Nat  BY <1>1, <1>2, TableMakes
<1>4. ASSUME NEW name \in SlotNames, NEW n \in Nat
      PROVE  /\ Makes(tableArrayAttribute(schema), ObjectSlot(name, UOffsetVector(n, table)), n * k)
             /\ Makes(tableAttribute(schema), ObjectSlot(name, Table(table)), k)
  BY <1>1, TableMakes
<1> QED  BY <1>3, <1>4

(* A mosaic: two numbers of 64 bits.                                       *)
LEMMA MosaicTable ==
    Fitting(<<arrayAttribute(IntSize), arrayAttribute(IntSize)>>,
            Build(MosaicBuffer,
                  [id |-> Uint32Vector, amount |-> Uint32Vector]),
            16)
<1> DEFINE b == MosaicBuffer
           values == [id |-> Uint32Vector, amount |-> Uint32Vector]
           s == <<arrayAttribute(IntSize), arrayAttribute(IntSize)>>
           t == Build(b, values)
           lens == <<8, 8>>
<1>1. t = [i \in 1..2 |-> SlotOf(b[i], values)]  BY BuildOf DEF MosaicBuffer
<1>2. values["id"] = Uint32Vector /\ values["amount"] = Uint32Vector
  OBVIOUS
<1>3. "id" \in TableNames /\ "amount" \in TableNames
  BY DEF TableNames
<1> HIDE DEF values
<1>4. /\ t[1] = ObjectSlot("id", Uint32Vector)
      /\ t[2] = ObjectSlot("amount", Uint32Vector)
  <2>1. /\ t[1] = SlotOf(UOffsetT("id"), values)
        /\ t[2] = SlotOf(UOffsetT("amount"), values)
    BY <1>1 DEF MosaicBuffer
  <2> QED  BY <1>2, <2>1, SlotKinds
<1>5. Len(lens) = 2 /\ IsList(s, 2) /\ IsList(lens, 2)  BY DEF IsList
<1>6. IsList(t, 2)  BY <1>1 DEF IsList
<1> HIDE DEF t
<1>7. FlatMakes(s[1], t[1], lens[1]) /\ FlatMakes(s[2], t[2], lens[2])
  BY <1>3, <1>4, FlatSlots
<1>8. Total(lens) = 16
  BY <1>5 DEF Total, Part
<1> HIDE DEF s, lens
<1>9. \A i \in 1..Len(lens) : FlatMakes(s[i], t[i], lens[i])
  <2>1. \A i \in 1..2 : i = 1 \/ i = 2  OBVIOUS
  <2> QED  BY <1>5, <1>7, <2>1
<1>10. Fitting(s, t, Total(lens))
  <2>1. /\ Len(lens) \in Nat /\ Len(lens) <= 8 /\ IsList(s, Len(lens))
        /\ IsList(t, Len(lens)) /\ IsList(lens, Len(lens))
    BY <1>5, <1>6
  <2> QED  BY <1>9, <2>1, FlatBodyOf DEF Fitting
<1> QED  BY <1>8, <1>10 DEF s, t, values

(* A metadata modification: eight bytes, its key and its value.            *)
LEMMA MetadataTable ==
    ASSUME NEW key \in Nat, NEW value \in Nat
    PROVE  Fitting(<<scalarAttribute(IntSize), scalarAttribute(ByteSize),
                     scalarAttribute(ByteSize), arrayAttribute(ByteSize),
                     arrayAttribute(ByteSize), arrayAttribute(ByteSize)>>,
                   Build(MetadataModificationBuffer,
                         [size |-> Payload!MetadataModificationsSize(1, key, value),
                          modificationType |-> 1, keySize |-> key,
                          valueSize |-> ShortVector(value), key |-> ByteVector(key),
                          value |-> ByteVector(value)]),
                   8 + key + value)
<1> DEFINE size == Payload!MetadataModificationsSize(1, key, value)
           b == MetadataModificationBuffer
           values == [size |-> size, modificationType |-> 1, keySize |-> key,
                      valueSize |-> ShortVector(value), key |-> ByteVector(key),
                      value |-> ByteVector(value)]
           s == <<scalarAttribute(IntSize), scalarAttribute(ByteSize),
                  scalarAttribute(ByteSize), arrayAttribute(ByteSize),
                  arrayAttribute(ByteSize), arrayAttribute(ByteSize)>>
           t == Build(b, values)
           lens == <<4, 1, 1, 2, key, value>>
<1>f1. size \in Nat /\ Payload!IntSize(size) = 4
  BY DEF Payload!MetadataModificationsSize, Payload!SizeSize, Payload!IntSize
<1> HIDE DEF size
<1>1. t = [i \in 1..6 |-> SlotOf(b[i], values)]  BY BuildOf DEF MetadataModificationBuffer
<1>2. /\ values["size"] = size /\ values["modificationType"] = 1
      /\ values["keySize"] = key /\ values["valueSize"] = ShortVector(value)
      /\ values["key"] = ByteVector(key) /\ values["value"] = ByteVector(value)
  OBVIOUS
<1>3. /\ "size" \in TableNames /\ "modificationType" \in TableNames
      /\ "keySize" \in TableNames /\ "valueSize" \in TableNames /\ "key" \in TableNames
      /\ "value" \in TableNames
  BY DEF TableNames
<1> HIDE DEF values
<1>4. /\ t[1] = IntSlot("size", size) /\ t[2] = ByteSlot("modificationType", 1)
      /\ t[3] = ByteSlot("keySize", key)
      /\ t[4] = ObjectSlot("valueSize", ShortVector(value))
      /\ t[5] = ObjectSlot("key", ByteVector(key))
      /\ t[6] = ObjectSlot("value", ByteVector(value))
  <2>1. /\ t[1] = SlotOf(Uint32("size"), values)
        /\ t[2] = SlotOf(Byte("modificationType"), values)
        /\ t[3] = SlotOf(Byte("keySize"), values)
        /\ t[4] = SlotOf(UOffsetT("valueSize"), values)
        /\ t[5] = SlotOf(UOffsetT("key"), values)
        /\ t[6] = SlotOf(UOffsetT("value"), values)
    BY <1>1 DEF MetadataModificationBuffer
  <2> QED  BY <1>2, <2>1, SlotKinds
<1>5. Len(lens) = 6 /\ IsList(s, 6) /\ IsList(lens, 6)  BY DEF IsList
<1>6. IsList(t, 6)  BY <1>1 DEF IsList
<1> HIDE DEF t
<1>7. /\ FlatMakes(s[1], t[1], lens[1]) /\ FlatMakes(s[2], t[2], lens[2])
      /\ FlatMakes(s[3], t[3], lens[3]) /\ FlatMakes(s[4], t[4], lens[4])
      /\ FlatMakes(s[5], t[5], lens[5]) /\ FlatMakes(s[6], t[6], lens[6])
  BY <1>3, <1>4, <1>f1, FlatSlots
<1>8. Total(lens) = 8 + key + value
  BY <1>5, <1>f1 DEF Total, Part
<1> HIDE DEF s, lens
<1>9. \A i \in 1..Len(lens) : FlatMakes(s[i], t[i], lens[i])
  <2>1. \A i \in 1..6 : i = 1 \/ i = 2 \/ i = 3 \/ i = 4 \/ i = 5 \/ i = 6  OBVIOUS
  <2> QED  BY <1>5, <1>7, <2>1
<1>10. Fitting(s, t, Total(lens))
  <2>1. /\ Len(lens) \in Nat /\ Len(lens) <= 8 /\ IsList(s, Len(lens))
        /\ IsList(t, Len(lens)) /\ IsList(lens, Len(lens))
    BY <1>5, <1>6
  <2> QED  BY <1>9, <2>1, FlatBodyOf DEF Fitting
<1> QED  BY <1>8, <1>10 DEF s, t, values, size

(* The tables as they are put into the transactions.                       *)
PropertyModifications(n, k) ==
    UOffsetVector(n, Build(PropertyModificationBuffer,
                           [modificationType |-> 1, value |-> ByteVector(k)]))

Message(payload) == Table(Build(MessageBuffer, [type |-> 1, payload |-> ByteVector(payload)]))

Mosaics(n) ==
    UOffsetVector(n, Build(MosaicBuffer, [id |-> Uint32Vector, amount |-> Uint32Vector]))

propertySchema == <<scalarAttribute(ByteSize), arrayAttribute(IntSize)>>

mosaicSchema == <<arrayAttribute(IntSize), arrayAttribute(IntSize)>>

modificationSchema ==
    <<scalarAttribute(IntSize), scalarAttribute(ByteSize), scalarAttribute(ByteSize),
      arrayAttribute(ByteSize), arrayAttribute(ByteSize), arrayAttribute(ByteSize)>>

(* The tables of one byte and a vector, as they are put into transactions. *)
LEMMA TypedMakes ==
    ASSUME NEW name \in SlotNames, NEW n \in Nat, NEW k \in Nat
    PROVE  /\ Makes(tableArrayAttribute(typedValueSchema),
                    ObjectSlot(name, PropertyModifications(n, k)), n * (1 + k))
           /\ Makes(tableArrayAttribute(typedValueSchema), ObjectSlot(name, Members(n)), n * 33)
           /\ Makes(tableAttribute(typedValueSchema), ObjectSlot(name, Message(k)), 1 + k)
<1> DEFINE property == Build(PropertyModificationBuffer,
                             [modificationType |-> 1, value |-> ByteVector(k)])
           member == Build(CosignatoryModificationBuffer,
                           [type |-> 1, cosignatoryPublicKey |-> Key])
           message == Build(MessageBuffer, [type |-> 1, payload |-> ByteVector(k)])
<1>1. /\ Fitting(typedValueSchema, property, 1 + k) /\ Fitting(typedValueSchema, message, 1 + k)
  BY TypedTables
<1>2. Fitting(typedValueSchema, member, 33)
  <2>1. Key = ByteVector(32) /\ 1 + 32 = 33 /\ 32 \in Nat  BY DEF Key, Payload!KeySize
  <2>2. Fitting(typedValueSchema,
                Build(CosignatoryModificationBuffer,
                      [type |-> 1, cosignatoryPublicKey |-> ByteVector(32)]), 1 + 32)
    BY <2>1, TypedTables
  <2> QED  BY <2>1, <2>2
<1> HIDE DEF property, member, message
<1>3. /\ Makes(tableArrayAttribute(typedValueSchema), ObjectSlot(name, UOffsetVector(n, property)),
               n * (1 + k))
      /\ Makes(tableAttribute(typedValueSchema), ObjectSlot(name, Table(message)), 1 + k)
  BY <1>1, TableMakesOf
<1>4. Makes(tableArrayAttribute(typedValueSchema), ObjectSlot(name, UOffsetVector(n, member)), n * 33)
  BY <1>2, TableMakesOf
<1> QED  BY <1>3, <1>4 DEF PropertyModifications, Members, Message, property, member, message

(* Properties and mosaics, as they are put into transactions.              *)
LEMMA OtherTablesMake ==
    ASSUME NEW name \in SlotNames, NEW n \in Nat
    PROVE  /\ Makes(tableArrayAttribute(propertySchema), ObjectSlot(name, MosaicProperties(n)), n * 9)
           /\ Makes(tableArrayAttribute(mosaicSchema), ObjectSlot(name, Mosaics(n)), n * 16)
<1> DEFINE property == Build(MosaicPropertyBuffer, [mosaicPropertyId |-> 1, value |-> Uint32Vector])
           mosaic == Build(MosaicBuffer, [id |-> Uint32Vector, amount |-> Uint32Vector])
<1>1. Fitting(propertySchema, property, 9) /\ Fitting(mosaicSchema, mosaic, 16)
  BY PropertyTable, MosaicTable DEF propertySchema, mosaicSchema
<1> HIDE DEF property, mosaic
<1>2. Makes(tableArrayAttribute(propertySchema), ObjectSlot(name, UOffsetVector(n, property)), n * 9)
  BY <1>1, TableMakesOf
<1>3. Makes(tableArrayAttribute(mosaicSchema), ObjectSlot(name, UOffsetVector(n, mosaic)), n * 16)
  BY <1>1, TableMakesOf
<1> QED  BY <1>2, <1>3 DEF MosaicProperties, Mosaics, property, mosaic

(* Metadata modifications, as they are put into transactions.              *)
LEMMA MetadataMakes ==
    ASSUME NEW n \in Nat, NEW key \in Nat, NEW value \in Nat
    PROVE  Makes(tableArrayAttribute(modificationSchema),
                 ObjectSlot("modifications", MetadataModifications(n, key, value)),
                 n * (8 + key + value))
<1> DEFINE modification ==
               Build(MetadataModificationBuffer,
                     [size |-> Payload!MetadataModificationsSize(1, key, value),
                      modificationType |-> 1, keySize |-> key, valueSize |-> ShortVector(value),
                      key |-> ByteVector(key), value |-> ByteVector(value)])
<1>1. Fitting(modificationSchema, modification, 8 + key + value)
  BY MetadataTable DEF modificationSchema
<1>2. MetadataModifications(n, key, value) = UOffsetVector(n, modification)
  BY DEF MetadataModifications
<1> HIDE DEF modification
<1>3. "modifications" \in SlotNames  BY DEF SlotNames
<1> QED  BY <1>1, <1>2, <1>3, TableMakesOf

===============================================================================

------------------------- MODULE NodeFailoverProof --------------------------
(***************************************************************************)
(* Proofs about NodeFailover: for any number of nodes and of concurrent    *)
(* calls, no body is received in full by two nodes unless connections were *)
(* kept, and a call fails only when it has tried every node.               *)
(*                                                                         *)
(* AnnouncedOnceUnlessKept is not inductive: it needs that a buffer that   *)
(* is still full was never received (BodyInv).  The type invariant needs   *)
(* that a call in a later attempt stands inside the list of urls           *)
(* (LoopInv), and FailureMeansAllTried that it has tried those before it   *)
(* (OrderInv).                                                             *)
(***************************************************************************)
EXTENDS NodeFailover, FiniteSetTheorems, TLAPS

(* A later attempt was made by the loop, at a position within BaseURLs.    *)
LoopInv ==
    \A r \in Calls :
        /\ pc[r] = "idle" => first[r]
        /\ pc[r] = "loop" => ~first[r]
        /\ pc[r] = "attempt" /\ ~first[r] => idx[r] <= N

(* The buffer drains before anybody has received it; what is left of those *)
(* who have, without the nodes of kept connections, is one node.           *)
BodyInv ==
    \A r \in Calls :
        /\ body[r] \in {"none", "full"} => received[r] = {}
        /\ \E n : received[r] \ kept \subseteq {n}

IInv == TypeOK /\ LoopInv /\ BodyInv

(* NewConfigWithReputation establishes the invariant.                      *)
LEMMA InitInv == Init => IInv
BY FailoverConstants
   DEF Init, IInv, TypeOK, LoopInv, BodyInv, BaseURLs, Calls, Successes, Failures

(* A failed attempt ends the call or moves its loop on by one url.         *)
LEMMA FailType ==
    ASSUME IInv, NEW r \in Calls, pc[r] = "attempt", NEW err \in Failures, Fail(r, err)
    PROVE  /\ result' \in [Calls -> Successes \cup Failures \cup {"none"}]
           /\ first' \in [Calls -> BOOLEAN]
           /\ pc' \in [Calls -> {"idle", "attempt", "loop", "store", "uid", "done"}]
           /\ idx' \in [Calls -> 1..N+1]
           /\ LoopInv'
<1>1. IF first[r] /\ r \in Rest /\ err # "urlError"
      THEN pc' = [pc EXCEPT ![r] = "done"] /\ idx' = idx
      ELSE /\ pc' = [pc EXCEPT ![r] = "loop"]
           /\ idx' = [idx EXCEPT ![r] = IF first[r] THEN 1 ELSE idx[r] + 1]
  BY DEF Fail
<1>2. /\ first' = [first EXCEPT ![r] = FALSE]
      /\ result' = [result EXCEPT ![r] = err]
  BY DEF Fail
<1>3. (IF first[r] THEN 1 ELSE idx[r] + 1) \in 1..N+1
  BY FailoverConstants DEF IInv, TypeOK, LoopInv
<1>4. idx' \in [Calls -> 1..N+1]  BY <1>1, <1>3 DEF IInv, TypeOK
<1>5. LoopInv'  BY <1>1, <1>2 DEF IInv, TypeOK, LoopInv
<1> QED  BY <1>1, <1>2, <1>4, <1>5 DEF IInv, TypeOK

(* Sending a body drains its buffer; what was drained before is sent over  *)
(* a connection that was kept.                                             *)
LEMMA SendInv ==
    ASSUME IInv, NEW r \in Calls, NEW got \in BOOLEAN, Send(r, got),
           kept \subseteq kept', kept' \subseteq kept \cup {host[r]}
    PROVE  /\ body' \in [Calls -> {"none", "full", "drained"}]
           /\ received' \in [Calls -> SUBSET BaseURLs]
           /\ kept' \subseteq BaseURLs
           /\ BodyInv'
<1>1. /\ body[r] = "drained" => host[r] \in kept
      /\ body' = [body EXCEPT ![r] = IF body[r] = "full" THEN "drained" ELSE body[r]]
  BY DEF Send
<1>2. /\ body' \in [Calls -> {"none", "full", "drained"}]
      /\ host[r] \in BaseURLs
  BY <1>1 DEF IInv, TypeOK
<1>3. ASSUME NEW s \in Calls PROVE \E n : received[s] \ kept' \subseteq {n}
  BY DEF IInv, BodyInv
<1>4. CASE got /\ body[r] # "none"
  <2>1. received' = [received EXCEPT ![r] = received[r] \cup {host[r]}]
    BY <1>4 DEF Send, Receives
  <2>2. received' \in [Calls -> SUBSET BaseURLs]  BY <1>2, <2>1 DEF IInv, TypeOK
  <2>3. \E n : received'[r] \ kept' \subseteq {n}
    <3>1. received'[r] = received[r] \cup {host[r]}  BY <2>1 DEF IInv, TypeOK
    <3>2. CASE body[r] = "full"
      <4>1. received[r] = {}  BY <3>2 DEF IInv, BodyInv
      <4>2. received'[r] \ kept' \subseteq {host[r]}  BY <3>1, <4>1
      <4> QED  BY <4>2
    <3>3. CASE body[r] = "drained"
      <4>1. received'[r] \ kept' \subseteq received[r] \ kept'  BY <1>1, <3>1, <3>3
      <4> QED  BY <1>3, <4>1
    <3> QED  BY <1>4, <3>2, <3>3 DEF IInv, TypeOK
  <2>4. body'[r] = "drained"  BY <1>1, <1>4 DEF IInv, TypeOK
  <2>5. \A s \in Calls \ {r} : body'[s] = body[s] /\ received'[s] = received[s]
    BY <1>1, <2>1 DEF IInv, TypeOK
  <2>6. BodyInv'
    <3> SUFFICES ASSUME NEW s \in Calls
                 PROVE  /\ body'[s] \in {"none", "full"} => received'[s] = {}
                        /\ \E n : received'[s] \ kept' \subseteq {n}
      BY DEF BodyInv
    <3>1. CASE s = r  BY <2>3, <2>4, <3>1
    <3>2. CASE s # r  BY <1>3, <2>5, <3>2 DEF IInv, BodyInv
    <3> QED  BY <3>1, <3>2
  <2> QED  BY <1>2, <2>2, <2>6 DEF IInv, TypeOK
<1>5. CASE ~(got /\ body[r] # "none")
  <2>1. received' = received  BY <1>5 DEF Send, Receives
  <2>2. ASSUME NEW s \in Calls, body'[s] \in {"none", "full"} PROVE received[s] = {}
    BY <1>1, <2>2 DEF IInv, TypeOK, BodyInv
  <2> QED  BY <1>2, <1>3, <2>1, <2>2 DEF IInv, TypeOK, BodyInv
<1> QED  BY <1>4, <1>5

(* Nodes join those of the kept connections only.                          *)
LEMMA KeepGrows ==
    ASSUME NEW r, MayKeep(r)
    PROVE  kept \subseteq kept' /\ kept' \subseteq kept \cup {host[r]}
BY DEF MayKeep

(* An attempt is recorded with its node.                                   *)
LEMMA AttemptType ==
    ASSUME TypeOK, NEW r \in Calls, NEW n \in BaseURLs, Attempt(r, n)
    PROVE  /\ host' \in [Calls -> BaseURLs]
           /\ tried' \in [Calls -> Seq(BaseURLs)]
           /\ pc' = [pc EXCEPT ![r] = "attempt"]
<1>1. Append(tried[r], n) \in Seq(BaseURLs)  BY DEF TypeOK
<1> QED  BY <1>1 DEF TypeOK, Attempt

(* Whatever goes wrong in the transport is one of the failures.            *)
LEMMA TransportErrorType == \A r : TransportError(r) \in Failures
BY DEF TransportError, Failures

(* A request that cannot be made.                                          *)
LEMMA RequestFailsInv ==
    ASSUME IInv, NEW r \in Calls, RequestFails(r)
    PROVE  IInv'
<1>1. TypeOK'  BY DEF IInv, TypeOK, RequestFails, Failures
<1>2. LoopInv' /\ BodyInv'  BY DEF IInv, TypeOK, LoopInv, BodyInv, RequestFails
<1> QED  BY <1>1, <1>2 DEF IInv

(* The first attempt.                                                      *)
LEMMA StartInv ==
    ASSUME IInv, NEW r \in Calls, Start(r)
    PROVE  IInv'
<1>1. /\ pc[r] = "idle" /\ Attempt(r, UsedBaseUrl)
      /\ UNCHANGED <<UsedBaseUrl, first, idx, body, received, kept, cancelled, result, moved>>
  BY DEF Start
<1>2. /\ host' \in [Calls -> BaseURLs] /\ tried' \in [Calls -> Seq(BaseURLs)]
      /\ pc' = [pc EXCEPT ![r] = "attempt"]
  BY <1>1, AttemptType DEF IInv, TypeOK
<1>3. TypeOK'  BY <1>1, <1>2 DEF IInv, TypeOK
<1>4. LoopInv' /\ BodyInv'  BY <1>1, <1>2 DEF IInv, TypeOK, LoopInv, BodyInv
<1> QED  BY <1>3, <1>4 DEF IInv

(* An attempt that sends nothing.                                          *)
LEMMA NotSentInv ==
    ASSUME IInv, NEW r \in Calls, NotSent(r)
    PROVE  IInv'
<1>1. /\ pc[r] = "attempt" /\ Fail(r, TransportError(r))
      /\ UNCHANGED <<UsedBaseUrl, host, body, received, kept, tried, cancelled, moved>>
  BY DEF NotSent
<1>2. TransportError(r) \in Failures  BY TransportErrorType
<1>3. /\ result' \in [Calls -> Successes \cup Failures \cup {"none"}]
      /\ first' \in [Calls -> BOOLEAN]
      /\ pc' \in [Calls -> {"idle", "attempt", "loop", "store", "uid", "done"}]
      /\ idx' \in [Calls -> 1..N+1]
      /\ LoopInv'
  BY <1>1, <1>2, FailType
<1>4. TypeOK' /\ BodyInv'  BY <1>1, <1>3 DEF IInv, TypeOK, BodyInv
<1> QED  BY <1>3, <1>4 DEF IInv

(* An attempt that sends the request and fails.                            *)
LEMMA SentAndFailedInv ==
    ASSUME IInv, NEW r \in Calls, pc[r] = "attempt", NEW got \in BOOLEAN, Send(r, got),
           NEW err \in Failures, Fail(r, err),
           kept \subseteq kept', kept' \subseteq kept \cup {host[r]},
           UNCHANGED <<UsedBaseUrl, host, tried, cancelled, moved>>
    PROVE  IInv'
<1>1. /\ result' \in [Calls -> Successes \cup Failures \cup {"none"}]
      /\ first' \in [Calls -> BOOLEAN]
      /\ pc' \in [Calls -> {"idle", "attempt", "loop", "store", "uid", "done"}]
      /\ idx' \in [Calls -> 1..N+1]
      /\ LoopInv'
  BY FailType
<1>2. /\ body' \in [Calls -> {"none", "full", "drained"}]
      /\ received' \in [Calls -> SUBSET BaseURLs]
      /\ kept' \subseteq BaseURLs
      /\ BodyInv'
  BY SendInv
<1>3. TypeOK'  BY <1>1, <1>2 DEF IInv, TypeOK
<1> QED  BY <1>1, <1>2, <1>3 DEF IInv

(* An attempt that succeeds.                                               *)
LEMMA AnsweredInv ==
    ASSUME IInv, NEW r \in Calls, NEW how \in Successes, Answered(r, how)
    PROVE  IInv'
<1>1. /\ pc[r] = "attempt" /\ Send(r, TRUE) /\ MayKeep(r)
      /\ result' = [result EXCEPT ![r] = how]
      /\ pc' = [pc EXCEPT ![r] = IF ~first[r] THEN "store"
                                 ELSE IF r \in Dialers THEN "uid" ELSE "done"]
      /\ UNCHANGED <<UsedBaseUrl, first, idx, host, tried, cancelled, moved>>
  BY DEF Answered
<1>2. /\ body' \in [Calls -> {"none", "full", "drained"}]
      /\ received' \in [Calls -> SUBSET BaseURLs]
      /\ kept' \subseteq BaseURLs
      /\ BodyInv'
  BY <1>1, KeepGrows, SendInv
<1>3. TypeOK'  BY <1>1, <1>2 DEF IInv, TypeOK
<1>4. LoopInv'  BY <1>1 DEF IInv, TypeOK, LoopInv
<1> QED  BY <1>2, <1>3, <1>4 DEF IInv

(* One round of the loop.                                                  *)
LEMMA LoopStepInv ==
    ASSUME IInv, NEW r \in Calls, Loop(r)
    PROVE  IInv'
<1>1. pc[r] = "loop" /\ UNCHANGED <<UsedBaseUrl, first, body, received, kept, cancelled, result, moved>>
  BY DEF Loop
<1>2. BodyInv'  BY <1>1 DEF IInv, BodyInv
<1>3. CASE idx[r] > N /\ pc' = [pc EXCEPT ![r] = "done"] /\ UNCHANGED <<idx, host, tried>>
  <2>1. TypeOK'  BY <1>1, <1>3 DEF IInv, TypeOK
  <2>2. LoopInv'  BY <1>1, <1>3 DEF IInv, TypeOK, LoopInv
  <2> QED  BY <1>2, <2>1, <2>2 DEF IInv
<1>4. CASE /\ idx[r] <= N /\ idx' = [idx EXCEPT ![r] = idx[r] + 1]
           /\ UNCHANGED <<pc, host, tried>>
  <2>1. idx[r] + 1 \in 1..N+1  BY <1>4, FailoverConstants DEF IInv, TypeOK
  <2>2. TypeOK'  BY <1>1, <1>4, <2>1 DEF IInv, TypeOK
  <2>3. LoopInv'  BY <1>1, <1>4 DEF IInv, TypeOK, LoopInv
  <2> QED  BY <1>2, <2>2, <2>3 DEF IInv
<1>5. CASE idx[r] <= N /\ Attempt(r, idx[r]) /\ UNCHANGED idx
  <2>1. idx[r] \in BaseURLs  BY <1>5, FailoverConstants DEF IInv, TypeOK, BaseURLs
  <2>2. /\ host' \in [Calls -> BaseURLs] /\ tried' \in [Calls -> Seq(BaseURLs)]
        /\ pc' = [pc EXCEPT ![r] = "attempt"]
    BY <1>5, <2>1, AttemptType DEF IInv
  <2>3. TypeOK'  BY <1>1, <1>5, <2>2 DEF IInv, TypeOK
  <2>4. LoopInv'  BY <1>1, <1>5, <2>2 DEF IInv, TypeOK, LoopInv
  <2> QED  BY <1>2, <2>3, <2>4 DEF IInv
<1> QED  BY <1>3, <1>4, <1>5 DEF Loop

(* Remembering the node, reading the uid and cancelling touch no buffer.   *)
LEMMA OtherStepsInv ==
    ASSUME IInv, NEW r \in Calls,
           Store(r) \/ Cancel(r) \/ \E ok \in BOOLEAN : ReadUid(r, ok)
    PROVE  IInv'
<1>1. CASE Store(r)
  <2>0. moved' \in [Calls -> BOOLEAN]
    <3>1. moved' = [s \in Calls |-> moved[s] \/ (s # r /\ Running(s) /\ host[r] # UsedBaseUrl)]
      BY <1>1 DEF Store, Moved
    <3>2. \A s \in Calls :
             (moved[s] \/ (s # r /\ Running(s) /\ host[r] # UsedBaseUrl)) \in BOOLEAN
      BY ZenonT(20)
    <3> QED  BY <3>1, <3>2
  <2>1. TypeOK'  BY <1>1, <2>0 DEF IInv, TypeOK, Store
  <2>2. LoopInv' /\ BodyInv'  BY <1>1 DEF IInv, TypeOK, LoopInv, BodyInv, Store
  <2> QED  BY <2>1, <2>2 DEF IInv
<1>2. CASE Cancel(r)
  <2>1. TypeOK'  BY <1>2 DEF IInv, TypeOK, Cancel
  <2>2. LoopInv' /\ BodyInv'  BY <1>2 DEF IInv, TypeOK, LoopInv, BodyInv, Cancel
  <2> QED  BY <2>1, <2>2 DEF IInv
<1>3. ASSUME NEW ok \in BOOLEAN, ReadUid(r, ok) PROVE IInv'
  <2>1. TypeOK'  BY <1>3 DEF IInv, TypeOK, ReadUid, Failures
  <2>2. LoopInv' /\ BodyInv'  BY <1>3 DEF IInv, TypeOK, LoopInv, BodyInv, ReadUid
  <2> QED  BY <2>1, <2>2 DEF IInv
<1> QED  BY <1>1, <1>2, <1>3

(* Every step of every call keeps the invariant.                           *)
LEMMA StepInv == IInv /\ [Next]_vars => IInv'
<1> SUFFICES ASSUME IInv, [Next]_vars PROVE IInv'  OBVIOUS
<1>1. ASSUME NEW r \in Calls, CallStep(r) PROVE IInv'
  <2>1. CASE Start(r)  BY <2>1, StartInv
  <2>2. CASE NotSent(r)  BY <2>2, NotSentInv
  <2>3. CASE Loop(r)  BY <2>3, LoopStepInv
  <2>4. CASE Store(r) \/ Cancel(r) \/ \E ok \in BOOLEAN : ReadUid(r, ok)
    BY <2>4, OtherStepsInv
  <2>5. ASSUME NEW got \in BOOLEAN, ResponseLost(r, got) PROVE IInv'
    <3>1. TransportError(r) \in Failures  BY TransportErrorType
    <3> QED  BY <2>5, <3>1, SentAndFailedInv DEF ResponseLost
  <2>6. ASSUME NEW err \in {"httpError", "decodeError"}, Refused(r, err) PROVE IInv'
    <3>1. err \in Failures  BY DEF Failures
    <3>2. MayKeep(r)  BY <2>6 DEF Refused
    <3> QED  BY <2>6, <3>1, <3>2, KeepGrows, SentAndFailedInv DEF Refused
  <2>7. ASSUME NEW how \in Successes, Answered(r, how) PROVE IInv'
    BY <2>7, AnsweredInv
  <2>8. (IF r \in Rest THEN Successes ELSE {"ok"}) \subseteq Successes  BY DEF Successes
  <2>9. CASE RequestFails(r)  BY <2>9, RequestFailsInv
  <2> QED  BY <1>1, <2>1, <2>2, <2>3, <2>4, <2>5, <2>6, <2>7, <2>8, <2>9 DEF CallStep
<1>2. CASE UNCHANGED vars  BY <1>2 DEF vars, IInv, TypeOK, LoopInv, BodyInv
<1> QED  BY <1>1, <1>2 DEF Next

(* Type correctness, for any number of nodes and calls.                    *)
THEOREM TypeCorrect == Spec => []TypeOK
<1>1. IInv => TypeOK  BY DEF IInv
<1> QED  BY InitInv, StepInv, <1>1, PTL DEF Spec

(* Without kept connections an announced transaction reaches one node at   *)
(* most: failing over hands the same body to a second node in full only    *)
(* over a connection kept from an earlier exchange.                        *)
THEOREM SecondNodeOnlyOverKept == Spec => []AnnouncedOnceUnlessKept
<1>1. ASSUME IInv PROVE AnnouncedOnceUnlessKept
  <2> SUFFICES ASSUME NEW r \in Calls PROVE Cardinality(received[r] \ kept) <= 1
    BY DEF AnnouncedOnceUnlessKept
  <2>1. PICK n : received[r] \ kept \subseteq {n}  BY <1>1 DEF IInv, BodyInv
  <2>2. received[r] \ kept = {} \/ received[r] \ kept = {n}  BY <2>1
  <2>3. Cardinality({}) = 0 /\ Cardinality({n}) = 1  BY FS_EmptySet, FS_Singleton
  <2> QED  BY <2>2, <2>3
<1> QED  BY InitInv, StepInv, <1>1, PTL DEF Spec

(***************************************************************************)
(* Failing over reaches every node.                                        *)
(***************************************************************************)

(* The call has tried the used node and those before position k, each once. *)
TriedBefore(r, k) ==
    /\ \A n \in BaseURLs :
          n < k \/ n = UsedBaseUrl => \E i \in 1..Len(tried[r]) : tried[r][i] = n
    /\ Len(tried[r]) = IF UsedBaseUrl < k THEN k - 1 ELSE k

(* The call has tried every node once.                                     *)
AllTried(r) ==
    /\ Len(tried[r]) = N
    /\ \A n \in BaseURLs : \E i \in 1..N : tried[r][i] = n

(* How far a call has come that no other call disturbed: the used node is  *)
(* still the one of its first attempt.                                     *)
Progress(r) ==
    /\ pc[r] = "attempt" /\ first[r] => TriedBefore(r, 1)
    /\ pc[r] = "attempt" /\ ~first[r] => idx[r] # UsedBaseUrl /\ TriedBefore(r, idx[r] + 1)
    /\ pc[r] = "loop" => TriedBefore(r, idx[r])
    /\ pc[r] = "done" /\ result[r] \in Failures \ {"uidError"} =>
          (result[r] # "urlError" /\ Len(tried[r]) \in {0, 1}) \/ AllTried(r)

Order(r) ==
    /\ pc[r] = "idle" => tried[r] = <<>>
    /\ pc[r] \in {"store", "uid"} => result[r] \in Successes
    /\ ~moved[r] => Progress(r)

OrderInv == \A r \in Calls : Order(r)

(* A step that leaves the call alone, and the used node unless it counts   *)
(* the call as disturbed, leaves its progress alone.                       *)
LEMMA OthersKeepOrder ==
    ASSUME NEW s, Order(s),
           pc'[s] = pc[s], first'[s] = first[s], idx'[s] = idx[s], tried'[s] = tried[s],
           result'[s] = result[s], ~moved'[s] => ~moved[s],
           ~moved'[s] /\ pc[s] \in {"attempt", "loop"} => UsedBaseUrl' = UsedBaseUrl
    PROVE  Order(s)'
<1>1. ASSUME ~moved'[s] PROVE Progress(s)'
  <2>1. Progress(s)  BY <1>1 DEF Order
  <2>2. CASE pc[s] \in {"attempt", "loop"}
    BY <1>1, <2>1, <2>2 DEF Progress, TriedBefore
  <2>3. CASE pc[s] \notin {"attempt", "loop"}
    BY <2>1, <2>3 DEF Progress, AllTried
  <2> QED  BY <2>2, <2>3
<1> QED  BY <1>1 DEF Order

(* The calls other than r when the used node stays.                        *)
LEMMA OneCallMoves ==
    ASSUME OrderInv, NEW r \in Calls, Order(r)', UNCHANGED <<UsedBaseUrl, moved>>,
           \A s \in Calls \ {r} : /\ pc'[s] = pc[s] /\ first'[s] = first[s]
                                  /\ idx'[s] = idx[s] /\ tried'[s] = tried[s]
                                  /\ result'[s] = result[s]
    PROVE  OrderInv'
<1>1. ASSUME NEW s \in Calls, s # r PROVE Order(s)'
  <2>1. Order(s)  BY DEF OrderInv
  <2>2. /\ pc'[s] = pc[s] /\ first'[s] = first[s] /\ idx'[s] = idx[s]
        /\ tried'[s] = tried[s] /\ result'[s] = result[s]
    BY <1>1
  <2> QED  BY <2>1, <2>2, OthersKeepOrder
<1> QED  BY <1>1 DEF OrderInv

(* An attempt to reach n adds n to the nodes tried.                        *)
LEMMA AttemptAdds ==
    ASSUME TypeOK, NEW r \in Calls, NEW n \in BaseURLs, Attempt(r, n)
    PROVE  /\ Len(tried'[r]) = Len(tried[r]) + 1
           /\ tried'[r][Len(tried[r]) + 1] = n
           /\ \A i \in 1..Len(tried[r]) : tried'[r][i] = tried[r][i]
           /\ Len(tried[r]) \in Nat
           /\ pc' = [pc EXCEPT ![r] = "attempt"]
           /\ \A s \in Calls \ {r} : tried'[s] = tried[s]
<1>1. tried'[r] = Append(tried[r], n)  BY DEF TypeOK, Attempt
<1>2. tried[r] \in Seq(BaseURLs)  BY DEF TypeOK
<1>3. \A s \in Calls \ {r} : tried'[s] = tried[s]  BY DEF TypeOK, Attempt
<1> QED  BY <1>1, <1>2, <1>3 DEF Attempt

(* The first attempt is at the used node.                                  *)
LEMMA StartOrder ==
    ASSUME IInv, OrderInv, NEW r \in Calls, Start(r)
    PROVE  OrderInv'
<1>1. /\ pc[r] = "idle" /\ Attempt(r, UsedBaseUrl)
      /\ UNCHANGED <<UsedBaseUrl, first, idx, body, received, kept, cancelled, result, moved>>
  BY DEF Start
<1>2. UsedBaseUrl \in BaseURLs  BY DEF IInv, TypeOK
<1>3. tried[r] = <<>> /\ first[r]  BY <1>1 DEF OrderInv, Order, IInv, LoopInv
<1>4. /\ Len(tried'[r]) = 1 /\ tried'[r][1] = UsedBaseUrl
      /\ pc' = [pc EXCEPT ![r] = "attempt"]
      /\ \A s \in Calls \ {r} : tried'[s] = tried[s]
  <2>1. Len(tried[r]) = 0  BY <1>3
  <2>2. TypeOK  BY DEF IInv
  <2>3. /\ Len(tried'[r]) = Len(tried[r]) + 1
        /\ tried'[r][Len(tried[r]) + 1] = UsedBaseUrl
        /\ pc' = [pc EXCEPT ![r] = "attempt"]
        /\ \A s \in Calls \ {r} : tried'[s] = tried[s]
    BY <1>1, <1>2, <2>2, AttemptAdds
  <2> QED  BY <2>1, <2>3
<1>5. pc'[r] = "attempt"  BY <1>4 DEF IInv, TypeOK
<1>6. TriedBefore(r, 1)'
  BY <1>1, <1>2, <1>4, FailoverConstants DEF TriedBefore, BaseURLs
<1>7. Order(r)'  BY <1>1, <1>3, <1>5, <1>6 DEF Order, Progress
<1> QED  BY <1>1, <1>4, <1>7, OneCallMoves DEF IInv, TypeOK

(* After a failure the loop begins, or goes on behind the node that        *)
(* failed.                                                                 *)
LEMMA FailOrder ==
    ASSUME IInv, OrderInv, NEW r \in Calls, pc[r] = "attempt", NEW err \in Failures,
           Fail(r, err), UNCHANGED <<UsedBaseUrl, tried, moved>>
    PROVE  OrderInv'
<1>1. /\ result' = [result EXCEPT ![r] = err]
      /\ first' = [first EXCEPT ![r] = FALSE]
  BY DEF Fail
<1>2. ASSUME ~moved[r] PROVE Progress(r)'
  <2>0. Progress(r)  BY <1>2 DEF OrderInv, Order
  <2>1. CASE first[r] /\ r \in Rest /\ err # "urlError"
    <3>1. pc'[r] = "done" /\ result'[r] = err  BY <1>1, <2>1 DEF Fail, IInv, TypeOK
    <3>2. Len(tried'[r]) = 1  BY <2>0, <2>1, FailoverConstants DEF Progress, TriedBefore, IInv,
       TypeOK, BaseURLs
    <3> QED  BY <2>1, <3>1, <3>2 DEF Progress
  <2>2. CASE ~(first[r] /\ r \in Rest /\ err # "urlError")
    <3>1. /\ pc'[r] = "loop"
          /\ idx'[r] = IF first[r] THEN 1 ELSE idx[r] + 1
      BY <2>2 DEF Fail, IInv, TypeOK
    <3>2. TriedBefore(r, IF first[r] THEN 1 ELSE idx[r] + 1)
      BY <2>0 DEF Progress
    <3>3. TriedBefore(r, idx[r])'  BY <3>1, <3>2 DEF TriedBefore
    <3> QED  BY <3>1, <3>3 DEF Progress
  <2> QED  BY <2>1, <2>2
<1>3. pc'[r] \in {"done", "loop"}  BY DEF Fail, IInv, TypeOK
<1>4. Order(r)'  BY <1>2, <1>3 DEF Order
<1>5. \A s \in Calls \ {r} : /\ pc'[s] = pc[s] /\ first'[s] = first[s]
                             /\ idx'[s] = idx[s] /\ result'[s] = result[s]
  BY <1>1 DEF Fail, IInv, TypeOK
<1> QED  BY <1>4, <1>5, OneCallMoves

(* A round of the loop skips the used node, which was tried first, tries   *)
(* the next one, or ends the call with nothing left to try.                *)
LEMMA LoopOrder ==
    ASSUME IInv, OrderInv, NEW r \in Calls, Loop(r)
    PROVE  OrderInv'
<1>1. pc[r] = "loop" /\ UNCHANGED <<UsedBaseUrl, first, body, received, kept, cancelled, result, moved>>
  BY DEF Loop
<1>2. ~moved[r] => TriedBefore(r, idx[r])  BY <1>1 DEF OrderInv, Order, Progress
<1>3. UsedBaseUrl \in BaseURLs /\ idx[r] \in 1..N+1  BY DEF IInv, TypeOK
<1>4. CASE idx[r] > N /\ pc' = [pc EXCEPT ![r] = "done"] /\ UNCHANGED <<idx, host, tried>>
  <2>1. pc'[r] = "done"  BY <1>4 DEF IInv, TypeOK
  <2>2. ~moved[r] => AllTried(r)
    BY <1>2, <1>3, <1>4, FailoverConstants, SMTT(30) DEF TriedBefore, AllTried, BaseURLs
  <2>3. ~moved[r] => AllTried(r)'  BY <2>2, <1>4 DEF AllTried
  <2>4. Order(r)'  BY <1>1, <2>1, <2>3 DEF Order, Progress
  <2> QED  BY <1>1, <1>4, <2>4, OneCallMoves DEF IInv, TypeOK
<1>5. CASE /\ idx[r] <= N /\ idx[r] = UsedBaseUrl
           /\ idx' = [idx EXCEPT ![r] = idx[r] + 1]
           /\ UNCHANGED <<pc, host, tried>>
  <2>1. idx'[r] = idx[r] + 1  BY <1>5 DEF IInv, TypeOK
  <2>2. ~moved[r] => TriedBefore(r, idx[r] + 1)
    BY <1>2, <1>3, <1>5, FailoverConstants DEF TriedBefore, BaseURLs
  <2>3. ~moved[r] => TriedBefore(r, idx[r])'  BY <1>1, <1>5, <2>1, <2>2 DEF TriedBefore
  <2>4. Order(r)'  BY <1>1, <1>5, <2>3 DEF Order, Progress
  <2> QED  BY <1>1, <1>5, <2>4, OneCallMoves DEF IInv, TypeOK
<1>6. CASE idx[r] <= N /\ idx[r] # UsedBaseUrl /\ Attempt(r, idx[r]) /\ UNCHANGED idx
  <2>1. idx[r] \in BaseURLs  BY <1>3, <1>6, FailoverConstants DEF BaseURLs
  <2>2. /\ Len(tried'[r]) = Len(tried[r]) + 1
        /\ tried'[r][Len(tried[r]) + 1] = idx[r]
        /\ \A i \in 1..Len(tried[r]) : tried'[r][i] = tried[r][i]
        /\ Len(tried[r]) \in Nat
        /\ pc' = [pc EXCEPT ![r] = "attempt"]
        /\ \A s \in Calls \ {r} : tried'[s] = tried[s]
    BY <1>6, <2>1, AttemptAdds DEF IInv
  <2>3. pc'[r] = "attempt"  BY <2>2 DEF IInv, TypeOK
  <2>4. ASSUME ~moved[r] PROVE TriedBefore(r, idx[r] + 1)'
    <3>1. Len(tried'[r]) = IF UsedBaseUrl < idx[r] + 1 THEN idx[r] ELSE idx[r] + 1
      BY <1>2, <1>3, <1>6, <2>1, <2>2, <2>4 DEF TriedBefore, BaseURLs
    <3>2. ASSUME NEW n \in BaseURLs, n < idx[r] + 1 \/ n = UsedBaseUrl
          PROVE  \E i \in 1..Len(tried'[r]) : tried'[r][i] = n
      <4>1. CASE n = idx[r]  BY <2>2, <4>1
      <4>2. CASE n # idx[r]
        <5>1. n < idx[r] \/ n = UsedBaseUrl  BY <1>3, <3>2, <4>2 DEF BaseURLs
        <5>2. PICK i \in 1..Len(tried[r]) : tried[r][i] = n
          BY <1>2, <2>4, <5>1 DEF TriedBefore
        <5> QED  BY <2>2, <5>2
      <4> QED  BY <4>1, <4>2
    <3> QED  BY <1>1, <1>3, <1>6, <3>1, <3>2 DEF TriedBefore
  <2>5. ~first[r] => Order(r)'
    BY <1>1, <1>6, <2>3, <2>4 DEF Order, Progress, TriedBefore
  <2>6. ~first[r]  BY <1>1 DEF IInv, LoopInv
  <2> QED  BY <1>1, <1>6, <2>2, <2>5, <2>6, OneCallMoves DEF IInv, TypeOK
<1> QED  BY <1>1, <1>4, <1>5, <1>6 DEF Loop

(* An answer leaves the call without an error for now; the other calls see *)
(* nothing of it.                                                          *)
LEMMA AnsweredOrder ==
    ASSUME IInv, OrderInv, NEW r \in Calls, NEW how \in Successes, Answered(r, how)
    PROVE  OrderInv'
<1>1. /\ result' = [result EXCEPT ![r] = how]
      /\ pc' = [pc EXCEPT ![r] = IF ~first[r] THEN "store"
                                 ELSE IF r \in Dialers THEN "uid" ELSE "done"]
      /\ UNCHANGED <<UsedBaseUrl, first, idx, host, tried, cancelled, moved>>
  BY DEF Answered
<1>2. pc'[r] \in {"store", "uid", "done"} /\ result'[r] = how  BY <1>1 DEF IInv, TypeOK
<1>3. how \notin Failures  BY DEF Successes, Failures
<1>4. Order(r)'  BY <1>2, <1>3 DEF Order, Progress
<1> QED  BY <1>1, <1>4, OneCallMoves DEF IInv, TypeOK

(* Storing another node disturbs the calls under way, which is recorded.   *)
LEMMA StoreOrder ==
    ASSUME IInv, OrderInv, NEW r \in Calls, Store(r)
    PROVE  OrderInv'
<1>1. /\ pc[r] = "store" /\ UsedBaseUrl' = host[r]
      /\ moved' = [s \in Calls |-> moved[s] \/ (s # r /\ Running(s) /\ host[r] # UsedBaseUrl)]
      /\ pc' = [pc EXCEPT ![r] = IF r \in Dialers THEN "uid" ELSE "done"]
      /\ UNCHANGED <<first, idx, tried, result>>
  BY DEF Store, Moved
<1>2. ASSUME NEW s \in Calls, s # r PROVE Order(s)'
  <2>1. Order(s) /\ pc'[s] = pc[s]  BY <1>1, <1>2 DEF OrderInv, IInv, TypeOK
  <2>2. ~moved'[s] => ~moved[s] /\ (Running(s) => host[r] = UsedBaseUrl)
    BY <1>1, <1>2, Zenon
  <2>3. ~moved'[s] /\ pc[s] \in {"attempt", "loop"} => UsedBaseUrl' = UsedBaseUrl
    BY <1>1, <2>2 DEF Running
  <2> QED  BY <1>1, <2>1, <2>2, <2>3, OthersKeepOrder
<1>3. Order(r)'
  <2>1. pc'[r] \in {"uid", "done"}  BY <1>1 DEF IInv, TypeOK
  <2>2. result'[r] \in Successes  BY <1>1 DEF OrderInv, Order
  <2>3. Successes \cap Failures = {}  BY DEF Successes, Failures
  <2> QED  BY <2>1, <2>2, <2>3 DEF Order, Progress
<1> QED  BY <1>2, <1>3 DEF OrderInv

(* The uid is read after the call has reached a node; cancelling a context *)
(* changes nothing that is tried.                                          *)
LEMMA OtherStepsOrder ==
    ASSUME IInv, OrderInv, NEW r \in Calls,
           Cancel(r) \/ \E ok \in BOOLEAN : ReadUid(r, ok)
    PROVE  OrderInv'
<1>1. CASE Cancel(r)
  <2>1. UNCHANGED <<UsedBaseUrl, pc, first, idx, tried, result, moved>>  BY <1>1 DEF Cancel
  <2> QED  BY <2>1, OthersKeepOrder DEF OrderInv
<1>2. ASSUME NEW ok \in BOOLEAN, ReadUid(r, ok) PROVE OrderInv'
  <2>1. /\ pc[r] = "uid" /\ pc' = [pc EXCEPT ![r] = "done"]
        /\ result' = [result EXCEPT ![r] = IF ok THEN result[r] ELSE "uidError"]
        /\ UNCHANGED <<UsedBaseUrl, first, idx, tried, moved>>
    BY <1>2 DEF ReadUid
  <2>2. result[r] \in Successes  BY <2>1 DEF OrderInv, Order
  <2>3. pc'[r] = "done" /\ result'[r] \in Successes \cup {"uidError"}
    BY <2>1, <2>2 DEF IInv, TypeOK
  <2>4. Order(r)'  BY <2>3 DEF Order, Progress, Successes, Failures
  <2> QED  BY <2>1, <2>4, OneCallMoves DEF IInv, TypeOK
<1> QED  BY <1>1, <1>2

(* A request that cannot be made is tried nowhere.                         *)
LEMMA RequestFailsOrder ==
    ASSUME IInv, OrderInv, NEW r \in Calls, RequestFails(r)
    PROVE  OrderInv'
<1>1. /\ pc[r] = "idle" /\ pc' = [pc EXCEPT ![r] = "done"]
      /\ result' = [result EXCEPT ![r] = "requestError"]
      /\ UNCHANGED <<UsedBaseUrl, first, idx, tried, moved>>
  BY DEF RequestFails
<1>2. pc'[r] = "done" /\ result'[r] = "requestError"  BY <1>1 DEF IInv, TypeOK
<1>3. Len(tried'[r]) = 0  BY <1>1 DEF OrderInv, Order
<1>4. Order(r)'  BY <1>2, <1>3 DEF Order, Progress
<1> QED  BY <1>1, <1>4, OneCallMoves DEF IInv, TypeOK

(* Every step of every call keeps the order.                               *)
LEMMA StepOrder == IInv /\ OrderInv /\ [Next]_vars => OrderInv'
<1> SUFFICES ASSUME IInv, OrderInv, [Next]_vars PROVE OrderInv'  OBVIOUS
<1>1. ASSUME NEW r \in Calls, CallStep(r) PROVE OrderInv'
  <2>1. CASE Start(r)  BY <2>1, StartOrder
  <2>2. CASE NotSent(r)
    <3>1. TransportError(r) \in Failures  BY TransportErrorType
    <3> QED  BY <2>2, <3>1, FailOrder DEF NotSent
  <2>3. CASE Loop(r)  BY <2>3, LoopOrder
  <2>4. CASE Store(r)  BY <2>4, StoreOrder
  <2>5. CASE Cancel(r) \/ \E ok \in BOOLEAN : ReadUid(r, ok)  BY <2>5, OtherStepsOrder
  <2>6. ASSUME NEW got \in BOOLEAN, ResponseLost(r, got) PROVE OrderInv'
    <3>1. TransportError(r) \in Failures  BY TransportErrorType
    <3> QED  BY <2>6, <3>1, FailOrder DEF ResponseLost
  <2>7. ASSUME NEW err \in {"httpError", "decodeError"}, Refused(r, err) PROVE OrderInv'
    <3>1. err \in Failures  BY DEF Failures
    <3> QED  BY <2>7, <3>1, FailOrder DEF Refused
  <2>8. ASSUME NEW how \in Successes, Answered(r, how) PROVE OrderInv'
    BY <2>8, AnsweredOrder
  <2>9. (IF r \in Rest THEN Successes ELSE {"ok"}) \subseteq Successes  BY DEF Successes
  <2>10. CASE RequestFails(r)  BY <2>10, RequestFailsOrder
  <2> QED
    BY <1>1, <2>1, <2>2, <2>3, <2>4, <2>5, <2>6, <2>7, <2>8, <2>9, <2>10 DEF CallStep
<1>2. CASE UNCHANGED vars  BY <1>2, OthersKeepOrder DEF vars, OrderInv
<1> QED  BY <1>1, <1>2 DEF Next

(* For any number of nodes and of concurrent calls, a call that failed over *)
(* and failed has tried every configured node exactly once, unless another *)
(* call stored another used node meanwhile.                                *)
THEOREM FailureAfterAllTried == Spec => []FailureMeansAllTried
<1>1. Init => OrderInv
  BY DEF Init, OrderInv, Order, Progress, Successes, Failures
<1>2. ASSUME IInv, OrderInv PROVE FailureMeansAllTried
  <2> SUFFICES ASSUME NEW r \in Calls, pc[r] = "done", ~moved[r],
                      result[r] \in Failures \ {"uidError"},
                      result[r] = "urlError" \/ Len(tried[r]) > 1
      PROVE  AllTried(r)
    BY DEF FailureMeansAllTried, AllTried
  <2>1. Progress(r)  BY <1>2 DEF OrderInv, Order
  <2>2. (result[r] # "urlError" /\ Len(tried[r]) \in {0, 1}) \/ AllTried(r)
    BY <2>1, Zenon DEF Progress
  <2>3. \A n \in {0, 1} : ~(n > 1)  OBVIOUS
  <2> QED  BY <2>2, <2>3, Zenon
<1> QED  BY InitInv, StepInv, StepOrder, <1>1, <1>2, PTL DEF Spec

=============================================================================

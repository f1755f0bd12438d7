---------------------------- MODULE NodeFailover ----------------------------
(***************************************************************************)
(* Choosing a node: the REST client's doNewRequest and do (sdk/sdk.go) and *)
(* the websocket's connect (sdk/websocket/client.go), which fail over      *)
(* between the configured nodes and share Config.UsedBaseUrl without a     *)
(* lock.                                                                   *)
(*                                                                         *)
(* A node is its index in Config.BaseURLs.  What an attempt meets is an    *)
(* environment choice: the node cannot be reached, the exchange breaks     *)
(* with the request already sent, or the node answers.  A request body is  *)
(* a buffer that the first attempt to send it drains.  A later attempt     *)
(* misses the announced content length before anything is written: on a    *)
(* connection of its own it fails, on one that was kept from an earlier    *)
(* exchange the transport rewinds the body (Request.GetBody, which         *)
(* http.NewRequest sets for a bytes.Buffer) and sends it whole.            *)
(***************************************************************************)
EXTENDS Naturals, Sequences, FiniteSets

CONSTANTS
    N,        \* number of configured nodes
    Rest,     \* calls of doNewRequest
    Bodies,   \* those that carry a body
    Dialers   \* calls of connect

ASSUME FailoverConstants ==
    /\ N \in Nat \ {0}
    /\ Bodies \subseteq Rest
    /\ Rest \cap Dialers = {}

VARIABLES
    UsedBaseUrl,
    pc,         \* control of each call
    first,      \* is it in its first attempt?
    idx,        \* position of its loop over BaseURLs
    host,       \* node of its current attempt
    body,       \* state of its buffer
    received,   \* nodes that received its body in full
    kept,       \* nodes to which the http.Client may have kept a connection
    tried,      \* nodes it attempted, in order
    cancelled,  \* is its context cancelled?
    result,     \* its latest error, or how it succeeded
    moved       \* history: did another call change the used node under it?

vars == <<UsedBaseUrl, pc, first, idx, host, body, received, kept, tried, cancelled, result, moved>>

Calls == Rest \cup Dialers
BaseURLs == 1..N

Successes == {"ok", "oddStatus"}
Failures ==
    {"requestError", "urlError", "ctxError", "httpError", "decodeError", "uidError"}

TypeOK ==
    /\ UsedBaseUrl \in BaseURLs
    /\ pc \in [Calls -> {"idle", "attempt", "loop", "store", "uid", "done"}]
    /\ first \in [Calls -> BOOLEAN]
    /\ idx \in [Calls -> 1..N+1]
    /\ host \in [Calls -> BaseURLs]
    /\ body \in [Calls -> {"none", "full", "drained"}]
    /\ received \in [Calls -> SUBSET BaseURLs]
    /\ kept \subseteq BaseURLs
    /\ tried \in [Calls -> Seq(BaseURLs)]
    /\ cancelled \in [Calls -> BOOLEAN]
    /\ result \in [Calls -> Successes \cup Failures \cup {"none"}]
    /\ moved \in [Calls -> BOOLEAN]

(* NewConfigWithReputation: the first url is the used one.  No connection  *)
(* has been made.                                                          *)
Init ==
    /\ UsedBaseUrl = 1
    /\ pc = [r \in Calls |-> "idle"]
    /\ first = [r \in Calls |-> TRUE]
    /\ idx = [r \in Calls |-> 1]
    /\ host = [r \in Calls |-> 1]
    /\ body = [r \in Calls |-> IF r \in Bodies THEN "full" ELSE "none"]
    /\ received = [r \in Calls |-> {}]
    /\ kept = {}
    /\ tried = [r \in Calls |-> <<>>]
    /\ cancelled = [r \in Calls |-> FALSE]
    /\ result = [r \in Calls |-> "none"]
    /\ moved = [r \in Calls |-> FALSE]

Attempt(r, n) ==
    /\ host' = [host EXCEPT ![r] = n]
    /\ tried' = [tried EXCEPT ![r] = Append(@, n)]
    /\ pc' = [pc EXCEPT ![r] = "attempt"]

(* The first attempt of a REST call fails over on a *url.Error only; the   *)
(* first of connect, and every later one, go on after any error.           *)
Fail(r, err) ==
    /\ result' = [result EXCEPT ![r] = err]
    /\ first' = [first EXCEPT ![r] = FALSE]
    /\ IF first[r] /\ r \in Rest /\ err # "urlError"
       THEN pc' = [pc EXCEPT ![r] = "done"] /\ UNCHANGED idx
       ELSE /\ pc' = [pc EXCEPT ![r] = "loop"]
            /\ idx' = [idx EXCEPT ![r] = IF first[r] THEN 1 ELSE @ + 1]

(* do: the context's error replaces the transport's when it is cancelled.  *)
TransportError(r) == IF cancelled[r] /\ r \in Rest THEN "ctxError" ELSE "urlError"

(* newRequest does not make a request of the path or of the body.          *)
RequestFails(r) ==
    /\ pc[r] = "idle" /\ r \in Rest
    /\ result' = [result EXCEPT ![r] = "requestError"]
    /\ pc' = [pc EXCEPT ![r] = "done"]
    /\ UNCHANGED <<UsedBaseUrl, first, idx, host, body, received, kept, tried, cancelled, moved>>

(* newRequest, or the first Dial: the used node.                           *)
Start(r) ==
    /\ pc[r] = "idle"
    /\ Attempt(r, UsedBaseUrl)
    /\ UNCHANGED <<UsedBaseUrl, first, idx, body, received, kept, cancelled, result, moved>>

(* The node is not reached, or not sent a body that was drained before.    *)
NotSent(r) ==
    /\ pc[r] = "attempt"
    /\ Fail(r, TransportError(r))
    /\ UNCHANGED <<UsedBaseUrl, host, body, received, kept, tried, cancelled, moved>>

(* What the node of the attempt has got then.                              *)
Receives(r, got) ==
    received' = IF got /\ body[r] # "none"
                THEN [received EXCEPT ![r] = @ \cup {host[r]}] ELSE received

(* Mutant: every attempt is a new request, with the body from its          *)
(* beginning.                                                              *)
SendAgain(r, got) == UNCHANGED body /\ Receives(r, got)

(* Sending drains the buffer, and a drained one is sent over a connection  *)
(* that was kept; the node may have the body in full (got).                *)
Send(r, got) ==
    /\ body[r] = "drained" => host[r] \in kept
    /\ body' = [body EXCEPT ![r] = IF @ = "full" THEN "drained" ELSE @]
    /\ Receives(r, got)

(* The connection of a REST call that was answered may be kept.            *)
MayKeep(r) == kept' \in {kept} \cup {kept \cup {host[r]} : s \in {r} \cap Rest}

(* The exchange breaks after the request was sent, wholly or in part.      *)
ResponseLost(r, got) ==
    /\ pc[r] = "attempt" /\ r \in Rest
    /\ Send(r, got)
    /\ Fail(r, TransportError(r))
    /\ UNCHANGED <<UsedBaseUrl, host, kept, tried, cancelled, moved>>

(* The node answers with a status do refuses, or with a body it cannot     *)
(* decode.                                                                 *)
Refused(r, err) ==
    /\ pc[r] = "attempt" /\ r \in Rest
    /\ Send(r, TRUE) /\ MayKeep(r)
    /\ Fail(r, err)
    /\ UNCHANGED <<UsedBaseUrl, host, tried, cancelled, moved>>

(* The node answers; a status other than 200 and 202 is an error that the  *)
(* service reports (handleResponseStatusCode) after doNewRequest is done.  *)
Answered(r, how) ==
    /\ pc[r] = "attempt"
    /\ Send(r, TRUE) /\ MayKeep(r)
    /\ result' = [result EXCEPT ![r] = how]
    /\ pc' = [pc EXCEPT ![r] = IF ~first[r] THEN "store"
                               ELSE IF r \in Dialers THEN "uid" ELSE "done"]
    /\ UNCHANGED <<UsedBaseUrl, first, idx, host, tried, cancelled, moved>>

(* Mutant: the loop takes up where the used node stands in the list.       *)
LoopAfterUsed(r) ==
    /\ pc[r] = "loop"
    /\ LET later == {n \in BaseURLs : n >= idx[r] /\ n > UsedBaseUrl} IN
       IF later = {}
       THEN pc' = [pc EXCEPT ![r] = "done"] /\ UNCHANGED <<idx, host, tried>>
       ELSE LET n == CHOOSE k \in later : \A j \in later : k <= j IN
            Attempt(r, n) /\ idx' = [idx EXCEPT ![r] = n]
    /\ UNCHANGED <<UsedBaseUrl, first, body, received, kept, cancelled, result, moved>>

(* One round of the loop over BaseURLs: skips what is the used node now;   *)
(* after the last url the latest error is returned.                        *)
Loop(r) ==
    /\ pc[r] = "loop"
    /\ \/ /\ idx[r] > N
          /\ pc' = [pc EXCEPT ![r] = "done"]
          /\ UNCHANGED <<idx, host, tried>>
       \/ /\ idx[r] <= N /\ idx[r] = UsedBaseUrl
          /\ idx' = [idx EXCEPT ![r] = @ + 1]
          /\ UNCHANGED <<pc, host, tried>>
       \/ /\ idx[r] <= N /\ idx[r] # UsedBaseUrl
          /\ Attempt(r, idx[r])
          /\ UNCHANGED idx
    /\ UNCHANGED <<UsedBaseUrl, first, body, received, kept, cancelled, result, moved>>

Running(r) == pc[r] \notin {"idle", "done"}

(* The calls under way when another one makes n the used node.             *)
Moved(r, n) ==
    moved' = [s \in Calls |-> moved[s] \/ (s # r /\ Running(s) /\ n # UsedBaseUrl)]

(* Mutant: the loop's next position is stored for the node.                *)
StorePosition(r) ==
    /\ pc[r] = "store"
    /\ UsedBaseUrl' = idx[r] + 1
    /\ Moved(r, idx[r] + 1)
    /\ pc' = [pc EXCEPT ![r] = IF r \in Dialers THEN "uid" ELSE "done"]
    /\ UNCHANGED <<first, idx, host, body, received, kept, tried, cancelled, result>>

Store(r) ==
    /\ pc[r] = "store"
    /\ UsedBaseUrl' = host[r]
    /\ Moved(r, host[r])
    /\ pc' = [pc EXCEPT ![r] = IF r \in Dialers THEN "uid" ELSE "done"]
    /\ UNCHANGED <<first, idx, host, body, received, kept, tried, cancelled, result>>

(* connect reads the uid from the node it reached.                         *)
ReadUid(r, ok) ==
    /\ pc[r] = "uid"
    /\ pc' = [pc EXCEPT ![r] = "done"]
    /\ result' = [result EXCEPT ![r] = IF ok THEN @ ELSE "uidError"]
    /\ UNCHANGED <<UsedBaseUrl, first, idx, host, body, received, kept, tried, cancelled, moved>>

(* The caller cancels its context, or the deadline passes.                 *)
Cancel(r) ==
    /\ r \in Rest /\ Running(r) /\ ~cancelled[r]
    /\ cancelled' = [cancelled EXCEPT ![r] = TRUE]
    /\ UNCHANGED <<UsedBaseUrl, pc, first, idx, host, body, received, kept, tried, result, moved>>

CallStep(r) ==
    \/ RequestFails(r) \/ Start(r) \/ NotSent(r) \/ Loop(r) \/ Store(r) \/ Cancel(r)
    \/ \E got \in BOOLEAN : ResponseLost(r, got)
    \/ \E err \in {"httpError", "decodeError"} : Refused(r, err)
    \/ \E how \in IF r \in Rest THEN Successes ELSE {"ok"} : Answered(r, how)
    \/ \E ok \in BOOLEAN : ReadUid(r, ok)

Next == \E r \in Calls : CallStep(r)

Spec == Init /\ [][Next]_vars

(***************************************************************************)
(* Properties.                                                             *)
(***************************************************************************)

(* doNewRequest sends one request to node after node (sdk.go:221), also    *)
(* when the first has received it and only its answer was lost.  Of the    *)
(* nodes that have received the body of a call in full all but one were    *)
(* reached over connections kept from earlier exchanges: without those a   *)
(* transaction is announced to one node at most.                           *)
AnnouncedOnceUnlessKept == \A r \in Calls : Cardinality(received[r] \ kept) <= 1

(* A call that failed over and failed has tried every node once, whatever  *)
(* the other calls did meanwhile, unless one of them stored another used   *)
(* node while the call was under way: the loop skips the used node of the  *)
(* moment, which is then not the one of the first attempt.                 *)
FailureMeansAllTried ==
    \A r \in Calls :
        /\ pc[r] = "done" /\ ~moved[r]
        /\ result[r] \in Failures \ {"uidError"}
        /\ result[r] = "urlError" \/ Len(tried[r]) > 1
        => /\ Len(tried[r]) = N
           /\ \A n \in BaseURLs : \E i \in 1..N : tried[r][i] = n

(* A context carries "deadlines, cancelation signals" (README.md:42): once *)
(* it is cancelled the call makes no further attempt.                      *)
NoAttemptAfterCancel ==
    [][\A r \in Calls : cancelled[r] => Len(tried'[r]) = Len(tried[r])]_vars

=============================================================================

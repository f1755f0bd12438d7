------------------------------ MODULE WsClient ------------------------------
(***************************************************************************)
(* The subscription side of the websocket client (sdk/websocket): the      *)
(* AddXHandlers calls, the publisher, the router, the eight handlers and   *)
(* their handler storages, and reconnect.                                  *)
(*                                                                         *)
(* A topic is what a subscribe message names: "block", or a channel and an *)
(* address.  The seven address storages are copies of one another, so one  *)
(* function `subs' from topics to sets of handlers stands for all of them; *)
(* the block storage differs where it says so.  A handler is the pointer   *)
(* &handlers[i] the storage uses as its key: fresh in every call.          *)
(*                                                                         *)
(* Goroutines: callers of AddXHandlers, one goroutine per routed message   *)
(* (with one child per handler function it calls), and the reader, which   *)
(* reconnects.  A step ends where another goroutine can intervene: every   *)
(* critical section of a mutex is one step, every unsynchronised read of   *)
(* shared state is one step.                                               *)
(*                                                                         *)
(* The Go maps behind topicHandlers, GetHandlers and GetAddresses are read *)
(* without the lock that protects their writers.  The runtime may detect   *)
(* the race and abort the process, or not notice it: a write is a          *)
(* nondeterministic choice of the two whenever another goroutine stands at *)
(* an unsynchronised read of the same map.                                 *)
(***************************************************************************)
EXTENDS Naturals, Sequences, FiniteSets

CONSTANTS
    Channels,      \* the message kinds: "block", "confirmedAdded", ...
    BlockChannel,  \* the one channel without addresses
    Topics,        \* what can be subscribed to
    ChannelOf,     \* the channel of each topic
    ResubOrder,    \* the channels in the order reconnect visits them
    Handlers,      \* handler pointers; each is used by one call
    Callers,       \* goroutines that call AddXHandlers
    Messages,      \* goroutines that route a message
    MaxConns,      \* bound: connections the client opens
    NoTopic

ASSUME WsConstants ==
    /\ BlockChannel \in Channels
    /\ ChannelOf \in [Topics -> Channels]
    /\ ResubOrder \in Seq(Channels)
    /\ MaxConns \in Nat \ {0}
    /\ NoTopic \notin Topics

(* Reconnect visits every storage.                                         *)
ASSUME ResubscribesAll ==
    \A t \in Topics : \E i \in 1..Len(ResubOrder) : ResubOrder[i] = ChannelOf[t]

VARIABLES
    topicHandlers, \* channels that have a TopicHandler
    subs,          \* the handlers stored for each topic
    entries,       \* topics with a key in the storage's map
    allocated,     \* handler pointers already used
    cpc, ctopic, chs, cuid,  \* callers: control, topic, handlers, uid read
    mpc, mtopic,   \* messages: control and topic
    minit,         \* messages: handlers stored when the loop began
    mspawned,      \* messages: handlers whose goroutine was started
    mcalling,      \* messages: handlers whose function is running
    mremoving,     \* messages: handlers that asked to be removed
    mchecking,     \* messages: removals whose error is not yet examined
    muid,          \* messages: the uid read by the router
    rpc, rchans, rtopics,  \* reader: control, channels left, topics left
    clientUid,     \* CatapultWebsocketClientImpl.UID
    routerUid,     \* messageRouter.uid
    pubConn,       \* the connection the publisher writes to
    nconn,         \* connections opened so far
    up,            \* is the newest connection alive?
    wire,          \* frames sent on the newest connection, not yet received
    serverSubs,    \* the server's subscriptions of the newest connection
    fault          \* why the process died, or "none"

storageVars == <<topicHandlers, subs, entries, allocated>>
callerVars  == <<cpc, ctopic, chs, cuid>>
messageVars == <<mpc, mtopic, minit, mspawned, mcalling, mremoving, mchecking,
                 muid>>
readerVars  == <<rpc, rchans, rtopics, clientUid, routerUid, pubConn>>
netVars     == <<nconn, up, wire, serverSubs>>
vars == <<storageVars, callerVars, messageVars, readerVars, netVars, fault>>

Faults == {"none", "mapRace", "handlersNotFound", "unsupported", "unsubscribe"}

Frame == [op : {"subscribe", "unsubscribe"}, topic : Topics, uid : 1..MaxConns]

StorageType ==
    /\ topicHandlers \in SUBSET Channels
    /\ subs \in [Topics -> SUBSET Handlers]
    /\ entries \in SUBSET Topics
    /\ allocated \in SUBSET Handlers

CallersType ==
    /\ cpc \in [Callers -> {"idle", "has", "register", "check", "uid", "publish", "add"}]
    /\ ctopic \in [Callers -> Topics \cup {NoTopic}]
    /\ chs \in [Callers -> SUBSET Handlers]
    /\ cuid \in [Callers -> 1..MaxConns]

RoutesType ==
    /\ mpc \in [Messages -> {"idle", "lookup", "get", "range", "wait", "uid", "publish"}]
    /\ mtopic \in [Messages -> Topics \cup {NoTopic}]
    /\ minit \in [Messages -> SUBSET Handlers]
    /\ mspawned \in [Messages -> SUBSET Handlers]
    /\ mcalling \in [Messages -> SUBSET Handlers]
    /\ mremoving \in [Messages -> SUBSET Handlers]
    /\ mchecking \in [Messages -> SUBSET [handler : Handlers, ok : BOOLEAN]]
    /\ muid \in [Messages -> 1..MaxConns]

ReaderType ==
    /\ rpc \in {"read", "tick", "setConn", "setUid", "resubscribe"}
    /\ rchans \in Seq(Channels)
    /\ rtopics \in SUBSET Topics
    /\ clientUid \in 1..MaxConns
    /\ routerUid \in 1..MaxConns
    /\ pubConn \in 1..MaxConns

NetType ==
    /\ nconn \in 1..MaxConns
    /\ up \in BOOLEAN
    /\ wire \in Seq(Frame)
    /\ serverSubs \in SUBSET Topics

TypeOK ==
    /\ StorageType /\ CallersType /\ RoutesType /\ ReaderType /\ NetType
    /\ fault \in Faults

(* NewClient: connected, uid received, empty storages, no topic handler.   *)
Init ==
    /\ topicHandlers = {}
    /\ subs = [t \in Topics |-> {}]
    /\ entries = {}
    /\ allocated = {}
    /\ cpc = [c \in Callers |-> "idle"]
    /\ ctopic = [c \in Callers |-> NoTopic]
    /\ chs = [c \in Callers |-> {}]
    /\ cuid = [c \in Callers |-> 1]
    /\ mpc = [m \in Messages |-> "idle"]
    /\ mtopic = [m \in Messages |-> NoTopic]
    /\ minit = [m \in Messages |-> {}]
    /\ mspawned = [m \in Messages |-> {}]
    /\ mcalling = [m \in Messages |-> {}]
    /\ mremoving = [m \in Messages |-> {}]
    /\ mchecking = [m \in Messages |-> {}]
    /\ muid = [m \in Messages |-> 1]
    /\ rpc = "read"
    /\ rchans = <<>>
    /\ rtopics = {}
    /\ clientUid = 1
    /\ routerUid = 1
    /\ pubConn = 1
    /\ nconn = 1
    /\ up = TRUE
    /\ wire = <<>>
    /\ serverSubs = {}
    /\ fault = "none"

(***************************************************************************)
(* The handler storages (sdk/websocket/subscribers).                       *)
(***************************************************************************)
IsBlock(t) == ChannelOf[t] = BlockChannel

HasHandlers(t) == subs[t] # {}

AddHandlers(t, hs) ==
    /\ subs' = [subs EXCEPT ![t] = @ \cup hs]
    /\ entries' = entries \cup {t}

(* An address storage with no handler left refuses; the block one never.   *)
RemoveFails(t) == ~IsBlock(t) /\ subs[t] = {}

(* Mutant: the key goes with its last handler.                             *)
RemoveHandlersAndKey(t, h) ==
    /\ subs' = IF subs[t] = {h} THEN [u \in DOMAIN subs \ {t} |-> subs[u]]
               ELSE [subs EXCEPT ![t] = @ \ {h}]
    /\ UNCHANGED entries

(* The key stays in the map when its last handler goes.                    *)
RemoveHandlers(t, h) ==
    /\ subs' = [subs EXCEPT ![t] = @ \ {h}]
    /\ UNCHANGED entries

(* What reconnect subscribes to again on a channel: the keys of an address *)
(* storage, the block topic when it has a handler.                         *)
GetAddresses(ch) ==
    {t \in Topics : /\ ChannelOf[t] = ch
                    /\ IF ch = BlockChannel THEN HasHandlers(t) ELSE t \in entries}

(***************************************************************************)
(* The publisher: WriteJSON under the mutex.  A frame for the newest       *)
(* connection is put on the wire while it is alive; on a connection that   *)
(* is gone the write fails, or is swallowed by the socket buffer.          *)
(***************************************************************************)
WriteOk(op, t, uid) ==
    IF up /\ pubConn = nconn
    THEN wire' = Append(wire, [op |-> op, topic |-> t, uid |-> uid])
    ELSE UNCHANGED wire

WriteMayFail == ~up \/ pubConn # nconn

(***************************************************************************)
(* Unsynchronised readers of the maps.                                     *)
(***************************************************************************)
ReadingTopicHandlers ==
    \E m \in Messages : mpc[m] = "lookup"

(* Another caller stands at its HasHandler, which reads the map, or at its *)
(* SetTopicHandler, a second writer.                                       *)
TouchingTopicHandlers(c) == \E d \in Callers \ {c} : cpc[d] \in {"has", "register"}

RangingOver(t) == \E m \in Messages : mpc[m] = "range" /\ mtopic[m] = t

ListingAddresses(ch) ==
    /\ rpc = "resubscribe" /\ rtopics = {} /\ rchans # <<>>
    /\ Head(rchans) = ch /\ ch # BlockChannel

Running == fault = "none"

Die(why) ==
    /\ fault' = why
    /\ UNCHANGED <<storageVars, callerVars, messageVars, readerVars, netVars>>

(* A call, or the goroutine of a message, ends; its local variables go.    *)
CallReturns(c) ==
    /\ cpc' = [cpc EXCEPT ![c] = "idle"]
    /\ ctopic' = [ctopic EXCEPT ![c] = NoTopic]
    /\ chs' = [chs EXCEPT ![c] = {}]
    /\ cuid' = [cuid EXCEPT ![c] = 1]

RouteReturns(m) ==
    /\ mpc' = [mpc EXCEPT ![m] = "idle"]
    /\ mtopic' = [mtopic EXCEPT ![m] = NoTopic]
    /\ minit' = [minit EXCEPT ![m] = {}]
    /\ mspawned' = [mspawned EXCEPT ![m] = {}]
    /\ muid' = [muid EXCEPT ![m] = 1]
    /\ UNCHANGED <<mcalling, mremoving, mchecking>>

(***************************************************************************)
(* AddXHandlers(address, handlers...), called with at least one handler.   *)
(***************************************************************************)

AddStart(c, t, hs) ==
    /\ Running /\ cpc[c] = "idle"
    /\ hs # {} /\ hs \cap allocated = {}
    /\ allocated' = allocated \cup hs
    /\ ctopic' = [ctopic EXCEPT ![c] = t]
    /\ chs' = [chs EXCEPT ![c] = hs]
    /\ cpc' = [cpc EXCEPT ![c] = "has"]
    /\ UNCHANGED <<topicHandlers, subs, entries, cuid, messageVars, readerVars,
                   netVars, fault>>

(* Mutant: the topic handler is not registered.                            *)
AddHasAssumed(c) ==
    /\ Running /\ cpc[c] = "has"
    /\ cpc' = [cpc EXCEPT ![c] = "check"]
    /\ UNCHANGED <<storageVars, ctopic, chs, cuid, messageVars, readerVars, netVars, fault>>

(* topicHandlers.HasHandler.                                               *)
AddHas(c) ==
    /\ Running /\ cpc[c] = "has"
    /\ cpc' = [cpc EXCEPT ![c] = IF ChannelOf[ctopic[c]] \in topicHandlers
                                 THEN "check" ELSE "register"]
    /\ UNCHANGED <<storageVars, ctopic, chs, cuid, messageVars, readerVars, netVars, fault>>

AddRegister(c) ==
    /\ Running /\ cpc[c] = "register"
    /\ \/ /\ topicHandlers' = topicHandlers \cup {ChannelOf[ctopic[c]]}
          /\ cpc' = [cpc EXCEPT ![c] = "check"]
          /\ UNCHANGED <<subs, entries, allocated, ctopic, chs, cuid,
                         messageVars, readerVars, netVars, fault>>
       \/ (ReadingTopicHandlers \/ TouchingTopicHandlers(c)) /\ Die("mapRace")

AddCheck(c) ==
    /\ Running /\ cpc[c] = "check"
    /\ cpc' = [cpc EXCEPT ![c] = IF HasHandlers(ctopic[c]) THEN "add" ELSE "uid"]
    /\ UNCHANGED <<storageVars, ctopic, chs, cuid, messageVars, readerVars,
                   netVars, fault>>

AddReadUid(c) ==
    /\ Running /\ cpc[c] = "uid"
    /\ cuid' = [cuid EXCEPT ![c] = clientUid]
    /\ cpc' = [cpc EXCEPT ![c] = "publish"]
    /\ UNCHANGED <<storageVars, ctopic, chs, messageVars, readerVars, netVars, fault>>

AddPublish(c) ==
    /\ Running /\ cpc[c] = "publish"
    /\ \/ /\ WriteOk("subscribe", ctopic[c], cuid[c])
          /\ cpc' = [cpc EXCEPT ![c] = "add"]
          /\ UNCHANGED <<ctopic, chs, cuid>>
       \/ WriteMayFail /\ CallReturns(c) /\ UNCHANGED wire
    /\ UNCHANGED <<storageVars, messageVars, readerVars, nconn, up, serverSubs, fault>>

(* The storage's AddHandlers: inserts into the inner map, and into the     *)
(* outer one when the address is new.                                      *)
AddStore(c) ==
    LET t == ctopic[c] IN
    /\ Running /\ cpc[c] = "add"
    /\ \/ /\ AddHandlers(t, chs[c])
          /\ CallReturns(c)
          /\ UNCHANGED <<topicHandlers, allocated, messageVars, readerVars, netVars,
                         fault>>
       \/ /\ RangingOver(t) \/ (t \notin entries /\ ListingAddresses(ChannelOf[t]))
          /\ Die("mapRace")

(***************************************************************************)
(* RouteMessage and Handle.                                                *)
(***************************************************************************)

(* The reader hands a message of a subscribed topic to a new goroutine.    *)
Deliver(m, t) ==
    /\ Running /\ mpc[m] = "idle"
    /\ rpc = "read" /\ up /\ t \in serverSubs
    /\ mtopic' = [mtopic EXCEPT ![m] = t]
    /\ mpc' = [mpc EXCEPT ![m] = "lookup"]
    /\ UNCHANGED <<storageVars, callerVars, minit, mspawned, mcalling, mremoving, mchecking,
                   muid, readerVars, netVars, fault>>

(* topicHandlers.GetHandler; a channel without handler is a panic.         *)
RouteLookup(m) ==
    /\ Running /\ mpc[m] = "lookup"
    /\ IF ChannelOf[mtopic[m]] \in topicHandlers
       THEN /\ mpc' = [mpc EXCEPT ![m] = "get"]
            /\ UNCHANGED <<storageVars, callerVars, mtopic, minit, mspawned,
                           mcalling, mremoving, mchecking, muid, readerVars, netVars, fault>>
       ELSE Die("unsupported")

(* GetHandlers returns the live map; none in it answers TRUE at once.      *)
HandleGet(m) ==
    LET t == mtopic[m] IN
    /\ Running /\ mpc[m] = "get"
    /\ \/ ~HasHandlers(t) /\ RouteReturns(m)
       \/ /\ HasHandlers(t)
          /\ mpc' = [mpc EXCEPT ![m] = "range"]
          /\ minit' = [minit EXCEPT ![m] = subs[t]]
          /\ UNCHANGED <<mtopic, mspawned, mcalling, mremoving, mchecking, muid>>
    /\ UNCHANGED <<storageVars, callerVars, readerVars, netVars, fault>>

(* The loop over the live map starts a goroutine for a handler in it.      *)
HandleSpawn(m, h) ==
    /\ Running /\ mpc[m] = "range"
    /\ h \in subs[mtopic[m]] \ mspawned[m]
    /\ mspawned' = [mspawned EXCEPT ![m] = @ \cup {h}]
    /\ mcalling' = [mcalling EXCEPT ![m] = @ \cup {h}]
    /\ UNCHANGED <<storageVars, callerVars, mpc, mtopic, minit, mremoving, mchecking, muid,
                   readerVars, netVars, fault>>

(* Handlers inserted while the loop runs may or may not be visited.        *)
HandleRangeEnd(m) ==
    /\ Running /\ mpc[m] = "range"
    /\ subs[mtopic[m]] \cap minit[m] \subseteq mspawned[m]
    /\ mpc' = [mpc EXCEPT ![m] = "wait"]
    /\ UNCHANGED <<storageVars, callerVars, mtopic, minit, mspawned, mcalling,
                   mremoving, mchecking, muid, readerVars, netVars, fault>>

(* The handler function returns; TRUE asks for its removal.                *)
HandlerReturns(m, h, rm) ==
    /\ Running /\ h \in mcalling[m]
    /\ mcalling' = [mcalling EXCEPT ![m] = @ \ {h}]
    /\ mremoving' = [mremoving EXCEPT ![m] = IF rm THEN @ \cup {h} ELSE @]
    /\ UNCHANGED <<storageVars, callerVars, mpc, mtopic, minit, mspawned, mchecking, muid,
                   readerVars, netVars, fault>>

(* The storage's RemoveHandlers, an error when it finds nothing to remove  *)
(* from.                                                                   *)
HandlerRemove(m, h) ==
    LET t == mtopic[m] IN
    /\ Running /\ h \in mremoving[m]
    /\ \/ /\ RemoveHandlers(t, h)
          /\ mremoving' = [mremoving EXCEPT ![m] = @ \ {h}]
          /\ mchecking' = [mchecking EXCEPT ![m] =
                             @ \cup {[handler |-> h, ok |-> ~RemoveFails(t)]}]
          /\ UNCHANGED <<topicHandlers, allocated, callerVars, mpc, mtopic, minit,
                         mspawned, mcalling, muid, readerVars, netVars, fault>>
       \/ RangingOver(t) /\ subs[t] # {} /\ Die("mapRace")

(* err is one variable shared by the children of a Handle: a child panics  *)
(* on the error it reads there, its own or that of a sibling which also    *)
(* stands between the assignment and the test.                             *)
HandlerCheck(m, r) ==
    /\ Running /\ r \in mchecking[m]
    /\ \/ /\ \E q \in mchecking[m] : q.ok
          /\ mchecking' = [mchecking EXCEPT ![m] = @ \ {r}]
          /\ UNCHANGED <<storageVars, callerVars, mpc, mtopic, minit, mspawned,
                         mcalling, mremoving, muid, readerVars, netVars, fault>>
       \/ (\E q \in mchecking[m] : ~q.ok) /\ Die("handlersNotFound")

(* Mutant: Handle always answers TRUE.                                     *)
HandleAnswerTrue(m) ==
    /\ Running /\ mpc[m] = "wait"
    /\ mcalling[m] = {} /\ mremoving[m] = {} /\ mchecking[m] = {}
    /\ RouteReturns(m)
    /\ UNCHANGED <<storageVars, callerVars, readerVars, netVars, fault>>

(* wg.Wait, then the answer: HasHandlers.                                  *)
HandleAnswer(m) ==
    /\ Running /\ mpc[m] = "wait"
    /\ mcalling[m] = {} /\ mremoving[m] = {} /\ mchecking[m] = {}
    /\ \/ HasHandlers(mtopic[m]) /\ RouteReturns(m)
       \/ /\ ~HasHandlers(mtopic[m])
          /\ mpc' = [mpc EXCEPT ![m] = "uid"]
          /\ UNCHANGED <<mtopic, minit, mspawned, mcalling, mremoving, mchecking, muid>>
    /\ UNCHANGED <<storageVars, callerVars, readerVars, netVars, fault>>

RouteReadUid(m) ==
    /\ Running /\ mpc[m] = "uid"
    /\ muid' = [muid EXCEPT ![m] = routerUid]
    /\ mpc' = [mpc EXCEPT ![m] = "publish"]
    /\ UNCHANGED <<storageVars, callerVars, mtopic, minit, mspawned, mcalling,
                   mremoving, mchecking, readerVars, netVars, fault>>

RoutePublish(m) ==
    /\ Running /\ mpc[m] = "publish"
    /\ \/ /\ WriteOk("unsubscribe", mtopic[m], muid[m])
          /\ RouteReturns(m)
          /\ UNCHANGED <<storageVars, callerVars, readerVars, nconn, up, serverSubs,
                         fault>>
       \/ WriteMayFail /\ Die("unsubscribe")

(***************************************************************************)
(* The server and the network (external).  The node obeys a frame that     *)
(* carries the uid it gave to this connection and ignores any other.       *)
(***************************************************************************)
ServerReceive ==
    /\ Running /\ up /\ wire # <<>>
    /\ LET f == Head(wire) IN
       serverSubs' = IF f.uid # nconn THEN serverSubs
                     ELSE IF f.op = "subscribe" THEN serverSubs \cup {f.topic}
                     ELSE serverSubs \ {f.topic}
    /\ wire' = Tail(wire)
    /\ UNCHANGED <<storageVars, callerVars, messageVars, readerVars, nconn, up, fault>>

ConnectionLost ==
    /\ Running /\ up /\ nconn < MaxConns
    /\ up' = FALSE
    /\ wire' = <<>>
    /\ serverSubs' = {}
    /\ UNCHANGED <<storageVars, callerVars, messageVars, readerVars, nconn, fault>>

(***************************************************************************)
(* The reader: ReadMessage fails with a CloseError, then reconnect on      *)
(* every tick until it succeeds.                                           *)
(***************************************************************************)
ReadCloseError ==
    /\ Running /\ rpc = "read" /\ ~up
    /\ rpc' = "tick"
    /\ UNCHANGED <<storageVars, callerVars, messageVars, rchans, rtopics, clientUid,
                   routerUid, pubConn, netVars, fault>>

(* connectFn succeeds; c.conn and c.UID are replaced.  A failed attempt    *)
(* changes nothing.                                                        *)
Reconnect ==
    /\ Running /\ rpc = "tick" /\ nconn < MaxConns
    /\ nconn' = nconn + 1
    /\ up' = TRUE
    /\ wire' = <<>>
    /\ serverSubs' = {}
    /\ clientUid' = nconn + 1
    /\ rpc' = "setConn"
    /\ UNCHANGED <<storageVars, callerVars, messageVars, rchans, rtopics, routerUid,
                   pubConn, fault>>

(* Mutant: the publisher keeps the old connection.                         *)
SetConnForgotten ==
    /\ Running /\ rpc = "setConn"
    /\ rpc' = "setUid"
    /\ UNCHANGED <<storageVars, callerVars, messageVars, rchans, rtopics, clientUid,
                   routerUid, pubConn, netVars, fault>>

SetConn ==
    /\ Running /\ rpc = "setConn"
    /\ pubConn' = nconn
    /\ rpc' = "setUid"
    /\ UNCHANGED <<storageVars, callerVars, messageVars, rchans, rtopics, clientUid,
                   routerUid, netVars, fault>>

SetUid ==
    /\ Running /\ rpc = "setUid"
    /\ routerUid' = clientUid
    /\ rchans' = ResubOrder
    /\ rpc' = "resubscribe"
    /\ UNCHANGED <<storageVars, callerVars, messageVars, rtopics, clientUid, pubConn,
                   netVars, fault>>

ResubscribeList ==
    /\ Running /\ rpc = "resubscribe" /\ rtopics = {} /\ rchans # <<>>
    /\ rtopics' = GetAddresses(Head(rchans))
    /\ rchans' = Tail(rchans)
    /\ UNCHANGED <<storageVars, callerVars, messageVars, rpc, clientUid, routerUid,
                   pubConn, netVars, fault>>

(* A failed write ends this attempt; the next tick connects again.         *)
ResubscribePublish(t) ==
    /\ Running /\ rpc = "resubscribe" /\ t \in rtopics
    /\ \/ /\ WriteOk("subscribe", t, clientUid)
          /\ rtopics' = rtopics \ {t}
          /\ UNCHANGED <<rpc, rchans>>
       \/ /\ WriteMayFail
          /\ rpc' = "tick"
          /\ rtopics' = {}
          /\ rchans' = <<>>
          /\ UNCHANGED wire
    /\ UNCHANGED <<storageVars, callerVars, messageVars, clientUid, routerUid,
                   pubConn, nconn, up, serverSubs, fault>>

ResubscribeDone ==
    /\ Running /\ rpc = "resubscribe" /\ rtopics = {} /\ rchans = <<>>
    /\ rpc' = "read"
    /\ UNCHANGED <<storageVars, callerVars, messageVars, rchans, rtopics, clientUid,
                   routerUid, pubConn, netVars, fault>>

(***************************************************************************)
(* The specification.                                                      *)
(***************************************************************************)
CallerSteps(c) ==
    \/ AddHas(c) \/ AddRegister(c) \/ AddCheck(c) \/ AddReadUid(c) \/ AddPublish(c) \/ AddStore(c)

RouteSteps(m) ==
    \/ RouteLookup(m) \/ HandleGet(m) \/ HandleRangeEnd(m) \/ HandleAnswer(m)
    \/ RouteReadUid(m) \/ RoutePublish(m)
    \/ \E h \in Handlers : HandleSpawn(m, h) \/ HandlerRemove(m, h)
    \/ \E r \in mchecking[m] : HandlerCheck(m, r)

ReaderSteps ==
    \/ ReadCloseError \/ Reconnect \/ SetConn \/ SetUid
    \/ ResubscribeList \/ ResubscribeDone
    \/ \E t \in Topics : ResubscribePublish(t)

Next ==
    \/ \E c \in Callers, t \in Topics, hs \in SUBSET Handlers : AddStart(c, t, hs)
    \/ \E c \in Callers : CallerSteps(c)
    \/ \E m \in Messages, t \in Topics : Deliver(m, t)
    \/ \E m \in Messages : RouteSteps(m)
    \/ \E m \in Messages, h \in Handlers, rm \in BOOLEAN : HandlerReturns(m, h, rm)
    \/ ServerReceive
    \/ ConnectionLost
    \/ ReaderSteps

Spec == Init /\ [][Next]_vars

(* The Go scheduler runs every goroutine that can run; handler functions   *)
(* return; a live connection delivers.  Nothing makes the user call         *)
(* AddXHandlers, the chain produce an event or a connection fail.          *)
Fairness ==
    /\ \A c \in Callers : WF_vars(CallerSteps(c))
    /\ \A m \in Messages : WF_vars(RouteSteps(m))
    /\ \A m \in Messages, h \in Handlers :
          WF_vars(\E rm \in BOOLEAN : HandlerReturns(m, h, rm))
    /\ WF_vars(ServerReceive)
    /\ WF_vars(ReaderSteps)

FairSpec == Spec /\ Fairness

(* A program that adds handlers only while the connection stands and no    *)
(* event is being handled.                                                 *)
AddsAlone ==
    (\E c \in Callers : cpc[c] # "idle") =>
        /\ \A m \in Messages : mpc[m] = "idle"
        /\ up /\ rpc = "read"

SerialSpec == Init /\ [][Next /\ AddsAlone']_vars

(***************************************************************************)
(* Properties.                                                             *)
(***************************************************************************)

(* No message is routed to a channel that has no topic handler: the panic  *)
(* of RouteMessage (router.go:41) is unreachable, because AddXHandlers     *)
(* registers the topic handler before it publishes the subscription and    *)
(* reconnect only subscribes to what was added.                            *)
TopicRegistered == fault # "unsupported"

(* A topic is quiet when no call, no message and no frame concerns it and  *)
(* the connection stands.                                                  *)
Quiet(t) ==
    /\ \A c \in Callers : ctopic[c] # t
    /\ \A m \in Messages : mtopic[m] # t
    /\ \A i \in 1..Len(wire) : wire[i].topic # t
    /\ up /\ rpc = "read" /\ Running

(* On the first connection the client does not stay subscribed to a topic  *)
(* nobody handles: whoever removes the last handler unsubscribes (Handle   *)
(* answers FALSE, router.go:45), whatever calls and messages run beside    *)
(* it.  Later connections are left out: reconnect subscribes every address *)
(* ever added, and an event without handlers is answered TRUE.             *)
NoIdleSubscription ==
    nconn = 1 =>
        \A t \in Topics : Quiet(t) /\ subs[t] = {} => t \notin serverSubs

(* Handle reports whether the subscription is still necessary              *)
(* (handlers/cosignature.go:13), and reconnect subscribes again, so a      *)
(* topic that has handlers is subscribed whenever nothing is under way.    *)
NoLostSubscription ==
    \A t \in Topics : Quiet(t) /\ subs[t] # {} => t \in serverSubs

(* A subscription nobody handles ends: an event of it, or the handling in  *)
(* progress, leads to an unsubscription, to a new handler or to the end of *)
(* the process.                                                            *)
IdleSubscriptionEnds ==
    \A t \in Topics :
        (t \in serverSubs /\ subs[t] = {})
            ~> (t \notin serverSubs \/ subs[t] # {} \/ ~Running)

=============================================================================

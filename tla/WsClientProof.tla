---------------------------- MODULE WsClientProof -----------------------------
(***************************************************************************)
(* Proofs about WsClient, for every set of channels, topics, handlers,     *)
(* callers and messages: type correctness and the unreachability of        *)
(* RouteMessage's "unsupported message type" panic; then, what the node is *)
(* subscribed to: no topic stays subscribed for nobody on the first        *)
(* connection (NoIdleSubscription), and none with handlers is lost by a    *)
(* program that adds them while nothing else happens (NoLostSubscription   *)
(* under SerialSpec).                                                      *)
(***************************************************************************)
EXTENDS WsClient, TLAPS

Registered(t) == t \in Topics /\ ChannelOf[t] \in topicHandlers

(* Everything a message can come from, directly or after a reconnect, has  *)
(* a topic handler: running calls past the registration, running messages, *)
(* stored handlers, storage keys, frames on the wire, subscriptions.       *)
CallsInv ==
    \A c \in Callers :
        /\ cpc[c] # "idle" => ctopic[c] \in Topics
        /\ cpc[c] \notin {"idle", "has", "register"} => Registered(ctopic[c])

RoutesInv == \A m \in Messages : mpc[m] # "idle" => Registered(mtopic[m])

StoredInv ==
    /\ \A t \in Topics : subs[t] # {} => Registered(t)
    /\ \A t \in entries : Registered(t)

NetInv ==
    /\ \A t \in rtopics : Registered(t)
    /\ \A t \in serverSubs : Registered(t)
    /\ \A i \in 1..Len(wire) : Registered(wire[i].topic)

IInv == TypeOK /\ CallsInv /\ RoutesInv /\ StoredInv /\ NetInv /\ TopicRegistered

(* The initial state of NewClient satisfies the invariant.                 *)
LEMMA InitInv == Init => IInv
  BY WsConstants, SMTT(30)
     DEF Init, IInv, TypeOK, StorageType, CallersType, RoutesType, ReaderType,
         NetType, CallsInv, RoutesInv, StoredInv, NetInv, TopicRegistered,
         Registered, Faults, Frame

(* A process that dies keeps its state; only RouteLookup may say why it    *)
(* met an unsupported message type.                                        *)
LEMMA DieInv ==
  ASSUME IInv, NEW why \in Faults \ {"unsupported"}, Die(why)
  PROVE  IInv'
<1>1. TypeOK' /\ TopicRegistered'
  BY DEF IInv, TypeOK, StorageType, CallersType, RoutesType, ReaderType, NetType,
     TopicRegistered, Die, storageVars, callerVars, messageVars, readerVars, netVars
<1>2. CallsInv' /\ RoutesInv' /\ StoredInv' /\ NetInv'
  BY DEF IInv, CallsInv, RoutesInv, StoredInv, NetInv, Registered, Die, storageVars,
     callerVars, messageVars, readerVars, netVars
<1> QED BY <1>1, <1>2 DEF IInv

(* The typing of what a call, or the goroutine of a message, leaves.       *)
LEMMA CallReturnsType ==
  ASSUME CallersType, NEW c \in Callers, CallReturns(c)
  PROVE  CallersType'
<1>1. 1 \in 1..MaxConns
  BY WsConstants
<1>2. cpc' \in [Callers -> {"idle", "has", "register", "check", "uid", "publish", "add"}]
  BY DEF CallersType, CallReturns
<1>3. ctopic' \in [Callers -> Topics \cup {NoTopic}]
  BY DEF CallersType, CallReturns
<1>4. chs' \in [Callers -> SUBSET Handlers]
  BY DEF CallersType, CallReturns
<1>5. cuid' \in [Callers -> 1..MaxConns]
  BY <1>1 DEF CallersType, CallReturns
<1> QED BY <1>2, <1>3, <1>4, <1>5 DEF CallersType

(* The typing of what the goroutine of a message leaves behind.            *)
LEMMA RouteReturnsType ==
  ASSUME RoutesType, NEW m \in Messages, RouteReturns(m)
  PROVE  RoutesType'
<1>1. 1 \in 1..MaxConns
  BY WsConstants
<1>2. /\ mpc' \in [Messages -> {"idle", "lookup", "get", "range", "wait", "uid", "publish"}]
      /\ mtopic' \in [Messages -> Topics \cup {NoTopic}]
  BY DEF RoutesType, RouteReturns
<1>3. minit' \in [Messages -> SUBSET Handlers]
  BY DEF RoutesType, RouteReturns
<1>4. mspawned' \in [Messages -> SUBSET Handlers]
  BY DEF RoutesType, RouteReturns
<1>5. muid' \in [Messages -> 1..MaxConns]
  BY <1>1 DEF RoutesType, RouteReturns
<1>6. UNCHANGED <<mcalling, mremoving, mchecking>>
  BY DEF RouteReturns
<1> QED BY <1>2, <1>3, <1>4, <1>5, <1>6 DEF RoutesType

(* A write leaves the wire a sequence of frames of registered topics.      *)
LEMMA WriteInv ==
  ASSUME TypeOK, NetInv, NEW op \in {"subscribe", "unsubscribe"}, NEW t \in Topics,
         NEW uid \in 1..MaxConns, Registered(t), WriteOk(op, t, uid),
         UNCHANGED topicHandlers
  PROVE  /\ wire' \in Seq(Frame)
         /\ \A i \in 1..Len(wire') : Registered(wire[i].topic)'
<1> DEFINE f == [op |-> op, topic |-> t, uid |-> uid]
<1>1. f \in Frame
  BY DEF Frame
<1>2. CASE UNCHANGED wire
  BY <1>2 DEF TypeOK, NetType, NetInv, Registered
<1>3. CASE wire' = Append(wire, f)
  <2>0. f.topic = t
    OBVIOUS
  <2> HIDE DEF f
  <2>1. /\ wire' \in Seq(Frame)
        /\ Len(wire') = Len(wire) + 1
        /\ \A i \in 1..Len(wire) : wire'[i] = wire[i]
        /\ wire'[Len(wire) + 1] = f
    BY <1>1, <1>3 DEF TypeOK, NetType
  <2>2. ASSUME NEW i \in 1..Len(wire') PROVE Registered(wire[i].topic)'
    <3>0. Len(wire) \in Nat
      BY DEF TypeOK, NetType
    <3>1. CASE i \in 1..Len(wire)
      BY <2>1, <3>1 DEF NetInv, Registered
    <3>2. CASE i = Len(wire) + 1
      BY <2>0, <2>1, <3>2 DEF Registered
    <3> QED BY <2>1, <3>0, <3>1, <3>2
  <2> QED BY <2>1, <2>2
<1> QED BY <1>2, <1>3 DEF WriteOk

(* AddStart fixes the topic of the call.                                   *)
LEMMA Step_AddStart ==
  ASSUME IInv, NEW c \in Callers, NEW t \in Topics, NEW hs \in SUBSET Handlers, AddStart(c, t, hs)
  PROVE  IInv'
<1>1. TypeOK'
  BY WsConstants DEF IInv, TypeOK, StorageType, CallersType, RoutesType,
     ReaderType, NetType, CallsInv, RoutesInv, Registered, Frame, Faults,
     AddStart, storageVars, callerVars, messageVars, readerVars, netVars
<1>2. CallsInv' /\ RoutesInv'
  BY DEF IInv, TypeOK, StorageType, CallersType, RoutesType, ReaderType,
     NetType, CallsInv, RoutesInv, NetInv, Registered, AddStart, storageVars,
     callerVars, messageVars, readerVars, netVars
<1>3. StoredInv'
  BY DEF IInv, TypeOK, StorageType, CallersType, CallsInv, StoredInv,
     Registered, AddStart, storageVars, callerVars, messageVars, readerVars,
     netVars
<1>4. NetInv'
  BY DEF IInv, TypeOK, StorageType, CallersType, RoutesType, ReaderType,
     NetType, CallsInv, RoutesInv, StoredInv, NetInv, Registered, Frame,
     AddStart, storageVars, callerVars, messageVars, readerVars, netVars
<1>5. TopicRegistered'
  BY DEF IInv, RoutesInv, TopicRegistered, Registered, AddStart
<1> QED BY <1>1, <1>2, <1>3, <1>4, <1>5 DEF IInv

(* AddHas goes past the registration only when the channel has its topic   *)
(* handler.                                                                *)
LEMMA Step_AddHas ==
  ASSUME IInv, NEW c \in Callers, AddHas(c)
  PROVE  IInv'
<1>1. TypeOK'
  BY WsConstants DEF IInv, TypeOK, StorageType, CallersType, RoutesType,
     ReaderType, NetType, CallsInv, RoutesInv, Registered, Frame, Faults,
     AddHas, storageVars, callerVars, messageVars, readerVars, netVars
<1>2. CallsInv' /\ RoutesInv'
  BY DEF IInv, TypeOK, StorageType, CallersType, RoutesType, ReaderType,
     NetType, CallsInv, RoutesInv, NetInv, Registered, AddHas, storageVars,
     callerVars, messageVars, readerVars, netVars
<1>3. StoredInv'
  BY DEF IInv, TypeOK, StorageType, CallersType, CallsInv, StoredInv,
     Registered, AddHas, storageVars, callerVars, messageVars, readerVars,
     netVars
<1>4. NetInv'
  BY DEF IInv, TypeOK, StorageType, CallersType, RoutesType, ReaderType,
     NetType, CallsInv, RoutesInv, StoredInv, NetInv, Registered, Frame,
     AddHas, storageVars, callerVars, messageVars, readerVars, netVars
<1>5. TopicRegistered'
  BY DEF IInv, RoutesInv, TopicRegistered, Registered, AddHas
<1> QED BY <1>1, <1>2, <1>3, <1>4, <1>5 DEF IInv

(* AddRegister gives the channel its topic handler; none is ever taken     *)
(* away.                                                                   *)
LEMMA Step_AddRegister ==
  ASSUME IInv, NEW c \in Callers, AddRegister(c)
  PROVE  IInv'
<1>0. CASE Die("mapRace")
  BY <1>0, DieInv DEF Faults
<1> SUFFICES ASSUME ~Die("mapRace") PROVE IInv'
  BY <1>0
<1>1. TypeOK'
  <2>1. StorageType'
    <3>1. ChannelOf[ctopic[c]] \in Channels
      BY WsConstants DEF IInv, CallsInv, AddRegister
    <3>2. topicHandlers' = topicHandlers \cup {ChannelOf[ctopic[c]]}
      BY DEF AddRegister
    <3>3. UNCHANGED <<subs, entries, allocated>>
      BY DEF AddRegister
    <3> QED BY <3>1, <3>2, <3>3 DEF IInv, TypeOK, StorageType
  <2>2. CallersType'
    BY WsConstants DEF IInv, TypeOK, StorageType, CallersType, RoutesType,
       ReaderType, NetType, CallsInv, RoutesInv, Registered, AddRegister,
       callerVars
  <2>3. RoutesType'
    BY WsConstants DEF IInv, TypeOK, StorageType, CallersType, RoutesType,
       ReaderType, NetType, CallsInv, RoutesInv, Registered, AddRegister,
       messageVars
  <2>4. ReaderType'
    BY WsConstants DEF IInv, TypeOK, StorageType, CallersType, RoutesType,
       ReaderType, NetType, CallsInv, RoutesInv, Registered, AddRegister,
       readerVars
  <2>5. NetType'
    BY WsConstants DEF IInv, TypeOK, NetType, ReaderType, CallsInv, RoutesInv,
       Registered, AddRegister, netVars
  <2>6. (fault \in Faults)'
    BY DEF IInv, TypeOK, AddRegister, Faults
  <2> QED BY <2>1, <2>2, <2>3, <2>4, <2>5, <2>6 DEF TypeOK
<1>2. CallsInv' /\ RoutesInv'
  BY DEF IInv, TypeOK, StorageType, CallersType, RoutesType, ReaderType,
     NetType, CallsInv, RoutesInv, NetInv, Registered, AddRegister, storageVars,
     callerVars, messageVars, readerVars, netVars
<1>3. StoredInv'
  BY DEF IInv, TypeOK, StorageType, CallersType, CallsInv, StoredInv,
     Registered, AddRegister, storageVars, callerVars, messageVars, readerVars,
     netVars
<1>4. NetInv'
  BY DEF IInv, TypeOK, StorageType, CallersType, RoutesType, ReaderType,
     NetType, CallsInv, RoutesInv, StoredInv, NetInv, Registered, Frame,
     AddRegister, storageVars, callerVars, messageVars, readerVars, netVars
<1>5. TopicRegistered'
  BY DEF IInv, RoutesInv, TopicRegistered, Registered, AddRegister
<1> QED BY <1>1, <1>2, <1>3, <1>4, <1>5 DEF IInv

(* AddCheck reads the storage and moves on with a registered topic.        *)
LEMMA Step_AddCheck ==
  ASSUME IInv, NEW c \in Callers, AddCheck(c)
  PROVE  IInv'
<1>1. TypeOK'
  BY WsConstants DEF IInv, TypeOK, StorageType, CallersType, RoutesType,
     ReaderType, NetType, CallsInv, RoutesInv, Registered, Frame, Faults,
     AddCheck, storageVars, callerVars, messageVars, readerVars, netVars
<1>2. CallsInv' /\ RoutesInv'
  BY DEF IInv, TypeOK, StorageType, CallersType, RoutesType, ReaderType,
     NetType, CallsInv, RoutesInv, NetInv, Registered, AddCheck, storageVars,
     callerVars, messageVars, readerVars, netVars
<1>3. StoredInv'
  BY DEF IInv, TypeOK, StorageType, CallersType, CallsInv, StoredInv,
     Registered, AddCheck, storageVars, callerVars, messageVars, readerVars,
     netVars
<1>4. NetInv'
  BY DEF IInv, TypeOK, StorageType, CallersType, RoutesType, ReaderType,
     NetType, CallsInv, RoutesInv, StoredInv, NetInv, Registered, Frame,
     AddCheck, storageVars, callerVars, messageVars, readerVars, netVars
<1>5. TopicRegistered'
  BY DEF IInv, RoutesInv, TopicRegistered, Registered, AddCheck
<1> QED BY <1>1, <1>2, <1>3, <1>4, <1>5 DEF IInv

(* AddReadUid copies the client's uid, which is that of a connection.      *)
LEMMA Step_AddReadUid ==
  ASSUME IInv, NEW c \in Callers, AddReadUid(c)
  PROVE  IInv'
<1>1. TypeOK'
  BY WsConstants DEF IInv, TypeOK, StorageType, CallersType, RoutesType,
     ReaderType, NetType, CallsInv, RoutesInv, Registered, Frame, Faults,
     AddReadUid, storageVars, callerVars, messageVars, readerVars, netVars
<1>2. CallsInv' /\ RoutesInv'
  BY DEF IInv, TypeOK, StorageType, CallersType, RoutesType, ReaderType,
     NetType, CallsInv, RoutesInv, NetInv, Registered, AddReadUid, storageVars,
     callerVars, messageVars, readerVars, netVars
<1>3. StoredInv'
  BY DEF IInv, TypeOK, StorageType, CallersType, CallsInv, StoredInv,
     Registered, AddReadUid, storageVars, callerVars, messageVars, readerVars,
     netVars
<1>4. NetInv'
  BY DEF IInv, TypeOK, StorageType, CallersType, RoutesType, ReaderType,
     NetType, CallsInv, RoutesInv, StoredInv, NetInv, Registered, Frame,
     AddReadUid, storageVars, callerVars, messageVars, readerVars, netVars
<1>5. TopicRegistered'
  BY DEF IInv, RoutesInv, TopicRegistered, Registered, AddReadUid
<1> QED BY <1>1, <1>2, <1>3, <1>4, <1>5 DEF IInv

(* AddPublish puts a frame of a registered topic on the wire, or the call  *)
(* returns.                                                                *)
LEMMA Step_AddPublish ==
  ASSUME IInv, NEW c \in Callers, AddPublish(c)
  PROVE  IInv'
<1>w. /\ wire' \in Seq(Frame)
      /\ \A i \in 1..Len(wire') : Registered(wire[i].topic)'
  <2>1. ctopic[c] \in Topics /\ Registered(ctopic[c]) /\ cuid[c] \in 1..MaxConns
    BY DEF IInv, TypeOK, CallersType, RoutesType, ReaderType, CallsInv, RoutesInv,
       NetInv, Registered, AddPublish
  <2>2. CASE WriteOk("subscribe", ctopic[c], cuid[c])
    BY <2>1, <2>2, WriteInv DEF IInv, AddPublish, storageVars
  <2>3. CASE UNCHANGED wire
    BY <2>3 DEF IInv, TypeOK, NetType, NetInv, Registered, AddPublish, storageVars
  <2> QED BY <2>2, <2>3 DEF AddPublish
<1>1. TypeOK'
  <2>1. StorageType'
    BY WsConstants DEF IInv, TypeOK, StorageType, CallersType, RoutesType,
       ReaderType, NetType, CallsInv, RoutesInv, Registered, AddPublish,
       CallReturns, storageVars
  <2>2. CallersType'
    <3>1. CASE CallReturns(c)
      BY <3>1, CallReturnsType DEF IInv, TypeOK
    <3>2. CASE ~CallReturns(c)
      BY <3>2 DEF IInv, TypeOK, CallersType, AddPublish
    <3> QED BY <3>1, <3>2
  <2>3. RoutesType'
    BY WsConstants DEF IInv, TypeOK, StorageType, CallersType, RoutesType,
       ReaderType, NetType, CallsInv, RoutesInv, Registered, AddPublish,
       CallReturns, messageVars
  <2>4. ReaderType'
    BY WsConstants DEF IInv, TypeOK, StorageType, CallersType, RoutesType,
       ReaderType, NetType, CallsInv, RoutesInv, Registered, AddPublish,
       CallReturns, readerVars
  <2>5. NetType'
    BY <1>w, WsConstants DEF IInv, TypeOK, NetType, ReaderType, CallsInv,
       RoutesInv, Registered, AddPublish, CallReturns, netVars
  <2>6. (fault \in Faults)'
    BY DEF IInv, TypeOK, AddPublish, Faults, CallReturns
  <2> QED BY <2>1, <2>2, <2>3, <2>4, <2>5, <2>6 DEF TypeOK
<1>2. CallsInv'
  <2> SUFFICES ASSUME NEW d \in Callers, cpc'[d] # "idle"
      PROVE  /\ ctopic'[d] \in Topics
             /\ cpc'[d] \notin {"idle", "has", "register"} => Registered(ctopic[d])'
    BY DEF CallsInv
  <2>1. ctopic'[d] = ctopic[d] /\ cpc[d] # "idle" /\ (cpc[d] = cpc'[d] \/ cpc[d] = "publish")
    BY DEF IInv, TypeOK, CallersType, AddPublish, CallReturns
  <2> QED  BY <2>1 DEF IInv, CallsInv, Registered, AddPublish, storageVars
<1>2a. RoutesInv'
  BY DEF IInv, RoutesInv, Registered, AddPublish, storageVars, messageVars
<1>3. StoredInv'
  BY DEF IInv, TypeOK, StorageType, CallersType, CallsInv, StoredInv,
     Registered, AddPublish, CallReturns, storageVars, callerVars, messageVars,
     readerVars, netVars
<1>4. NetInv'
  BY <1>w DEF IInv, TypeOK, StorageType, CallersType, RoutesType, ReaderType,
     NetType, CallsInv, RoutesInv, StoredInv, NetInv, Registered, Frame,
     AddPublish, CallReturns, storageVars, callerVars, messageVars, readerVars,
     netVars
<1>5. TopicRegistered'
  BY DEF IInv, RoutesInv, TopicRegistered, Registered, AddPublish, CallReturns
<1> QED BY <1>1, <1>2, <1>2a, <1>3, <1>4, <1>5 DEF IInv

(* AddStore stores handlers, and a key, for a registered topic.            *)
LEMMA Step_AddStore ==
  ASSUME IInv, NEW c \in Callers, AddStore(c)
  PROVE  IInv'
<1>0. CASE Die("mapRace")
  BY <1>0, DieInv DEF Faults
<1> SUFFICES ASSUME ~Die("mapRace") PROVE IInv'
  BY <1>0
<1>1. TypeOK'
  <2>1. StorageType'
    <3>1. ctopic[c] \in Topics /\ chs[c] \in SUBSET Handlers
      BY DEF IInv, TypeOK, CallersType, CallsInv, AddStore
    <3>2. /\ subs' = [subs EXCEPT ![ctopic[c]] = @ \cup chs[c]]
          /\ entries' = entries \cup {ctopic[c]}
          /\ UNCHANGED <<topicHandlers, allocated>>
      BY DEF AddStore, AddHandlers
    <3> QED BY <3>1, <3>2 DEF IInv, TypeOK, StorageType
  <2>2. CallersType'
    BY CallReturnsType DEF IInv, TypeOK, AddStore
  <2>3. RoutesType'
    BY WsConstants DEF IInv, TypeOK, StorageType, CallersType, RoutesType,
       ReaderType, NetType, CallsInv, RoutesInv, Registered, AddStore,
       AddHandlers, CallReturns, messageVars
  <2>4. ReaderType'
    BY WsConstants DEF IInv, TypeOK, StorageType, CallersType, RoutesType,
       ReaderType, NetType, CallsInv, RoutesInv, Registered, AddStore,
       AddHandlers, CallReturns, readerVars
  <2>5. NetType'
    BY WsConstants DEF IInv, TypeOK, NetType, ReaderType, CallsInv, RoutesInv,
       Registered, AddStore, AddHandlers, CallReturns, netVars
  <2>6. (fault \in Faults)'
    BY DEF IInv, TypeOK, AddStore, Faults, AddHandlers, CallReturns
  <2> QED BY <2>1, <2>2, <2>3, <2>4, <2>5, <2>6 DEF TypeOK
<1>2. CallsInv' /\ RoutesInv'
  <2>1. CallReturns(c) /\ UNCHANGED <<topicHandlers, messageVars>>
    BY DEF AddStore
  <2> QED BY <2>1 DEF IInv, TypeOK, CallersType, CallsInv, RoutesInv, Registered,
       CallReturns, messageVars
<1>3. StoredInv'
  BY DEF IInv, TypeOK, StorageType, CallersType, CallsInv, StoredInv,
     Registered, AddStore, AddHandlers, CallReturns, storageVars, callerVars,
     messageVars, readerVars, netVars
<1>4. NetInv'
  BY DEF IInv, TypeOK, StorageType, CallersType, RoutesType, ReaderType,
     NetType, CallsInv, RoutesInv, StoredInv, NetInv, Registered, Frame,
     AddStore, AddHandlers, CallReturns, storageVars, callerVars, messageVars,
     readerVars, netVars
<1>5. TopicRegistered'
  BY DEF IInv, RoutesInv, TopicRegistered, Registered, AddStore, AddHandlers,
     CallReturns
<1> QED BY <1>1, <1>2, <1>3, <1>4, <1>5 DEF IInv

(* Deliver starts a message of a subscribed topic, which is registered     *)
(* (NetInv).                                                               *)
LEMMA Step_Deliver ==
  ASSUME IInv, NEW m \in Messages, NEW t \in Topics, Deliver(m, t)
  PROVE  IInv'
<1>1. TypeOK'
  BY WsConstants DEF IInv, TypeOK, StorageType, CallersType, RoutesType,
     ReaderType, NetType, CallsInv, RoutesInv, Registered, Frame, Faults,
     Deliver, storageVars, callerVars, messageVars, readerVars, netVars
<1>2. CallsInv' /\ RoutesInv'
  BY DEF IInv, TypeOK, StorageType, CallersType, RoutesType, ReaderType,
     NetType, CallsInv, RoutesInv, NetInv, Registered, Deliver, storageVars,
     callerVars, messageVars, readerVars, netVars
<1>3. StoredInv'
  BY DEF IInv, TypeOK, StorageType, CallersType, CallsInv, StoredInv,
     Registered, Deliver, storageVars, callerVars, messageVars, readerVars,
     netVars
<1>4. NetInv'
  BY DEF IInv, TypeOK, StorageType, CallersType, RoutesType, ReaderType,
     NetType, CallsInv, RoutesInv, StoredInv, NetInv, Registered, Frame,
     Deliver, storageVars, callerVars, messageVars, readerVars, netVars
<1>5. TopicRegistered'
  BY DEF IInv, RoutesInv, TopicRegistered, Registered, Deliver
<1> QED BY <1>1, <1>2, <1>3, <1>4, <1>5 DEF IInv

(* RouteLookup finds the topic handler: the one step that could die of     *)
(* "unsupported" does not, by RoutesInv.                                   *)
LEMMA Step_RouteLookup ==
  ASSUME IInv, NEW m \in Messages, RouteLookup(m)
  PROVE  IInv'
<1>1. TypeOK'
  BY WsConstants DEF IInv, TypeOK, StorageType, CallersType, RoutesType,
     ReaderType, NetType, CallsInv, RoutesInv, Registered, Frame, Faults,
     RouteLookup, Die, storageVars, callerVars, messageVars, readerVars, netVars
<1>2. CallsInv' /\ RoutesInv'
  BY DEF IInv, TypeOK, StorageType, CallersType, RoutesType, ReaderType,
     NetType, CallsInv, RoutesInv, NetInv, Registered, RouteLookup, Die,
     storageVars, callerVars, messageVars, readerVars, netVars
<1>3. StoredInv'
  BY DEF IInv, TypeOK, StorageType, CallersType, CallsInv, StoredInv,
     Registered, RouteLookup, Die, storageVars, callerVars, messageVars,
     readerVars, netVars
<1>4. NetInv'
  BY DEF IInv, TypeOK, StorageType, CallersType, RoutesType, ReaderType,
     NetType, CallsInv, RoutesInv, StoredInv, NetInv, Registered, Frame,
     RouteLookup, Die, storageVars, callerVars, messageVars, readerVars, netVars
<1>5. TopicRegistered'
  BY DEF IInv, RoutesInv, TopicRegistered, Registered, RouteLookup, Die
<1> QED BY <1>1, <1>2, <1>3, <1>4, <1>5 DEF IInv

(* HandleGet remembers stored handlers, or the message is done.            *)
LEMMA Step_HandleGet ==
  ASSUME IInv, NEW m \in Messages, HandleGet(m)
  PROVE  IInv'
<1>1. TypeOK'
  <2>1. StorageType'
    BY WsConstants DEF IInv, TypeOK, StorageType, CallersType, RoutesType,
       ReaderType, NetType, CallsInv, RoutesInv, Registered, HandleGet,
       RouteReturns, storageVars
  <2>2. CallersType'
    BY WsConstants DEF IInv, TypeOK, StorageType, CallersType, RoutesType,
       ReaderType, NetType, CallsInv, RoutesInv, Registered, HandleGet,
       RouteReturns, callerVars
  <2>3. RoutesType'
    <3>1. CASE RouteReturns(m)
      BY <3>1, RouteReturnsType DEF IInv, TypeOK
    <3>2. CASE ~RouteReturns(m)
      <4>1. subs[mtopic[m]] \in SUBSET Handlers
        BY DEF IInv, TypeOK, StorageType, RoutesInv, Registered, HandleGet
      <4> QED BY <3>2, <4>1 DEF IInv, TypeOK, RoutesType, HandleGet
    <3> QED BY <3>1, <3>2
  <2>4. ReaderType'
    BY WsConstants DEF IInv, TypeOK, StorageType, CallersType, RoutesType,
       ReaderType, NetType, CallsInv, RoutesInv, Registered, HandleGet,
       RouteReturns, readerVars
  <2>5. NetType'
    BY WsConstants DEF IInv, TypeOK, NetType, ReaderType, CallsInv, RoutesInv,
       Registered, HandleGet, RouteReturns, netVars
  <2>6. (fault \in Faults)'
    BY DEF IInv, TypeOK, HandleGet, Faults, RouteReturns
  <2> QED BY <2>1, <2>2, <2>3, <2>4, <2>5, <2>6 DEF TypeOK
<1>2. CallsInv' /\ RoutesInv'
  BY DEF IInv, TypeOK, StorageType, CallersType, RoutesType, ReaderType,
     NetType, CallsInv, RoutesInv, NetInv, Registered, HandleGet, RouteReturns,
     storageVars, callerVars, messageVars, readerVars, netVars
<1>3. StoredInv'
  BY DEF IInv, TypeOK, StorageType, CallersType, CallsInv, StoredInv,
     Registered, HandleGet, RouteReturns, storageVars, callerVars, messageVars,
     readerVars, netVars
<1>4. NetInv'
  BY DEF IInv, TypeOK, StorageType, CallersType, RoutesType, ReaderType,
     NetType, CallsInv, RoutesInv, StoredInv, NetInv, Registered, Frame,
     HandleGet, RouteReturns, storageVars, callerVars, messageVars, readerVars,
     netVars
<1>5. TopicRegistered'
  BY DEF IInv, RoutesInv, TopicRegistered, Registered, HandleGet, RouteReturns
<1> QED BY <1>1, <1>2, <1>3, <1>4, <1>5 DEF IInv

(* HandleSpawn starts a handler function; topics stay as they are.         *)
LEMMA Step_HandleSpawn ==
  ASSUME IInv, NEW m \in Messages, NEW h \in Handlers, HandleSpawn(m, h)
  PROVE  IInv'
<1>1. TypeOK'
  BY WsConstants DEF IInv, TypeOK, StorageType, CallersType, RoutesType,
     ReaderType, NetType, CallsInv, RoutesInv, Registered, Frame, Faults,
     HandleSpawn, storageVars, callerVars, messageVars, readerVars, netVars
<1>2. CallsInv' /\ RoutesInv'
  BY DEF IInv, TypeOK, StorageType, CallersType, RoutesType, ReaderType,
     NetType, CallsInv, RoutesInv, NetInv, Registered, HandleSpawn, storageVars,
     callerVars, messageVars, readerVars, netVars
<1>3. StoredInv'
  BY DEF IInv, TypeOK, StorageType, CallersType, CallsInv, StoredInv,
     Registered, HandleSpawn, storageVars, callerVars, messageVars, readerVars,
     netVars
<1>4. NetInv'
  BY DEF IInv, TypeOK, StorageType, CallersType, RoutesType, ReaderType,
     NetType, CallsInv, RoutesInv, StoredInv, NetInv, Registered, Frame,
     HandleSpawn, storageVars, callerVars, messageVars, readerVars, netVars
<1>5. TopicRegistered'
  BY DEF IInv, RoutesInv, TopicRegistered, Registered, HandleSpawn
<1> QED BY <1>1, <1>2, <1>3, <1>4, <1>5 DEF IInv

(* HandleRangeEnd leaves the loop; topics stay as they are.                *)
LEMMA Step_HandleRangeEnd ==
  ASSUME IInv, NEW m \in Messages, HandleRangeEnd(m)
  PROVE  IInv'
<1>1. TypeOK'
  BY WsConstants DEF IInv, TypeOK, StorageType, CallersType, RoutesType,
     ReaderType, NetType, CallsInv, RoutesInv, Registered, Frame, Faults,
     HandleRangeEnd, storageVars, callerVars, messageVars, readerVars, netVars
<1>2. CallsInv' /\ RoutesInv'
  BY DEF IInv, TypeOK, StorageType, CallersType, RoutesType, ReaderType,
     NetType, CallsInv, RoutesInv, NetInv, Registered, HandleRangeEnd,
     storageVars, callerVars, messageVars, readerVars, netVars
<1>3. StoredInv'
  BY DEF IInv, TypeOK, StorageType, CallersType, CallsInv, StoredInv,
     Registered, HandleRangeEnd, storageVars, callerVars, messageVars,
     readerVars, netVars
<1>4. NetInv'
  BY DEF IInv, TypeOK, StorageType, CallersType, RoutesType, ReaderType,
     NetType, CallsInv, RoutesInv, StoredInv, NetInv, Registered, Frame,
     HandleRangeEnd, storageVars, callerVars, messageVars, readerVars, netVars
<1>5. TopicRegistered'
  BY DEF IInv, RoutesInv, TopicRegistered, Registered, HandleRangeEnd
<1> QED BY <1>1, <1>2, <1>3, <1>4, <1>5 DEF IInv

(* HandlerReturns moves a handler from the running to the removing ones.   *)
LEMMA Step_HandlerReturns ==
  ASSUME IInv, NEW m \in Messages, NEW h \in Handlers, NEW rm \in BOOLEAN, HandlerReturns(m, h, rm)
  PROVE  IInv'
<1>1. TypeOK'
  BY WsConstants DEF IInv, TypeOK, StorageType, CallersType, RoutesType,
     ReaderType, NetType, CallsInv, RoutesInv, Registered, Frame, Faults,
     HandlerReturns, storageVars, callerVars, messageVars, readerVars, netVars
<1>2. CallsInv' /\ RoutesInv'
  BY DEF IInv, TypeOK, StorageType, CallersType, RoutesType, ReaderType,
     NetType, CallsInv, RoutesInv, NetInv, Registered, HandlerReturns,
     storageVars, callerVars, messageVars, readerVars, netVars
<1>3. StoredInv'
  BY DEF IInv, TypeOK, StorageType, CallersType, CallsInv, StoredInv,
     Registered, HandlerReturns, storageVars, callerVars, messageVars,
     readerVars, netVars
<1>4. NetInv'
  BY DEF IInv, TypeOK, StorageType, CallersType, RoutesType, ReaderType,
     NetType, CallsInv, RoutesInv, StoredInv, NetInv, Registered, Frame,
     HandlerReturns, storageVars, callerVars, messageVars, readerVars, netVars
<1>5. TopicRegistered'
  BY DEF IInv, RoutesInv, TopicRegistered, Registered, HandlerReturns
<1> QED BY <1>1, <1>2, <1>3, <1>4, <1>5 DEF IInv

(* HandlerRemove takes a handler out and keeps the key, whose topic stays  *)
(* registered.                                                             *)
LEMMA Step_HandlerRemove ==
  ASSUME IInv, NEW m \in Messages, NEW h \in Handlers, HandlerRemove(m, h)
  PROVE  IInv'
<1>0. CASE Die("mapRace")
  BY <1>0, DieInv DEF Faults
<1> SUFFICES ASSUME ~Die("mapRace") PROVE IInv'
  BY <1>0
<1>1. TypeOK'
  <2>1. StorageType'
    <3>1. /\ subs' = [subs EXCEPT ![mtopic[m]] = @ \ {h}]
          /\ UNCHANGED <<topicHandlers, entries, allocated>>
      BY DEF HandlerRemove, RemoveHandlers
    <3> QED BY <3>1 DEF IInv, TypeOK, StorageType
  <2>2. CallersType'
    BY WsConstants DEF IInv, TypeOK, StorageType, CallersType, RoutesType,
       ReaderType, NetType, CallsInv, RoutesInv, Registered, HandlerRemove,
       RemoveHandlers, callerVars
  <2>3. RoutesType'
    <3>1. PICK ok \in BOOLEAN : mchecking' = [mchecking EXCEPT ![m] =
                                   @ \cup {[handler |-> h, ok |-> ok]}]
      BY DEF HandlerRemove, RemoveFails
    <3>2. mchecking' \in [Messages -> SUBSET [handler : Handlers, ok : BOOLEAN]]
      BY <3>1 DEF IInv, TypeOK, RoutesType
    <3>3. mremoving' \in [Messages -> SUBSET Handlers]
      BY DEF IInv, TypeOK, RoutesType, HandlerRemove
    <3>4. UNCHANGED <<mpc, mtopic, minit, mspawned, mcalling, muid>>
      BY DEF HandlerRemove
    <3> QED BY <3>2, <3>3, <3>4 DEF IInv, TypeOK, RoutesType
  <2>4. ReaderType'
    BY WsConstants DEF IInv, TypeOK, StorageType, CallersType, RoutesType,
       ReaderType, NetType, CallsInv, RoutesInv, Registered, HandlerRemove,
       RemoveHandlers, readerVars
  <2>5. NetType'
    BY WsConstants DEF IInv, TypeOK, NetType, ReaderType, CallsInv, RoutesInv,
       Registered, HandlerRemove, RemoveHandlers, netVars
  <2>6. (fault \in Faults)'
    BY DEF IInv, TypeOK, HandlerRemove, Faults, RemoveHandlers
  <2> QED BY <2>1, <2>2, <2>3, <2>4, <2>5, <2>6 DEF TypeOK
<1>2. CallsInv' /\ RoutesInv'
  BY DEF IInv, TypeOK, StorageType, CallersType, RoutesType, ReaderType,
     NetType, CallsInv, RoutesInv, NetInv, Registered, HandlerRemove,
     RemoveHandlers, storageVars, callerVars, messageVars, readerVars, netVars
<1>3. StoredInv'
  BY DEF IInv, TypeOK, StorageType, CallersType, CallsInv, StoredInv,
     Registered, HandlerRemove, RemoveHandlers, storageVars, callerVars,
     messageVars, readerVars, netVars
<1>4. NetInv'
  BY DEF IInv, TypeOK, StorageType, CallersType, RoutesType, ReaderType,
     NetType, CallsInv, RoutesInv, StoredInv, NetInv, Registered, Frame,
     HandlerRemove, RemoveHandlers, storageVars, callerVars, messageVars,
     readerVars, netVars
<1>5. TopicRegistered'
  BY DEF IInv, RoutesInv, TopicRegistered, Registered, HandlerRemove,
     RemoveHandlers
<1> QED BY <1>1, <1>2, <1>3, <1>4, <1>5 DEF IInv

(* HandlerCheck forgets a removal, or the process dies of another fault.   *)
LEMMA Step_HandlerCheck ==
  ASSUME IInv, NEW m \in Messages, NEW r \in mchecking[m], HandlerCheck(m, r)
  PROVE  IInv'
<1>0. CASE Die("handlersNotFound")
  BY <1>0, DieInv DEF Faults
<1> SUFFICES ASSUME ~Die("handlersNotFound") PROVE IInv'
  BY <1>0
<1>1. TypeOK'
  <2>1. StorageType'
    BY WsConstants DEF IInv, TypeOK, StorageType, CallersType, RoutesType,
       ReaderType, NetType, CallsInv, RoutesInv, Registered, HandlerCheck,
       storageVars
  <2>2. CallersType'
    BY WsConstants DEF IInv, TypeOK, StorageType, CallersType, RoutesType,
       ReaderType, NetType, CallsInv, RoutesInv, Registered, HandlerCheck,
       callerVars
  <2>3. RoutesType'
    BY WsConstants, SMTT(30) DEF IInv, TypeOK, StorageType, CallersType, RoutesType,
       ReaderType, NetType, CallsInv, RoutesInv, Registered, HandlerCheck,
       messageVars
  <2>4. ReaderType'
    BY WsConstants DEF IInv, TypeOK, StorageType, CallersType, RoutesType,
       ReaderType, NetType, CallsInv, RoutesInv, Registered, HandlerCheck,
       readerVars
  <2>5. NetType'
    BY WsConstants DEF IInv, TypeOK, NetType, ReaderType, CallsInv, RoutesInv,
       Registered, HandlerCheck, netVars
  <2>6. (fault \in Faults)'
    BY DEF IInv, TypeOK, HandlerCheck, Faults
  <2> QED BY <2>1, <2>2, <2>3, <2>4, <2>5, <2>6 DEF TypeOK
<1>2. CallsInv' /\ RoutesInv'
  BY DEF IInv, TypeOK, StorageType, CallersType, RoutesType, ReaderType,
     NetType, CallsInv, RoutesInv, NetInv, Registered, HandlerCheck,
     storageVars, callerVars, messageVars, readerVars, netVars
<1>3. StoredInv'
  BY DEF IInv, TypeOK, StorageType, CallersType, CallsInv, StoredInv,
     Registered, HandlerCheck, storageVars, callerVars, messageVars, readerVars,
     netVars
<1>4. NetInv'
  BY DEF IInv, TypeOK, StorageType, CallersType, RoutesType, ReaderType,
     NetType, CallsInv, RoutesInv, StoredInv, NetInv, Registered, Frame,
     HandlerCheck, storageVars, callerVars, messageVars, readerVars, netVars
<1>5. TopicRegistered'
  BY DEF IInv, RoutesInv, TopicRegistered, Registered, HandlerCheck
<1> QED BY <1>1, <1>2, <1>3, <1>4, <1>5 DEF IInv

(* HandleAnswer ends the message or goes on to unsubscribe its topic.      *)
LEMMA Step_HandleAnswer ==
  ASSUME IInv, NEW m \in Messages, HandleAnswer(m)
  PROVE  IInv'
<1>1. TypeOK'
  <2>1. StorageType'
    BY WsConstants DEF IInv, TypeOK, StorageType, CallersType, RoutesType,
       ReaderType, NetType, CallsInv, RoutesInv, Registered, HandleAnswer,
       RouteReturns, storageVars
  <2>2. CallersType'
    BY WsConstants DEF IInv, TypeOK, StorageType, CallersType, RoutesType,
       ReaderType, NetType, CallsInv, RoutesInv, Registered, HandleAnswer,
       RouteReturns, callerVars
  <2>3. RoutesType'
    <3>1. CASE RouteReturns(m)
      BY <3>1, RouteReturnsType DEF IInv, TypeOK
    <3>2. CASE ~RouteReturns(m)
      BY <3>2 DEF IInv, TypeOK, RoutesType, HandleAnswer
    <3> QED BY <3>1, <3>2
  <2>4. ReaderType'
    BY WsConstants DEF IInv, TypeOK, StorageType, CallersType, RoutesType,
       ReaderType, NetType, CallsInv, RoutesInv, Registered, HandleAnswer,
       RouteReturns, readerVars
  <2>5. NetType'
    BY WsConstants DEF IInv, TypeOK, NetType, ReaderType, CallsInv, RoutesInv,
       Registered, HandleAnswer, RouteReturns, netVars
  <2>6. (fault \in Faults)'
    BY DEF IInv, TypeOK, HandleAnswer, Faults, RouteReturns
  <2> QED BY <2>1, <2>2, <2>3, <2>4, <2>5, <2>6 DEF TypeOK
<1>2. CallsInv' /\ RoutesInv'
  BY DEF IInv, TypeOK, StorageType, CallersType, RoutesType, ReaderType,
     NetType, CallsInv, RoutesInv, NetInv, Registered, HandleAnswer,
     RouteReturns, storageVars, callerVars, messageVars, readerVars, netVars
<1>3. StoredInv'
  BY DEF IInv, TypeOK, StorageType, CallersType, CallsInv, StoredInv,
     Registered, HandleAnswer, RouteReturns, storageVars, callerVars,
     messageVars, readerVars, netVars
<1>4. NetInv'
  BY DEF IInv, TypeOK, StorageType, CallersType, RoutesType, ReaderType,
     NetType, CallsInv, RoutesInv, StoredInv, NetInv, Registered, Frame,
     HandleAnswer, RouteReturns, storageVars, callerVars, messageVars,
     readerVars, netVars
<1>5. TopicRegistered'
  BY DEF IInv, RoutesInv, TopicRegistered, Registered, HandleAnswer,
     RouteReturns
<1> QED BY <1>1, <1>2, <1>3, <1>4, <1>5 DEF IInv

(* RouteReadUid copies the router's uid, which is that of a connection.    *)
LEMMA Step_RouteReadUid ==
  ASSUME IInv, NEW m \in Messages, RouteReadUid(m)
  PROVE  IInv'
<1>1. TypeOK'
  BY WsConstants DEF IInv, TypeOK, StorageType, CallersType, RoutesType,
     ReaderType, NetType, CallsInv, RoutesInv, Registered, Frame, Faults,
     RouteReadUid, storageVars, callerVars, messageVars, readerVars, netVars
<1>2. CallsInv' /\ RoutesInv'
  BY DEF IInv, TypeOK, StorageType, CallersType, RoutesType, ReaderType,
     NetType, CallsInv, RoutesInv, NetInv, Registered, RouteReadUid,
     storageVars, callerVars, messageVars, readerVars, netVars
<1>3. StoredInv'
  BY DEF IInv, TypeOK, StorageType, CallersType, CallsInv, StoredInv,
     Registered, RouteReadUid, storageVars, callerVars, messageVars, readerVars,
     netVars
<1>4. NetInv'
  BY DEF IInv, TypeOK, StorageType, CallersType, RoutesType, ReaderType,
     NetType, CallsInv, RoutesInv, StoredInv, NetInv, Registered, Frame,
     RouteReadUid, storageVars, callerVars, messageVars, readerVars, netVars
<1>5. TopicRegistered'
  BY DEF IInv, RoutesInv, TopicRegistered, Registered, RouteReadUid
<1> QED BY <1>1, <1>2, <1>3, <1>4, <1>5 DEF IInv

(* RoutePublish puts a frame of a registered topic on the wire, or the     *)
(* process dies of another fault.                                          *)
LEMMA Step_RoutePublish ==
  ASSUME IInv, NEW m \in Messages, RoutePublish(m)
  PROVE  IInv'
<1>0. CASE Die("unsubscribe")
  BY <1>0, DieInv DEF Faults
<1> SUFFICES ASSUME ~Die("unsubscribe") PROVE IInv'
  BY <1>0
<1>w. /\ wire' \in Seq(Frame)
      /\ \A i \in 1..Len(wire') : Registered(wire[i].topic)'
  <2>1. mtopic[m] \in Topics /\ Registered(mtopic[m]) /\ muid[m] \in 1..MaxConns
    BY DEF IInv, TypeOK, CallersType, RoutesType, ReaderType, CallsInv, RoutesInv,
       NetInv, Registered, RoutePublish
  <2>2. CASE WriteOk("unsubscribe", mtopic[m], muid[m])
    BY <2>1, <2>2, WriteInv DEF IInv, RoutePublish, storageVars
  <2>3. CASE UNCHANGED wire
    BY <2>3 DEF IInv, TypeOK, NetType, NetInv, Registered, RoutePublish, storageVars
  <2> QED BY <2>2, <2>3 DEF RoutePublish
<1>1. TypeOK'
  <2>1. StorageType'
    BY WsConstants DEF IInv, TypeOK, StorageType, CallersType, RoutesType,
       ReaderType, NetType, CallsInv, RoutesInv, Registered, RoutePublish,
       RouteReturns, storageVars
  <2>2. CallersType'
    BY WsConstants DEF IInv, TypeOK, StorageType, CallersType, RoutesType,
       ReaderType, NetType, CallsInv, RoutesInv, Registered, RoutePublish,
       RouteReturns, callerVars
  <2>3. RoutesType'
    BY RouteReturnsType DEF IInv, TypeOK, RoutePublish
  <2>4. ReaderType'
    BY WsConstants DEF IInv, TypeOK, StorageType, CallersType, RoutesType,
       ReaderType, NetType, CallsInv, RoutesInv, Registered, RoutePublish,
       RouteReturns, readerVars
  <2>5. NetType'
    BY <1>w, WsConstants DEF IInv, TypeOK, NetType, ReaderType, CallsInv,
       RoutesInv, Registered, RoutePublish, RouteReturns, netVars
  <2>6. (fault \in Faults)'
    BY DEF IInv, TypeOK, RoutePublish, Faults, RouteReturns
  <2> QED BY <2>1, <2>2, <2>3, <2>4, <2>5, <2>6 DEF TypeOK
<1>2. CallsInv' /\ RoutesInv'
  BY DEF IInv, TypeOK, StorageType, CallersType, RoutesType, ReaderType,
     NetType, CallsInv, RoutesInv, NetInv, Registered, RoutePublish,
     RouteReturns, storageVars, callerVars, messageVars, readerVars, netVars
<1>3. StoredInv'
  BY DEF IInv, TypeOK, StorageType, CallersType, CallsInv, StoredInv,
     Registered, RoutePublish, RouteReturns, storageVars, callerVars,
     messageVars, readerVars, netVars
<1>4. NetInv'
  BY <1>w DEF IInv, TypeOK, StorageType, CallersType, RoutesType, ReaderType,
     NetType, CallsInv, RoutesInv, StoredInv, NetInv, Registered, Frame,
     RoutePublish, RouteReturns, storageVars, callerVars, messageVars,
     readerVars, netVars
<1>5. TopicRegistered'
  BY DEF IInv, RoutesInv, TopicRegistered, Registered, RoutePublish,
     RouteReturns
<1> QED BY <1>1, <1>2, <1>3, <1>4, <1>5 DEF IInv

(* ServerReceive moves the topic of a frame, registered by NetInv, to the  *)
(* subscriptions.                                                          *)
LEMMA Step_ServerReceive ==
  ASSUME IInv, ServerReceive
  PROVE  IInv'
<1>w. /\ wire' \in Seq(Frame)
      /\ \A i \in 1..Len(wire') : Registered(wire[i].topic)'
      /\ Head(wire).topic \in Topics /\ Registered(Head(wire).topic)
  <2>1. wire \in Seq(Frame) /\ wire # <<>> /\ wire' = Tail(wire)
    BY DEF IInv, TypeOK, NetType, ServerReceive
  <2>2. /\ wire' \in Seq(Frame)
        /\ Len(wire) \in Nat /\ Len(wire) > 0
        /\ Len(wire') = Len(wire) - 1
        /\ \A i \in 1..Len(wire') : wire'[i] = wire[i + 1]
        /\ Head(wire) = wire[1] /\ Head(wire) \in Frame
    BY <2>1
  <2>3. Head(wire).topic \in Topics /\ Registered(Head(wire).topic)
    BY <2>2 DEF IInv, NetInv, Frame
  <2>4. \A i \in 1..Len(wire') : Registered(wire[i].topic)'
    BY <2>2 DEF IInv, NetInv, Registered, ServerReceive, storageVars
  <2> QED BY <2>2, <2>3, <2>4
<1>1. TypeOK'
  <2>1. StorageType'
    BY WsConstants DEF IInv, TypeOK, StorageType, CallersType, RoutesType,
       ReaderType, NetType, CallsInv, RoutesInv, Registered, ServerReceive,
       storageVars
  <2>2. CallersType'
    BY WsConstants DEF IInv, TypeOK, StorageType, CallersType, RoutesType,
       ReaderType, NetType, CallsInv, RoutesInv, Registered, ServerReceive,
       callerVars
  <2>3. RoutesType'
    BY WsConstants DEF IInv, TypeOK, StorageType, CallersType, RoutesType,
       ReaderType, NetType, CallsInv, RoutesInv, Registered, ServerReceive,
       messageVars
  <2>4. ReaderType'
    BY WsConstants DEF IInv, TypeOK, StorageType, CallersType, RoutesType,
       ReaderType, NetType, CallsInv, RoutesInv, Registered, ServerReceive,
       readerVars
  <2>5. NetType'
    BY <1>w, WsConstants DEF IInv, TypeOK, NetType, ReaderType, CallsInv,
       RoutesInv, Registered, ServerReceive, netVars
  <2>6. (fault \in Faults)'
    BY DEF IInv, TypeOK, ServerReceive, Faults
  <2> QED BY <2>1, <2>2, <2>3, <2>4, <2>5, <2>6 DEF TypeOK
<1>2. CallsInv' /\ RoutesInv'
  BY DEF IInv, TypeOK, StorageType, CallersType, RoutesType, ReaderType,
     NetType, CallsInv, RoutesInv, NetInv, Registered, ServerReceive,
     storageVars, callerVars, messageVars, readerVars, netVars
<1>3. StoredInv'
  BY DEF IInv, TypeOK, StorageType, CallersType, CallsInv, StoredInv,
     Registered, ServerReceive, storageVars, callerVars, messageVars,
     readerVars, netVars
<1>4. NetInv'
  BY <1>w DEF IInv, TypeOK, StorageType, CallersType, RoutesType, ReaderType,
     NetType, CallsInv, RoutesInv, StoredInv, NetInv, Registered, Frame,
     ServerReceive, storageVars, callerVars, messageVars, readerVars, netVars
<1>5. TopicRegistered'
  BY DEF IInv, RoutesInv, TopicRegistered, Registered, ServerReceive
<1> QED BY <1>1, <1>2, <1>3, <1>4, <1>5 DEF IInv

(* ConnectionLost empties the wire and the subscriptions.                  *)
LEMMA Step_ConnectionLost ==
  ASSUME IInv, ConnectionLost
  PROVE  IInv'
<1>1. TypeOK'
  <2>1. StorageType'
    BY WsConstants DEF IInv, TypeOK, StorageType, CallersType, RoutesType,
       ReaderType, NetType, CallsInv, RoutesInv, Registered, ConnectionLost,
       storageVars
  <2>2. CallersType'
    BY WsConstants DEF IInv, TypeOK, StorageType, CallersType, RoutesType,
       ReaderType, NetType, CallsInv, RoutesInv, Registered, ConnectionLost,
       callerVars
  <2>3. RoutesType'
    BY WsConstants DEF IInv, TypeOK, StorageType, CallersType, RoutesType,
       ReaderType, NetType, CallsInv, RoutesInv, Registered, ConnectionLost,
       messageVars
  <2>4. ReaderType'
    BY WsConstants DEF IInv, TypeOK, StorageType, CallersType, RoutesType,
       ReaderType, NetType, CallsInv, RoutesInv, Registered, ConnectionLost,
       readerVars
  <2>5. NetType'
    <3>1. /\ up' = FALSE /\ serverSubs' = {} /\ wire' = <<>>
          /\ UNCHANGED nconn
      BY DEF ConnectionLost
    <3>2. <<>> \in Seq(Frame)
      OBVIOUS
    <3> QED BY <3>1, <3>2 DEF IInv, TypeOK, NetType
  <2>6. (fault \in Faults)'
    BY DEF IInv, TypeOK, ConnectionLost, Faults
  <2> QED BY <2>1, <2>2, <2>3, <2>4, <2>5, <2>6 DEF TypeOK
<1>2. CallsInv' /\ RoutesInv'
  BY DEF IInv, TypeOK, StorageType, CallersType, RoutesType, ReaderType,
     NetType, CallsInv, RoutesInv, NetInv, Registered, ConnectionLost,
     storageVars, callerVars, messageVars, readerVars, netVars
<1>3. StoredInv'
  BY DEF IInv, TypeOK, StorageType, CallersType, CallsInv, StoredInv,
     Registered, ConnectionLost, storageVars, callerVars, messageVars,
     readerVars, netVars
<1>4. NetInv'
  BY DEF IInv, TypeOK, StorageType, CallersType, RoutesType, ReaderType,
     NetType, CallsInv, RoutesInv, StoredInv, NetInv, Registered, Frame,
     ConnectionLost, storageVars, callerVars, messageVars, readerVars, netVars
<1>5. TopicRegistered'
  BY DEF IInv, RoutesInv, TopicRegistered, Registered, ConnectionLost
<1> QED BY <1>1, <1>2, <1>3, <1>4, <1>5 DEF IInv

(* ReadCloseError changes the reader's control only.                       *)
LEMMA Step_ReadCloseError ==
  ASSUME IInv, ReadCloseError
  PROVE  IInv'
<1>1. TypeOK'
  BY WsConstants DEF IInv, TypeOK, StorageType, CallersType, RoutesType,
     ReaderType, NetType, CallsInv, RoutesInv, Registered, Frame, Faults,
     ReadCloseError, storageVars, callerVars, messageVars, readerVars, netVars
<1>2. CallsInv' /\ RoutesInv'
  BY DEF IInv, TypeOK, StorageType, CallersType, RoutesType, ReaderType,
     NetType, CallsInv, RoutesInv, NetInv, Registered, ReadCloseError,
     storageVars, callerVars, messageVars, readerVars, netVars
<1>3. StoredInv'
  BY DEF IInv, TypeOK, StorageType, CallersType, CallsInv, StoredInv,
     Registered, ReadCloseError, storageVars, callerVars, messageVars,
     readerVars, netVars
<1>4. NetInv'
  BY DEF IInv, TypeOK, StorageType, CallersType, RoutesType, ReaderType,
     NetType, CallsInv, RoutesInv, StoredInv, NetInv, Registered, Frame,
     ReadCloseError, storageVars, callerVars, messageVars, readerVars, netVars
<1>5. TopicRegistered'
  BY DEF IInv, RoutesInv, TopicRegistered, Registered, ReadCloseError
<1> QED BY <1>1, <1>2, <1>3, <1>4, <1>5 DEF IInv

(* Reconnect opens a connection within the bound, with nothing on its      *)
(* wire.                                                                   *)
LEMMA Step_Reconnect ==
  ASSUME IInv, Reconnect
  PROVE  IInv'
<1>1. TypeOK'
  BY WsConstants DEF IInv, TypeOK, StorageType, CallersType, RoutesType,
     ReaderType, NetType, CallsInv, RoutesInv, Registered, Frame, Faults,
     Reconnect, storageVars, callerVars, messageVars, readerVars, netVars
<1>2. CallsInv' /\ RoutesInv'
  BY DEF IInv, TypeOK, StorageType, CallersType, RoutesType, ReaderType,
     NetType, CallsInv, RoutesInv, NetInv, Registered, Reconnect, storageVars,
     callerVars, messageVars, readerVars, netVars
<1>3. StoredInv'
  BY DEF IInv, TypeOK, StorageType, CallersType, CallsInv, StoredInv,
     Registered, Reconnect, storageVars, callerVars, messageVars, readerVars,
     netVars
<1>4. NetInv'
  BY DEF IInv, TypeOK, StorageType, CallersType, RoutesType, ReaderType,
     NetType, CallsInv, RoutesInv, StoredInv, NetInv, Registered, Frame,
     Reconnect, storageVars, callerVars, messageVars, readerVars, netVars
<1>5. TopicRegistered'
  BY DEF IInv, RoutesInv, TopicRegistered, Registered, Reconnect
<1> QED BY <1>1, <1>2, <1>3, <1>4, <1>5 DEF IInv

(* SetConn gives the publisher the newest connection.                      *)
LEMMA Step_SetConn ==
  ASSUME IInv, SetConn
  PROVE  IInv'
<1>1. TypeOK'
  BY WsConstants DEF IInv, TypeOK, StorageType, CallersType, RoutesType,
     ReaderType, NetType, CallsInv, RoutesInv, Registered, Frame, Faults,
     SetConn, storageVars, callerVars, messageVars, readerVars, netVars
<1>2. CallsInv' /\ RoutesInv'
  BY DEF IInv, TypeOK, StorageType, CallersType, RoutesType, ReaderType,
     NetType, CallsInv, RoutesInv, NetInv, Registered, SetConn, storageVars,
     callerVars, messageVars, readerVars, netVars
<1>3. StoredInv'
  BY DEF IInv, TypeOK, StorageType, CallersType, CallsInv, StoredInv,
     Registered, SetConn, storageVars, callerVars, messageVars, readerVars,
     netVars
<1>4. NetInv'
  BY DEF IInv, TypeOK, StorageType, CallersType, RoutesType, ReaderType,
     NetType, CallsInv, RoutesInv, StoredInv, NetInv, Registered, Frame,
     SetConn, storageVars, callerVars, messageVars, readerVars, netVars
<1>5. TopicRegistered'
  BY DEF IInv, RoutesInv, TopicRegistered, Registered, SetConn
<1> QED BY <1>1, <1>2, <1>3, <1>4, <1>5 DEF IInv

(* SetUid gives the router the client's uid and starts the list of         *)
(* channels.                                                               *)
LEMMA Step_SetUid ==
  ASSUME IInv, SetUid
  PROVE  IInv'
<1>1. TypeOK'
  BY WsConstants DEF IInv, TypeOK, StorageType, CallersType, RoutesType,
     ReaderType, NetType, CallsInv, RoutesInv, Registered, Frame, Faults,
     SetUid, storageVars, callerVars, messageVars, readerVars, netVars
<1>2. CallsInv' /\ RoutesInv'
  BY DEF IInv, TypeOK, StorageType, CallersType, RoutesType, ReaderType,
     NetType, CallsInv, RoutesInv, NetInv, Registered, SetUid, storageVars,
     callerVars, messageVars, readerVars, netVars
<1>3. StoredInv'
  BY DEF IInv, TypeOK, StorageType, CallersType, CallsInv, StoredInv,
     Registered, SetUid, storageVars, callerVars, messageVars, readerVars,
     netVars
<1>4. NetInv'
  BY DEF IInv, TypeOK, StorageType, CallersType, RoutesType, ReaderType,
     NetType, CallsInv, RoutesInv, StoredInv, NetInv, Registered, Frame, SetUid,
     storageVars, callerVars, messageVars, readerVars, netVars
<1>5. TopicRegistered'
  BY DEF IInv, RoutesInv, TopicRegistered, Registered, SetUid
<1> QED BY <1>1, <1>2, <1>3, <1>4, <1>5 DEF IInv

(* ResubscribeList takes topics with handlers or keys, registered by       *)
(* StoredInv.                                                              *)
LEMMA Step_ResubscribeList ==
  ASSUME IInv, ResubscribeList
  PROVE  IInv'
<1>1. TypeOK'
  BY WsConstants DEF IInv, TypeOK, StorageType, CallersType, RoutesType,
     ReaderType, NetType, CallsInv, RoutesInv, Registered, Frame, Faults,
     ResubscribeList, GetAddresses, HasHandlers, storageVars, callerVars,
     messageVars, readerVars, netVars
<1>2. CallsInv' /\ RoutesInv'
  BY DEF IInv, TypeOK, StorageType, CallersType, RoutesType, ReaderType,
     NetType, CallsInv, RoutesInv, NetInv, Registered, ResubscribeList,
     GetAddresses, HasHandlers, storageVars, callerVars, messageVars,
     readerVars, netVars
<1>3. StoredInv'
  BY DEF IInv, TypeOK, StorageType, CallersType, CallsInv, StoredInv,
     Registered, ResubscribeList, GetAddresses, HasHandlers, storageVars,
     callerVars, messageVars, readerVars, netVars
<1>4. NetInv'
  BY DEF IInv, TypeOK, StorageType, CallersType, RoutesType, ReaderType,
     NetType, CallsInv, RoutesInv, StoredInv, NetInv, Registered, Frame,
     ResubscribeList, GetAddresses, HasHandlers, storageVars, callerVars,
     messageVars, readerVars, netVars
<1>5. TopicRegistered'
  BY DEF IInv, RoutesInv, TopicRegistered, Registered, ResubscribeList,
     GetAddresses, HasHandlers
<1> QED BY <1>1, <1>2, <1>3, <1>4, <1>5 DEF IInv

(* ResubscribePublish puts a frame of a listed, hence registered, topic on *)
(* the wire.                                                               *)
LEMMA Step_ResubscribePublish ==
  ASSUME IInv, NEW t \in Topics, ResubscribePublish(t)
  PROVE  IInv'
<1>w. /\ wire' \in Seq(Frame)
      /\ \A i \in 1..Len(wire') : Registered(wire[i].topic)'
  <2>1. t \in Topics /\ Registered(t) /\ clientUid \in 1..MaxConns
    BY DEF IInv, TypeOK, CallersType, RoutesType, ReaderType, CallsInv, RoutesInv,
       NetInv, Registered, ResubscribePublish
  <2>2. CASE WriteOk("subscribe", t, clientUid)
    BY <2>1, <2>2, WriteInv DEF IInv, ResubscribePublish, storageVars
  <2>3. CASE UNCHANGED wire
    BY <2>3 DEF IInv, TypeOK, NetType, NetInv, Registered, ResubscribePublish, storageVars
  <2> QED BY <2>2, <2>3 DEF ResubscribePublish
<1>1. TypeOK'
  <2>1. StorageType'
    BY WsConstants DEF IInv, TypeOK, StorageType, CallersType, RoutesType,
       ReaderType, NetType, CallsInv, RoutesInv, Registered, ResubscribePublish,
       storageVars
  <2>2. CallersType'
    BY WsConstants DEF IInv, TypeOK, StorageType, CallersType, RoutesType,
       ReaderType, NetType, CallsInv, RoutesInv, Registered, ResubscribePublish,
       callerVars
  <2>3. RoutesType'
    BY WsConstants DEF IInv, TypeOK, StorageType, CallersType, RoutesType,
       ReaderType, NetType, CallsInv, RoutesInv, Registered, ResubscribePublish,
       messageVars
  <2>4. ReaderType'
    <3>1. UNCHANGED <<clientUid, routerUid, pubConn>>
      BY DEF ResubscribePublish
    <3>2. <<>> \in Seq(Channels)
      OBVIOUS
    <3>3. rpc' \in {rpc, "tick"} /\ rchans' \in {rchans, <<>>}
      BY DEF ResubscribePublish
    <3>4. rtopics' \in SUBSET Topics
      BY DEF IInv, TypeOK, ReaderType, ResubscribePublish
    <3> QED BY <3>1, <3>2, <3>3, <3>4 DEF IInv, TypeOK, ReaderType
  <2>5. NetType'
    BY <1>w, WsConstants DEF IInv, TypeOK, NetType, ReaderType, CallsInv,
       RoutesInv, Registered, ResubscribePublish, netVars
  <2>6. (fault \in Faults)'
    BY DEF IInv, TypeOK, ResubscribePublish, Faults
  <2> QED BY <2>1, <2>2, <2>3, <2>4, <2>5, <2>6 DEF TypeOK
<1>2. CallsInv' /\ RoutesInv'
  BY DEF IInv, TypeOK, StorageType, CallersType, RoutesType, ReaderType,
     NetType, CallsInv, RoutesInv, NetInv, Registered, ResubscribePublish,
     storageVars, callerVars, messageVars, readerVars, netVars
<1>3. StoredInv'
  BY DEF IInv, TypeOK, StorageType, CallersType, CallsInv, StoredInv,
     Registered, ResubscribePublish, storageVars, callerVars, messageVars,
     readerVars, netVars
<1>4. NetInv'
  BY <1>w DEF IInv, TypeOK, StorageType, CallersType, RoutesType, ReaderType,
     NetType, CallsInv, RoutesInv, StoredInv, NetInv, Registered, Frame,
     ResubscribePublish, storageVars, callerVars, messageVars, readerVars,
     netVars
<1>5. TopicRegistered'
  BY DEF IInv, RoutesInv, TopicRegistered, Registered, ResubscribePublish
<1> QED BY <1>1, <1>2, <1>3, <1>4, <1>5 DEF IInv

(* ResubscribeDone changes the reader's control only.                      *)
LEMMA Step_ResubscribeDone ==
  ASSUME IInv, ResubscribeDone
  PROVE  IInv'
<1>1. TypeOK'
  BY WsConstants DEF IInv, TypeOK, StorageType, CallersType, RoutesType,
     ReaderType, NetType, CallsInv, RoutesInv, Registered, Frame, Faults,
     ResubscribeDone, storageVars, callerVars, messageVars, readerVars, netVars
<1>2. CallsInv' /\ RoutesInv'
  BY DEF IInv, TypeOK, StorageType, CallersType, RoutesType, ReaderType,
     NetType, CallsInv, RoutesInv, NetInv, Registered, ResubscribeDone,
     storageVars, callerVars, messageVars, readerVars, netVars
<1>3. StoredInv'
  BY DEF IInv, TypeOK, StorageType, CallersType, CallsInv, StoredInv,
     Registered, ResubscribeDone, storageVars, callerVars, messageVars,
     readerVars, netVars
<1>4. NetInv'
  BY DEF IInv, TypeOK, StorageType, CallersType, RoutesType, ReaderType,
     NetType, CallsInv, RoutesInv, StoredInv, NetInv, Registered, Frame,
     ResubscribeDone, storageVars, callerVars, messageVars, readerVars, netVars
<1>5. TopicRegistered'
  BY DEF IInv, RoutesInv, TopicRegistered, Registered, ResubscribeDone
<1> QED BY <1>1, <1>2, <1>3, <1>4, <1>5 DEF IInv

(* Every step of the client preserves the invariant.                       *)
LEMMA StepInv == IInv /\ [Next]_vars => IInv'
<1> SUFFICES ASSUME IInv, [Next]_vars PROVE IInv'
  OBVIOUS
<1>1. CASE UNCHANGED vars
  <2>1. TypeOK' /\ TopicRegistered'
    BY <1>1 DEF IInv, TypeOK, StorageType, CallersType, RoutesType, ReaderType,
       NetType, TopicRegistered, vars, storageVars, callerVars, messageVars,
       readerVars, netVars
  <2>2. CallsInv' /\ RoutesInv' /\ StoredInv' /\ NetInv'
    BY <1>1 DEF IInv, CallsInv, RoutesInv, StoredInv, NetInv, Registered, vars,
       storageVars, callerVars, messageVars, readerVars, netVars
  <2> QED BY <2>1, <2>2 DEF IInv
<1>2. CASE \E c \in Callers, t \in Topics, hs \in SUBSET Handlers : AddStart(c, t, hs)
  BY <1>2, Step_AddStart
<1>3. CASE \E c \in Callers : CallerSteps(c)
  BY <1>3, Step_AddHas, Step_AddRegister, Step_AddCheck, Step_AddReadUid,
     Step_AddPublish, Step_AddStore DEF CallerSteps
<1>4. CASE \E m \in Messages, t \in Topics : Deliver(m, t)
  BY <1>4, Step_Deliver
<1>5. CASE \E m \in Messages : RouteSteps(m)
  BY <1>5, Step_RouteLookup, Step_HandleGet, Step_HandleSpawn, Step_HandleRangeEnd,
     Step_HandlerRemove, Step_HandlerCheck, Step_HandleAnswer, Step_RouteReadUid,
     Step_RoutePublish DEF RouteSteps
<1>6. CASE \E m \in Messages, h \in Handlers, rm \in BOOLEAN : HandlerReturns(m, h, rm)
  BY <1>6, Step_HandlerReturns
<1>7. CASE ServerReceive \/ ConnectionLost
  BY <1>7, Step_ServerReceive, Step_ConnectionLost
<1>8. CASE ReaderSteps
  BY <1>8, Step_ReadCloseError, Step_Reconnect, Step_SetConn, Step_SetUid,
     Step_ResubscribeList, Step_ResubscribePublish, Step_ResubscribeDone
     DEF ReaderSteps
<1> QED BY <1>1, <1>2, <1>3, <1>4, <1>5, <1>6, <1>7, <1>8 DEF Next

(* Every reachable state of the client is well typed, whatever goroutines  *)
(* run beside each other.                                                  *)
THEOREM TypeCorrect == Spec => []TypeOK
<1>1. IInv => TypeOK
  BY DEF IInv
<1> QED BY <1>1, InitInv, StepInv, PTL DEF Spec

(* The panic of RouteMessage on a channel without topic handler            *)
(* (router.go:41) is unreachable: registration precedes every subscription *)
(* frame, and reconnect subscribes only to what was stored after one.      *)
THEOREM TopicAlwaysRegistered == Spec => []TopicRegistered
<1>1. IInv => TopicRegistered
  BY DEF IInv
<1> QED BY <1>1, InitInv, StepInv, PTL DEF Spec

(***************************************************************************)
(* The subscriptions of the node, which lags behind the frames on the      *)
(* wire.  Expects(t) is what it will have made of t when the wire is       *)
(* empty; the invariants relate it to the storages and to the goroutines   *)
(* that are about to change them.                                          *)
(***************************************************************************)

(* A frame the node obeys when it comes to it.                             *)
Concerns(f, t) == f.topic = t /\ f.uid = nconn

Expects(t) ==
    \/ /\ t \in serverSubs
       /\ \A i \in 1..Len(wire) : ~Concerns(wire[i], t)
    \/ \E i \in 1..Len(wire) :
          /\ Concerns(wire[i], t) /\ wire[i].op = "subscribe"
          /\ \A j \in 1..Len(wire) : i < j => ~Concerns(wire[j], t)

(***************************************************************************)
(* What the steps do to Expects.                                           *)
(***************************************************************************)

(* Nothing changes it but a frame, a receipt or another connection.        *)
LEMMA ExpectsKept ==
    ASSUME UNCHANGED <<nconn, wire, serverSubs>>
    PROVE  \A t \in Topics : Expects(t)' <=> Expects(t)
BY DEF Expects, Concerns

(* A frame for another topic, or with a stale uid, does not concern t; a   *)
(* frame that does is the last word on it.                                 *)
LEMMA ExpectsAppend ==
    ASSUME NetType, NEW f \in Frame, NEW t \in Topics,
           wire' = Append(wire, f), UNCHANGED <<nconn, serverSubs>>
    PROVE  Expects(t)' <=> IF Concerns(f, t) THEN f.op = "subscribe" ELSE Expects(t)
<1> DEFINE n == Len(wire)
<1>1. n \in Nat  BY DEF NetType
<1>2. /\ Len(wire') = n + 1 /\ wire'[n + 1] = f
      /\ \A i \in 1..n : wire'[i] = wire[i]
  BY DEF NetType
<1> DEFINE C(g) == g.topic = t /\ g.uid = nconn
<1>4. /\ Concerns(f, t) <=> C(f)
      /\ \A i \in 1..n : Concerns(wire[i], t) <=> C(wire[i])
  BY DEF Concerns
<1>5. Expects(t)' <=>
         \/ t \in serverSubs /\ \A i \in 1..n + 1 : ~C(wire'[i])
         \/ \E i \in 1..n + 1 : /\ C(wire'[i]) /\ wire'[i].op = "subscribe"
                                /\ \A j \in 1..n + 1 : i < j => ~C(wire'[j])
  BY <1>2 DEF Expects, Concerns
<1>6. Expects(t) <=>
         \/ t \in serverSubs /\ \A i \in 1..n : ~C(wire[i])
         \/ \E i \in 1..n : /\ C(wire[i]) /\ wire[i].op = "subscribe"
                            /\ \A j \in 1..n : i < j => ~C(wire[j])
  BY DEF Expects, Concerns
<1> HIDE DEF C, n
<1>7. CASE C(f)
  <2>1. Expects(t)' <=> f.op = "subscribe"  BY <1>1, <1>2, <1>5, <1>7
  <2> QED  BY <1>4, <1>7, <2>1
<1>8. CASE ~C(f)
  <2>1. Expects(t)' <=> Expects(t)  BY <1>1, <1>2, <1>5, <1>6, <1>8
  <2> QED  BY <1>4, <1>8, <2>1
<1> QED  BY <1>7, <1>8

(* The node comes to a frame: what it will have made of t is the same.     *)
LEMMA ExpectsReceive ==
    ASSUME NetType, ServerReceive, NEW t \in Topics
    PROVE  Expects(t)' <=> Expects(t)
<1> DEFINE n == Len(wire)  C(g) == g.topic = t /\ g.uid = nconn  f == wire[1]
<1>1. n \in Nat \ {0}  BY DEF NetType, ServerReceive
<1>2. /\ Len(wire') = n - 1 /\ \A i \in 1..n - 1 : wire'[i] = wire[i + 1]
      /\ Head(wire) = f /\ nconn' = nconn
  BY <1>1 DEF NetType, ServerReceive
<1>3. f \in Frame  BY <1>1 DEF NetType
<1>4. Expects(t)' <=>
         \/ t \in serverSubs' /\ \A i \in 1..n - 1 : ~C(wire'[i])
         \/ \E i \in 1..n - 1 : /\ C(wire'[i]) /\ wire'[i].op = "subscribe"
                                /\ \A j \in 1..n - 1 : i < j => ~C(wire'[j])
  BY <1>2 DEF Expects, Concerns
<1>5. Expects(t) <=>
         \/ t \in serverSubs /\ \A i \in 1..n : ~C(wire[i])
         \/ \E i \in 1..n : /\ C(wire[i]) /\ wire[i].op = "subscribe"
                            /\ \A j \in 1..n : i < j => ~C(wire[j])
  BY DEF Expects, Concerns
<1>6. t \in serverSubs' <=> IF C(f) THEN f.op = "subscribe" ELSE t \in serverSubs
  BY <1>2, <1>3 DEF ServerReceive, Frame
<1> HIDE DEF n, C, f
<1>7. \A i \in 2..n : i - 1 \in 1..n - 1 /\ wire'[i - 1] = wire[i]
  BY <1>1, <1>2
<1>8. \A i \in 1..n - 1 : i + 1 \in 2..n /\ wire'[i] = wire[i + 1]
  BY <1>1, <1>2
<1>9. \A i \in 1..n : i = 1 \/ i \in 2..n  BY <1>1
<1>10. 1 \in 1..n /\ wire[1] = f  BY <1>1 DEF f
<1>11. CASE C(f)
  <2>1. ASSUME Expects(t)' PROVE Expects(t)
    BY <1>1, <1>4, <1>5, <1>6, <1>7, <1>8, <1>9, <1>10, <1>11, <2>1
  <2>2. ASSUME Expects(t) PROVE Expects(t)'
    BY <1>1, <1>4, <1>5, <1>6, <1>7, <1>8, <1>9, <1>10, <1>11, <2>2
  <2> QED  BY <2>1, <2>2
<1>12. CASE ~C(f)
  <2>1. ASSUME Expects(t)' PROVE Expects(t)
    BY <1>1, <1>4, <1>5, <1>6, <1>7, <1>8, <1>9, <1>10, <1>12, <2>1
  <2>2. ASSUME Expects(t) PROVE Expects(t)'
    BY <1>1, <1>4, <1>5, <1>6, <1>7, <1>8, <1>9, <1>10, <1>12, <2>2
  <2> QED  BY <2>1, <2>2
<1> QED  BY <1>11, <1>12

(***************************************************************************)
(* On the first connection.                                                *)
(*                                                                         *)
(* Where the node will be subscribed to t, somebody handles t or is about  *)
(* to see to it: handlers are stored, a call will store some, or a message *)
(* whose handlers were called will test whether any are left and           *)
(* unsubscribe.                                                            *)
(***************************************************************************)
Adding(c, t) == ctopic[c] = t /\ cpc[c] = "add"

Answering(m, t) == mtopic[m] = t /\ mpc[m] \in {"range", "wait", "uid", "publish"}

Handled(t) ==
    \/ subs[t] # {}
    \/ \E c \in Callers : Adding(c, t)
    \/ \E m \in Messages : Answering(m, t)

HandledInv == nconn = 1 /\ up => \A t \in Topics : Expects(t) => Handled(t)

(* Everybody knows the first connection and its uid.                       *)
FirstConn ==
    nconn = 1 =>
        /\ pubConn = 1 /\ routerUid = 1 /\ rpc \in {"read", "tick"}
        /\ \A m \in Messages : muid[m] = 1

(* Handle waits for the goroutines it started.                             *)
Children ==
    \A m \in Messages :
        mcalling[m] # {} \/ mremoving[m] # {} \/ mchecking[m] # {} =>
            mpc[m] \in {"range", "wait"}

CallsHave == \A c \in Callers : cpc[c] # "idle" => chs[c] # {}

IdleInv == FirstConn /\ Children /\ CallsHave /\ HandledInv

(* Nobody is subscribed to anything yet.                                   *)
LEMMA InitIdle == Init => IdleInv
<1> SUFFICES ASSUME Init PROVE IdleInv  OBVIOUS
<1>1. FirstConn /\ Children /\ CallsHave  BY DEF Init, FirstConn, Children, CallsHave
<1>2. HandledInv  BY DEF Init, HandledInv, Expects
<1> QED  BY <1>1, <1>2 DEF IdleInv

(* A process that dies keeps its state.                                    *)
LEMMA DieIdle ==
    ASSUME IdleInv, NEW why, Die(why)
    PROVE  IdleInv'
<1>1. \A t \in Topics : Expects(t)' <=> Expects(t)
  BY ExpectsKept DEF Die, netVars
<1>2. (FirstConn /\ Children /\ CallsHave)'
  BY DEF IdleInv, Die, FirstConn, Children, CallsHave, callerVars, messageVars,
     readerVars, netVars
<1>3. HandledInv'
  BY <1>1 DEF IdleInv, Die, HandledInv, Handled, Adding, Answering, storageVars,
     callerVars, messageVars, netVars
<1> QED  BY <1>2, <1>3 DEF IdleInv

(* Steps of a call that do not reach or leave its last step.               *)
LEMMA CallsKeepIdle ==
    ASSUME IdleInv, UNCHANGED <<subs, messageVars, readerVars, netVars>>, CallsHave',
           \A c \in Callers, t \in Topics : Adding(c, t) => Adding(c, t)'
    PROVE  IdleInv'
<1>1. \A t \in Topics : Expects(t)' <=> Expects(t)  BY ExpectsKept DEF netVars
<1>2. FirstConn' /\ Children'
  BY DEF IdleInv, FirstConn, Children, messageVars, readerVars, netVars
<1>3. \A t \in Topics : Handled(t) => Handled(t)'
  BY DEF Handled, Answering, messageVars
<1>4. HandledInv'  BY <1>1, <1>3 DEF IdleInv, HandledInv, netVars
<1> QED  BY <1>2, <1>4 DEF IdleInv

(* Steps of a message that leave the storages and the wire alone and do    *)
(* not end it where it has called handlers.                                *)
LEMMA RoutesKeepIdle ==
    ASSUME IdleInv, UNCHANGED <<subs, callerVars, readerVars, netVars>>, Children',
           \A m \in Messages : muid'[m] \in {1, muid[m], routerUid},
           \A m \in Messages, t \in Topics : Answering(m, t) => Answering(m, t)'
    PROVE  IdleInv'
<1>1. \A t \in Topics : Expects(t)' <=> Expects(t)  BY ExpectsKept DEF netVars
<1>2. FirstConn' /\ CallsHave'
  BY DEF IdleInv, FirstConn, CallsHave, callerVars, readerVars, netVars
<1>3. \A t \in Topics : Handled(t) => Handled(t)'
  BY DEF Handled, Adding, callerVars
<1>4. HandledInv'  BY <1>1, <1>3 DEF IdleInv, HandledInv, netVars
<1> QED  BY <1>2, <1>4 DEF IdleInv

(* A call up to its publication.                                           *)
LEMMA CallStartIdle ==
    ASSUME IInv, IdleInv, NEW c \in Callers,
           \/ \E t \in Topics, hs \in SUBSET Handlers : AddStart(c, t, hs)
           \/ AddHas(c) \/ AddRegister(c) \/ AddCheck(c) \/ AddReadUid(c)
    PROVE  IdleInv'
<1> USE DEF Adding, CallsHave, storageVars
<1>1. ASSUME NEW t \in Topics, NEW hs \in SUBSET Handlers, AddStart(c, t, hs) PROVE IdleInv'
  BY <1>1, CallsKeepIdle DEF IInv, TypeOK, CallersType, IdleInv, AddStart
<1>2. CASE AddRegister(c)
  <2>1. CASE Die("mapRace")  BY <2>1, DieIdle
  <2>2. CASE ~Die("mapRace")
    BY <1>2, <2>2, CallsKeepIdle DEF IInv, TypeOK, CallersType, IdleInv, AddRegister
  <2> QED  BY <2>1, <2>2
<1>3. CASE AddCheck(c)
  BY <1>3, CallsKeepIdle DEF IInv, TypeOK, CallersType, IdleInv, AddCheck
<1>4. CASE AddReadUid(c)
  BY <1>4, CallsKeepIdle DEF IInv, TypeOK, CallersType, IdleInv, AddReadUid
<1>5. CASE AddHas(c)
  BY <1>5, CallsKeepIdle DEF IInv, TypeOK, CallersType, IdleInv, AddHas
<1> QED  BY <1>1, <1>2, <1>3, <1>4, <1>5

(* What was published is followed by the storing of a handler.             *)
LEMMA AddPublishIdle ==
    ASSUME IInv, IdleInv, NEW c \in Callers, AddPublish(c)
    PROVE  IdleInv'
<1> USE DEF IInv, TypeOK, CallersType
<1>1. ctopic[c] \in Topics /\ cuid[c] \in 1..MaxConns  BY DEF AddPublish, CallsInv
<1>2. FirstConn' /\ Children' /\ CallsHave'
  BY DEF IdleInv, AddPublish, CallReturns, FirstConn, Children, CallsHave, messageVars,
     readerVars
<1>3. HandledInv'
  <2> SUFFICES ASSUME nconn' = 1, up', NEW t \in Topics, Expects(t)' PROVE Handled(t)'
    BY DEF HandledInv
  <2>1. nconn = 1 /\ up /\ pubConn = nconn  BY DEF IdleInv, FirstConn, AddPublish
  <2>2. /\ wire' = Append(wire, [op |-> "subscribe", topic |-> ctopic[c], uid |-> cuid[c]])
        /\ cpc' = [cpc EXCEPT ![c] = "add"] /\ ctopic' = ctopic
    BY <2>1 DEF AddPublish, WriteOk, WriteMayFail
  <2>3. CASE t = ctopic[c]  BY <2>2, <2>3 DEF Handled, Adding
  <2>4. CASE t # ctopic[c]
    <3> DEFINE f == [op |-> "subscribe", topic |-> ctopic[c], uid |-> cuid[c]]
    <3>1. f \in Frame /\ ~Concerns(f, t)  BY <1>1, <2>4 DEF Frame, Concerns
    <3>2. wire' = Append(wire, f)  BY <2>2
    <3> HIDE DEF f
    <3>3. Expects(t)  BY <3>1, <3>2, ExpectsAppend DEF AddPublish
    <3>4. Handled(t)  BY <2>1, <3>3 DEF IdleInv, HandledInv
    <3> QED
      BY <2>2, <3>4 DEF Handled, Adding, Answering, AddPublish, storageVars, messageVars
  <2> QED  BY <2>3, <2>4
<1> QED  BY <1>2, <1>3 DEF IdleInv

(* The handlers of a call are stored; it had some.                         *)
LEMMA AddStoreIdle ==
    ASSUME IInv, IdleInv, NEW c \in Callers, AddStore(c)
    PROVE  IdleInv'
<1> USE DEF IInv, TypeOK, StorageType, CallersType
<1>1. CASE Die("mapRace")  BY <1>1, DieIdle
<1>2. CASE ~Die("mapRace")
  <2>1. /\ AddHandlers(ctopic[c], chs[c]) /\ CallReturns(c) /\ cpc[c] = "add"
        /\ UNCHANGED <<topicHandlers, allocated, messageVars, readerVars, netVars, fault>>
    BY <1>2 DEF AddStore
  <2>2. ctopic[c] \in Topics /\ chs[c] # {}  BY <2>1 DEF CallsInv, IdleInv, CallsHave
  <2>3. FirstConn' /\ Children' /\ CallsHave'
    BY <2>1 DEF IdleInv, CallReturns, FirstConn, Children, CallsHave, messageVars,
       readerVars, netVars
  <2>4. \A t \in Topics : Expects(t)' <=> Expects(t)  BY <2>1, ExpectsKept DEF netVars
  <2>5. \A t \in Topics : Handled(t) => Handled(t)'
    BY <2>1, <2>2 DEF Handled, Adding, Answering, AddHandlers, CallReturns, messageVars
  <2>6. HandledInv'  BY <2>1, <2>4, <2>5 DEF IdleInv, HandledInv, netVars
  <2> QED  BY <2>3, <2>6 DEF IdleInv
<1> QED  BY <1>1, <1>2

(* A message up to the loop over the handlers, and in that loop.           *)
LEMMA RouteIdle ==
    ASSUME IInv, IdleInv, NEW m \in Messages,
           \/ \E t \in Topics : Deliver(m, t)
           \/ RouteLookup(m) \/ HandleGet(m) \/ HandleRangeEnd(m) \/ RouteReadUid(m)
           \/ \E h \in Handlers : HandleSpawn(m, h)
    PROVE  IdleInv'
<1> USE DEF IInv, TypeOK, RoutesType, IdleInv, Answering, Children, storageVars
<1>1. ASSUME NEW t \in Topics, Deliver(m, t) PROVE IdleInv'
  BY <1>1, RoutesKeepIdle DEF Deliver
<1>2. CASE RouteLookup(m)
  <2>1. CASE Die("unsupported")  BY <2>1, DieIdle
  <2>2. CASE ~Die("unsupported")  BY <1>2, <2>2, RoutesKeepIdle DEF RouteLookup
  <2> QED  BY <2>1, <2>2
<1>3. CASE HandleGet(m)
  BY <1>3, RoutesKeepIdle DEF HandleGet, RouteReturns
<1>4. CASE HandleRangeEnd(m)  BY <1>4, RoutesKeepIdle DEF HandleRangeEnd
<1>5. CASE RouteReadUid(m)  BY <1>5, RoutesKeepIdle DEF RouteReadUid
<1>6. ASSUME NEW h \in Handlers, HandleSpawn(m, h) PROVE IdleInv'
  BY <1>6, RoutesKeepIdle DEF HandleSpawn
<1> QED  BY <1>1, <1>2, <1>3, <1>4, <1>5, <1>6

(* The goroutines of a message, except where they remove a handler.        *)
LEMMA ChildIdle ==
    ASSUME IInv, IdleInv, NEW m \in Messages,
           \/ \E h \in Handlers, rm \in BOOLEAN : HandlerReturns(m, h, rm)
           \/ \E r \in mchecking[m] : HandlerCheck(m, r)
    PROVE  IdleInv'
<1> USE DEF IInv, TypeOK, RoutesType, IdleInv, Answering, Children, storageVars
<1>1. ASSUME NEW h \in Handlers, NEW rm \in BOOLEAN, HandlerReturns(m, h, rm) PROVE IdleInv'
  BY <1>1, RoutesKeepIdle DEF HandlerReturns
<1>2. ASSUME NEW r \in mchecking[m], HandlerCheck(m, r) PROVE IdleInv'
  <2>1. CASE Die("handlersNotFound")  BY <2>1, DieIdle
  <2>2. CASE ~Die("handlersNotFound")  BY <1>2, <2>2, RoutesKeepIdle DEF HandlerCheck
  <2> QED  BY <2>1, <2>2
<1> QED  BY <1>1, <1>2

(* The message that removes the last handler has yet to test for others.   *)
LEMMA HandlerRemoveIdle ==
    ASSUME IInv, IdleInv, NEW m \in Messages, NEW h \in Handlers, HandlerRemove(m, h)
    PROVE  IdleInv'
<1> USE DEF IInv, TypeOK, StorageType, RoutesType
<1>1. CASE Die("mapRace")  BY <1>1, DieIdle
<1>2. CASE ~Die("mapRace")
  <2>1. /\ RemoveHandlers(mtopic[m], h) /\ h \in mremoving[m]
        /\ UNCHANGED <<topicHandlers, allocated, callerVars, mpc, mtopic, minit,
                       mspawned, mcalling, muid, readerVars, netVars, fault>>
    BY <1>2 DEF HandlerRemove
  <2>2. mpc[m] \in {"range", "wait"}  BY <2>1 DEF IdleInv, Children
  <2>3. FirstConn' /\ CallsHave'
    BY <2>1 DEF IdleInv, FirstConn, CallsHave, callerVars, readerVars, netVars
  <2>4. Children'  BY <1>2, <2>1, <2>2 DEF IdleInv, Children, HandlerRemove
  <2>5. \A t \in Topics : Expects(t)' <=> Expects(t)  BY <2>1, ExpectsKept DEF netVars
  <2>6. \A t \in Topics : Handled(t) => Handled(t)'
    BY <2>1, <2>2 DEF Handled, Adding, Answering, RemoveHandlers, callerVars
  <2>7. HandledInv'  BY <2>1, <2>5, <2>6 DEF IdleInv, HandledInv, netVars
  <2> QED  BY <2>3, <2>4, <2>7 DEF IdleInv
<1> QED  BY <1>1, <1>2

(* A message that leaves found handlers, or goes on to unsubscribe.        *)
LEMMA HandleAnswerIdle ==
    ASSUME IInv, IdleInv, NEW m \in Messages, HandleAnswer(m)
    PROVE  IdleInv'
<1> USE DEF IInv, TypeOK, RoutesType
<1>1. FirstConn' /\ Children' /\ CallsHave'
  BY DEF IdleInv, FirstConn, Children, CallsHave, HandleAnswer, RouteReturns, callerVars,
     readerVars, netVars
<1>2. \A t \in Topics : Expects(t)' <=> Expects(t)
  BY ExpectsKept DEF HandleAnswer, netVars
<1>3. \A t \in Topics : Handled(t) => Handled(t)'
  BY DEF Handled, Adding, Answering, HandleAnswer, HasHandlers, RouteReturns,
     storageVars, callerVars
<1>4. HandledInv'  BY <1>2, <1>3 DEF IdleInv, HandledInv, HandleAnswer, netVars
<1> QED  BY <1>1, <1>4 DEF IdleInv

(* The unsubscription carries the uid of the first connection, so that the *)
(* node obeys it.                                                          *)
LEMMA RoutePublishIdle ==
    ASSUME IInv, IdleInv, NEW m \in Messages, RoutePublish(m)
    PROVE  IdleInv'
<1> USE DEF IInv, TypeOK, RoutesType
<1>1. CASE Die("unsubscribe")  BY <1>1, DieIdle
<1>2. CASE ~Die("unsubscribe")
  <2>1. /\ mpc[m] = "publish" /\ WriteOk("unsubscribe", mtopic[m], muid[m])
        /\ RouteReturns(m)
        /\ UNCHANGED <<storageVars, callerVars, readerVars, nconn, up, serverSubs, fault>>
    BY <1>2 DEF RoutePublish
  <2>2. mtopic[m] \in Topics  BY <2>1 DEF RoutesInv, Registered
  <2>3. FirstConn' /\ Children' /\ CallsHave'
    BY <2>1 DEF IdleInv, FirstConn, Children, CallsHave, RouteReturns, callerVars,
       readerVars
  <2>4. HandledInv'
    <3> SUFFICES ASSUME nconn' = 1, up', NEW t \in Topics, Expects(t)' PROVE Handled(t)'
      BY DEF HandledInv
    <3>1. nconn = 1 /\ up /\ pubConn = nconn /\ muid[m] = 1
      BY <2>1 DEF IdleInv, FirstConn
    <3> DEFINE f == [op |-> "unsubscribe", topic |-> mtopic[m], uid |-> muid[m]]
    <3>2. wire' = Append(wire, f)  BY <2>1, <3>1 DEF WriteOk
    <3>3. f \in Frame /\ f.op # "subscribe" /\ (Concerns(f, t) <=> t = mtopic[m])
      BY <2>2, <3>1 DEF Frame, Concerns
    <3> HIDE DEF f
    <3>4. Expects(t) /\ t # mtopic[m]  BY <2>1, <3>2, <3>3, ExpectsAppend
    <3>5. Handled(t)  BY <3>1, <3>4 DEF IdleInv, HandledInv
    <3> QED
      BY <2>1, <3>4, <3>5
         DEF Handled, Adding, Answering, RouteReturns, storageVars, callerVars
  <2> QED  BY <2>3, <2>4 DEF IdleInv
<1> QED  BY <1>1, <1>2

(* The node comes to a frame.                                              *)
LEMMA ServerReceiveIdle ==
    ASSUME IInv, IdleInv, ServerReceive
    PROVE  IdleInv'
<1>1. FirstConn' /\ Children' /\ CallsHave'
  BY DEF IdleInv, FirstConn, Children, CallsHave, ServerReceive, callerVars,
     messageVars, readerVars
<1>2. \A t \in Topics : Expects(t)' <=> Expects(t)
  BY ExpectsReceive DEF IInv, TypeOK
<1>3. \A t \in Topics : Handled(t) => Handled(t)'
  BY DEF Handled, Adding, Answering, ServerReceive, storageVars, callerVars, messageVars
<1>4. HandledInv'  BY <1>2, <1>3 DEF IdleInv, HandledInv, ServerReceive
<1> QED  BY <1>1, <1>4 DEF IdleInv

(* The first connection ends; the reader does not resubscribe on it.       *)
LEMMA ReaderIdle ==
    ASSUME IInv, IdleInv, ConnectionLost \/ ReaderSteps
    PROVE  IdleInv'
<1> USE DEF IInv, TypeOK, NetType, IdleInv, FirstConn, Children, CallsHave, HandledInv,
        callerVars, messageVars, readerVars, netVars
<1>1. CASE ConnectionLost  BY <1>1 DEF ConnectionLost
<1>2. CASE ReadCloseError  BY <1>2 DEF ReadCloseError
<1>3. CASE Reconnect  BY <1>3 DEF Reconnect
<1>4. CASE SetConn \/ SetUid  BY <1>4 DEF SetConn, SetUid
<1>5. CASE ResubscribeList \/ ResubscribeDone
  BY <1>5 DEF ResubscribeList, ResubscribeDone
<1>6. ASSUME NEW t \in Topics, ResubscribePublish(t) PROVE IdleInv'
  BY <1>6 DEF ResubscribePublish
<1> QED  BY <1>1, <1>2, <1>3, <1>4, <1>5, <1>6 DEF ReaderSteps

(* Every step keeps it.                                                    *)
LEMMA StepIdle == IInv /\ IdleInv /\ [Next]_vars => IdleInv'
<1> SUFFICES ASSUME IInv, IdleInv, [Next]_vars PROVE IdleInv'  OBVIOUS
<1>1. ASSUME NEW c \in Callers, NEW t \in Topics, NEW hs \in SUBSET Handlers,
             AddStart(c, t, hs)
      PROVE  IdleInv'
  BY <1>1, CallStartIdle
<1>2. ASSUME NEW c \in Callers, CallerSteps(c) PROVE IdleInv'
  BY <1>2, CallStartIdle, AddPublishIdle, AddStoreIdle DEF CallerSteps
<1>3. ASSUME NEW m \in Messages, NEW t \in Topics, Deliver(m, t) PROVE IdleInv'
  BY <1>3, RouteIdle
<1>4. ASSUME NEW m \in Messages, RouteSteps(m) PROVE IdleInv'
  BY <1>4, RouteIdle, ChildIdle, HandlerRemoveIdle, HandleAnswerIdle, RoutePublishIdle
     DEF RouteSteps
<1>5. ASSUME NEW m \in Messages, NEW h \in Handlers, NEW rm \in BOOLEAN,
             HandlerReturns(m, h, rm)
      PROVE  IdleInv'
  BY <1>5, ChildIdle
<1>6. CASE ServerReceive  BY <1>6, ServerReceiveIdle
<1>7. CASE ConnectionLost \/ ReaderSteps  BY <1>7, ReaderIdle
<1>8. CASE UNCHANGED vars
  <2>1. UNCHANGED <<subs, messageVars, readerVars, netVars>>  BY <1>8 DEF vars, storageVars
  <2>2. CallsHave' /\ \A c \in Callers, t \in Topics : Adding(c, t) => Adding(c, t)'
    BY <1>8 DEF IdleInv, CallsHave, Adding, vars, callerVars
  <2> QED  BY <2>1, <2>2, CallsKeepIdle
<1> QED  BY <1>1, <1>2, <1>3, <1>4, <1>5, <1>6, <1>7, <1>8 DEF Next

(* On the first connection, for any number of callers, messages, topics    *)
(* and handlers: when nothing is under way for a topic nobody handles, the *)
(* node is not subscribed to it.  Whoever removes the last handler         *)
(* unsubscribes, whatever runs beside it.                                  *)
THEOREM NoIdleOnFirstConnection == Spec => []NoIdleSubscription
<1>1. IInv /\ IdleInv => NoIdleSubscription
  <2> SUFFICES ASSUME IInv, IdleInv, nconn = 1, NEW t \in Topics, Quiet(t), t \in serverSubs
      PROVE  subs[t] # {}
    BY DEF NoIdleSubscription
  <2>1. Expects(t)  BY DEF Expects, Concerns, Quiet
  <2>2. Handled(t)  BY <2>1 DEF IdleInv, HandledInv, Quiet
  <2> QED  BY <2>2 DEF Handled, Adding, Answering, Quiet
<1> QED  BY InitInv, StepInv, InitIdle, StepIdle, <1>1, PTL DEF Spec

(***************************************************************************)
(* A program that adds handlers while nothing else happens.                *)
(*                                                                         *)
(* Where the connection stands, the node will be subscribed to every topic *)
(* that has handlers, or the reader has yet to resubscribe to it.  A       *)
(* message that is about to unsubscribe does so for a topic that is still  *)
(* empty, because nobody adds a handler meanwhile.                         *)
(***************************************************************************)

(* The reader has not come to t on this connection.                        *)
Pending(t) ==
    \/ rpc \in {"tick", "setConn", "setUid"}
    \/ /\ rpc = "resubscribe"
       /\ t \in rtopics \/ \E i \in 1..Len(rchans) : rchans[i] = ChannelOf[t]

Uids ==
    /\ clientUid = nconn
    /\ rpc # "setConn" => pubConn = nconn
    /\ \A c \in Callers : cpc[c] = "publish" => cuid[c] = nconn

Keys == \A t \in Topics : subs[t] # {} => t \in entries

Unsubscribing ==
    \A m \in Messages : mpc[m] \in {"uid", "publish"} => subs[mtopic[m]] = {}

(* For what a call is about to store, and for what is stored.              *)
CallExpected == up => \A c \in Callers : cpc[c] = "add" => Expects(ctopic[c])
SubsExpected == up => \A t \in Topics : subs[t] # {} => Expects(t) \/ Pending(t)

SerialInv == AddsAlone /\ Uids /\ Keys /\ Unsubscribing /\ CallExpected /\ SubsExpected

(* NewClient has no handlers.                                              *)
LEMMA InitSerial == Init => SerialInv
<1> SUFFICES ASSUME Init PROVE SerialInv  OBVIOUS
<1>1. AddsAlone /\ Uids /\ Keys /\ Unsubscribing
  BY DEF Init, AddsAlone, Uids, Keys, Unsubscribing
<1>2. CallExpected /\ SubsExpected  BY DEF Init, CallExpected, SubsExpected
<1> QED  BY <1>1, <1>2 DEF SerialInv

(* Steps that leave the wire and the storages alone keep what is expected, *)
(* as long as the reader and the calls do not come to more.                *)
LEMMA KeepExpected ==
    ASSUME IInv, SerialInv, UNCHANGED <<wire, serverSubs, nconn, up>>,
           \A t \in Topics : subs'[t] \subseteq subs[t],
           \A t \in Topics : Pending(t) => Pending(t)',
           \A c \in Callers : cpc'[c] = "add" => cpc[c] = "add" /\ ctopic'[c] = ctopic[c]
    PROVE  CallExpected' /\ SubsExpected'
<1>1. \A t \in Topics : Expects(t)' <=> Expects(t)  BY ExpectsKept
<1>2. \A c \in Callers : cpc[c] = "add" => ctopic[c] \in Topics
  BY DEF IInv, CallsInv
<1>3. CallExpected'  BY <1>1, <1>2 DEF SerialInv, CallExpected
<1>4. SubsExpected'  BY <1>1 DEF SerialInv, SubsExpected
<1> QED  BY <1>3, <1>4

(* A process that dies keeps its state.                                    *)
LEMMA DieSerial ==
    ASSUME IInv, SerialInv, AddsAlone', NEW why, Die(why)
    PROVE  SerialInv'
<1>1. Uids' /\ Keys' /\ Unsubscribing'
  BY DEF SerialInv, Die, Uids, Keys, Unsubscribing, storageVars, callerVars, messageVars,
     readerVars, netVars
<1>2. CallExpected' /\ SubsExpected'
  BY KeepExpected DEF Die, Pending, storageVars, callerVars, readerVars, netVars
<1> QED  BY <1>1, <1>2 DEF SerialInv

(* A call up to its publication.                                           *)
LEMMA CallStartSerial ==
    ASSUME IInv, SerialInv, AddsAlone', NEW c \in Callers,
           \/ \E t \in Topics, hs \in SUBSET Handlers : AddStart(c, t, hs)
           \/ AddHas(c) \/ AddRegister(c) \/ AddReadUid(c)
    PROVE  SerialInv'
<1> USE DEF IInv, TypeOK, CallersType, Pending, Uids, Keys, Unsubscribing, storageVars,
        messageVars, readerVars, netVars
<1>1. ASSUME NEW t \in Topics, NEW hs \in SUBSET Handlers, AddStart(c, t, hs)
      PROVE  SerialInv'
  <2>1. Uids' /\ Keys' /\ Unsubscribing'  BY <1>1 DEF SerialInv, AddStart
  <2>2. CallExpected' /\ SubsExpected'  BY <1>1, KeepExpected DEF AddStart
  <2> QED  BY <2>1, <2>2 DEF SerialInv
<1>2. CASE AddRegister(c)
  <2>1. CASE Die("mapRace")  BY <2>1, DieSerial
  <2>2. CASE ~Die("mapRace")
    <3>1. Uids' /\ Keys' /\ Unsubscribing'  BY <1>2, <2>2 DEF SerialInv, AddRegister
    <3>2. CallExpected' /\ SubsExpected'  BY <1>2, <2>2, KeepExpected DEF AddRegister
    <3> QED  BY <3>1, <3>2 DEF SerialInv
  <2> QED  BY <2>1, <2>2
<1>3. CASE AddReadUid(c)
  <2>1. Uids' /\ Keys' /\ Unsubscribing'  BY <1>3 DEF SerialInv, AddReadUid
  <2>2. CallExpected' /\ SubsExpected'  BY <1>3, KeepExpected DEF AddReadUid
  <2> QED  BY <2>1, <2>2 DEF SerialInv
<1>4. CASE AddHas(c)
  <2>1. Uids' /\ Keys' /\ Unsubscribing'  BY <1>4 DEF SerialInv, AddHas
  <2>2. CallExpected' /\ SubsExpected'  BY <1>4, KeepExpected DEF AddHas
  <2> QED  BY <2>1, <2>2 DEF SerialInv
<1> QED  BY <1>1, <1>2, <1>3, <1>4

(* Where a call finds handlers and goes on to store its own, the node will *)
(* be subscribed.                                                          *)
LEMMA AddCheckSerial ==
    ASSUME IInv, SerialInv, AddsAlone', NEW c \in Callers, AddCheck(c)
    PROVE  SerialInv'
<1> USE DEF IInv, TypeOK, CallersType
<1>1. up /\ rpc = "read" /\ ctopic[c] \in Topics
  BY DEF SerialInv, AddsAlone, AddCheck, CallsInv
<1>2. \A t \in Topics : Expects(t)' <=> Expects(t)  BY ExpectsKept DEF AddCheck, netVars
<1>3. Uids' /\ Keys' /\ Unsubscribing'
  BY DEF SerialInv, AddCheck, Uids, Keys, Unsubscribing, storageVars, messageVars,
     readerVars, netVars
<1>4. SubsExpected'
  BY <1>2 DEF SerialInv, SubsExpected, Pending, AddCheck, storageVars, readerVars, netVars
<1>5. CallExpected'
  <2> SUFFICES ASSUME NEW d \in Callers, cpc'[d] = "add" PROVE Expects(ctopic[d])'
    BY DEF CallExpected
  <2>1. ctopic' = ctopic  BY DEF AddCheck
  <2>2. CASE d = c
    <3>1. subs[ctopic[c]] # {}  BY <2>2 DEF AddCheck, HasHandlers
    <3>2. Expects(ctopic[c])  BY <1>1, <3>1 DEF SerialInv, SubsExpected, Pending
    <3> QED  BY <1>1, <1>2, <2>1, <2>2, <3>2
  <2>3. CASE d # c
    <3>1. cpc[d] = "add"  BY <2>3 DEF AddCheck
    <3>2. Expects(ctopic[d]) /\ ctopic[d] \in Topics
      BY <1>1, <3>1 DEF SerialInv, CallExpected, CallsInv
    <3> QED  BY <1>2, <2>1, <3>2
  <2> QED  BY <2>2, <2>3
<1> QED  BY <1>3, <1>4, <1>5 DEF SerialInv

(* The publication carries the uid of the connection that stands.          *)
LEMMA AddPublishSerial ==
    ASSUME IInv, SerialInv, AddsAlone', NEW c \in Callers, AddPublish(c)
    PROVE  SerialInv'
<1> USE DEF IInv, TypeOK, CallersType
<1> DEFINE f == [op |-> "subscribe", topic |-> ctopic[c], uid |-> cuid[c]]
<1>1. /\ up /\ rpc = "read" /\ ctopic[c] \in Topics
      /\ pubConn = nconn /\ cuid[c] = nconn
  BY DEF SerialInv, AddsAlone, Uids, AddPublish, CallsInv
<1>2. /\ wire' = Append(wire, f) /\ cpc' = [cpc EXCEPT ![c] = "add"]
      /\ UNCHANGED <<ctopic, chs, cuid, storageVars, messageVars, readerVars, nconn, up,
                     serverSubs>>
  BY <1>1 DEF AddPublish, WriteOk, WriteMayFail
<1>3. f \in Frame /\ f.op = "subscribe" /\ \A t : Concerns(f, t) <=> t = ctopic[c]
  BY <1>1 DEF Frame, Concerns
<1> HIDE DEF f
<1>4. \A t \in Topics : Expects(t)' <=> (t = ctopic[c] \/ Expects(t))
  BY <1>2, <1>3, ExpectsAppend
<1>5. Uids' /\ Keys' /\ Unsubscribing'
  BY <1>2 DEF SerialInv, Uids, Keys, Unsubscribing, storageVars, messageVars, readerVars
<1>6. SubsExpected'
  BY <1>2, <1>4 DEF SerialInv, SubsExpected, Pending, storageVars, readerVars
<1>7. CallExpected'
  <2> SUFFICES ASSUME NEW d \in Callers, cpc'[d] = "add" PROVE Expects(ctopic[d])'
    BY DEF CallExpected
  <2>1. d = c \/ cpc[d] = "add"  BY <1>2
  <2>2. ctopic[d] \in Topics /\ ctopic' = ctopic  BY <1>1, <1>2, <2>1 DEF CallsInv
  <2>3. d = c \/ Expects(ctopic[d])  BY <1>1, <2>1 DEF SerialInv, CallExpected
  <2> QED  BY <1>4, <2>2, <2>3
<1> QED  BY <1>5, <1>6, <1>7 DEF SerialInv

(* What is stored was subscribed to.                                       *)
LEMMA AddStoreSerial ==
    ASSUME IInv, SerialInv, AddsAlone', NEW c \in Callers, AddStore(c)
    PROVE  SerialInv'
<1> USE DEF IInv, TypeOK, StorageType, CallersType
<1>1. CASE Die("mapRace")  BY <1>1, DieSerial
<1>2. CASE ~Die("mapRace")
  <2>1. /\ AddHandlers(ctopic[c], chs[c]) /\ CallReturns(c) /\ cpc[c] = "add"
        /\ UNCHANGED <<topicHandlers, allocated, messageVars, readerVars, netVars, fault>>
    BY <1>2 DEF AddStore
  <2>2. /\ up /\ ctopic[c] \in Topics /\ Expects(ctopic[c])
        /\ \A m \in Messages : mpc[m] = "idle"
    BY <2>1 DEF SerialInv, AddsAlone, CallExpected, CallsInv
  <2>3. \A t \in Topics : Expects(t)' <=> Expects(t)  BY <2>1, ExpectsKept DEF netVars
  <2>4. Uids'  BY <2>1 DEF SerialInv, Uids, CallReturns, readerVars, netVars
  <2>5. Keys'  BY <2>1, <2>2 DEF SerialInv, Keys, AddHandlers
  <2>6. Unsubscribing'  BY <2>1, <2>2 DEF Unsubscribing, messageVars
  <2>7. CallExpected'
    <3> SUFFICES ASSUME NEW d \in Callers, cpc'[d] = "add" PROVE Expects(ctopic[d])'
      BY DEF CallExpected
    <3>1. cpc[d] = "add" /\ ctopic'[d] = ctopic[d]  BY <2>1 DEF CallReturns
    <3>2. Expects(ctopic[d]) /\ ctopic[d] \in Topics
      BY <2>2, <3>1 DEF SerialInv, CallExpected, CallsInv
    <3> QED  BY <2>3, <3>1, <3>2
  <2>8. SubsExpected'
    <3> SUFFICES ASSUME NEW t \in Topics, subs'[t] # {} PROVE (Expects(t) \/ Pending(t))'
      BY DEF SubsExpected
    <3>1. t = ctopic[c] \/ subs[t] # {}  BY <2>1, <2>2 DEF AddHandlers
    <3>2. Expects(t) \/ Pending(t)  BY <2>2, <3>1 DEF SerialInv, SubsExpected
    <3>3. Pending(t) => Pending(t)'  BY <2>1 DEF Pending, readerVars
    <3> QED  BY <2>3, <3>2, <3>3
  <2> QED  BY <2>4, <2>5, <2>6, <2>7, <2>8 DEF SerialInv
<1> QED  BY <1>1, <1>2

(* Steps that only remove handlers.                                        *)
LEMMA RouteSerial ==
    ASSUME IInv, SerialInv, AddsAlone', UNCHANGED <<callerVars, readerVars, netVars, entries>>,
           \A t \in Topics : subs'[t] \subseteq subs[t],
           \A m \in Messages : mpc'[m] \in {"uid", "publish"} =>
               subs'[mtopic'[m]] = {}
    PROVE  SerialInv'
<1>1. Uids' /\ Keys' /\ Unsubscribing'
  BY DEF SerialInv, Uids, Keys, Unsubscribing, callerVars, readerVars, netVars
<1>2. CallExpected' /\ SubsExpected'
  BY KeepExpected DEF Pending, callerVars, readerVars, netVars
<1> QED  BY <1>1, <1>2 DEF SerialInv

(* A message up to its answer.                                             *)
LEMMA MessageSerial ==
    ASSUME IInv, SerialInv, AddsAlone', NEW m \in Messages,
           \/ \E t \in Topics : Deliver(m, t)
           \/ RouteLookup(m) \/ HandleGet(m) \/ HandleRangeEnd(m) \/ HandleAnswer(m)
           \/ RouteReadUid(m)
           \/ \E h \in Handlers : HandleSpawn(m, h)
    PROVE  SerialInv'
<1> USE DEF IInv, TypeOK, RoutesType, SerialInv, Unsubscribing, storageVars
<1>1. ASSUME NEW t \in Topics, Deliver(m, t) PROVE SerialInv'
  BY <1>1, RouteSerial DEF Deliver
<1>2. CASE RouteLookup(m)
  <2>1. CASE Die("unsupported")  BY <2>1, DieSerial
  <2>2. CASE ~Die("unsupported")  BY <1>2, <2>2, RouteSerial DEF RouteLookup
  <2> QED  BY <2>1, <2>2
<1>3. CASE HandleGet(m)  BY <1>3, RouteSerial DEF HandleGet, RouteReturns
<1>4. CASE HandleRangeEnd(m)  BY <1>4, RouteSerial DEF HandleRangeEnd
<1>5. CASE HandleAnswer(m)
  BY <1>5, RouteSerial DEF HandleAnswer, RouteReturns, HasHandlers
<1>6. CASE RouteReadUid(m)  BY <1>6, RouteSerial DEF RouteReadUid
<1>7. ASSUME NEW h \in Handlers, HandleSpawn(m, h) PROVE SerialInv'
  BY <1>7, RouteSerial DEF HandleSpawn
<1> QED  BY <1>1, <1>2, <1>3, <1>4, <1>5, <1>6, <1>7

(* The goroutines of a message.                                            *)
LEMMA ChildSerial ==
    ASSUME IInv, SerialInv, AddsAlone', NEW m \in Messages,
           \/ \E h \in Handlers, rm \in BOOLEAN : HandlerReturns(m, h, rm)
           \/ \E h \in Handlers : HandlerRemove(m, h)
           \/ \E r \in mchecking[m] : HandlerCheck(m, r)
    PROVE  SerialInv'
<1> USE DEF IInv, TypeOK, StorageType, RoutesType, SerialInv, Unsubscribing, storageVars
<1>1. ASSUME NEW h \in Handlers, NEW rm \in BOOLEAN, HandlerReturns(m, h, rm)
      PROVE  SerialInv'
  BY <1>1, RouteSerial DEF HandlerReturns
<1>2. ASSUME NEW h \in Handlers, HandlerRemove(m, h) PROVE SerialInv'
  <2>1. CASE Die("mapRace")  BY <2>1, DieSerial
  <2>2. CASE ~Die("mapRace")
    <3>1. /\ subs' = [subs EXCEPT ![mtopic[m]] = @ \ {h}]
          /\ UNCHANGED <<callerVars, readerVars, netVars, entries, mpc, mtopic>>
      BY <1>2, <2>2 DEF HandlerRemove, RemoveHandlers
    <3>2. \A t \in Topics : subs'[t] \subseteq subs[t]  BY <3>1
    <3>3. \A k \in Messages : mpc'[k] \in {"uid", "publish"} => subs'[mtopic'[k]] = {}
      <4> SUFFICES ASSUME NEW k \in Messages, mpc[k] \in {"uid", "publish"}
          PROVE  subs'[mtopic[k]] = {}
        BY <3>1
      <4>1. subs[mtopic[k]] = {} /\ mtopic[k] \in Topics  BY DEF RoutesInv, Registered
      <4> QED  BY <3>2, <4>1
    <3> QED  BY <3>1, <3>2, <3>3, RouteSerial
  <2> QED  BY <2>1, <2>2
<1>3. ASSUME NEW r \in mchecking[m], HandlerCheck(m, r) PROVE SerialInv'
  <2>1. CASE Die("handlersNotFound")  BY <2>1, DieSerial
  <2>2. CASE ~Die("handlersNotFound")  BY <1>3, <2>2, RouteSerial DEF HandlerCheck
  <2> QED  BY <2>1, <2>2
<1> QED  BY <1>1, <1>2, <1>3

(* The unsubscription is for a topic without handlers, and no call is      *)
(* about to store one.                                                     *)
LEMMA RoutePublishSerial ==
    ASSUME IInv, SerialInv, AddsAlone', NEW m \in Messages, RoutePublish(m)
    PROVE  SerialInv'
<1> USE DEF IInv, TypeOK, RoutesType
<1>1. CASE Die("unsubscribe")  BY <1>1, DieSerial
<1>2. CASE ~Die("unsubscribe")
  <2>1. /\ mpc[m] = "publish" /\ WriteOk("unsubscribe", mtopic[m], muid[m])
        /\ RouteReturns(m)
        /\ UNCHANGED <<storageVars, callerVars, readerVars, nconn, up, serverSubs, fault>>
    BY <1>2 DEF RoutePublish
  <2>2. /\ mtopic[m] \in Topics /\ subs[mtopic[m]] = {}
        /\ \A c \in Callers : cpc[c] = "idle"
    BY <2>1 DEF SerialInv, AddsAlone, Unsubscribing, RoutesInv, Registered
  <2>3. Uids' /\ Keys' /\ Unsubscribing'
    BY <2>1 DEF SerialInv, Uids, Keys, Unsubscribing, RouteReturns, storageVars, callerVars,
       readerVars
  <2>4. CallExpected'  BY <2>1, <2>2 DEF CallExpected, callerVars
  <2>5. SubsExpected'
    <3> SUFFICES ASSUME up', NEW t \in Topics, subs'[t] # {}
        PROVE  (Expects(t) \/ Pending(t))'
      BY DEF SubsExpected
    <3>1. t # mtopic[m] /\ (Expects(t) \/ Pending(t))
      BY <2>1, <2>2 DEF SerialInv, SubsExpected, storageVars
    <3>2. Pending(t) => Pending(t)'  BY <2>1 DEF Pending, readerVars
    <3>3. Expects(t) => Expects(t)'
      <4> DEFINE f == [op |-> "unsubscribe", topic |-> mtopic[m], uid |-> muid[m]]
      <4>1. f \in Frame /\ ~Concerns(f, t)  BY <2>2, <3>1 DEF Frame, Concerns
      <4>2. wire' = wire \/ wire' = Append(wire, f)  BY <2>1 DEF WriteOk
      <4> HIDE DEF f
      <4> QED  BY <2>1, <4>1, <4>2, ExpectsKept, ExpectsAppend
    <3> QED  BY <3>1, <3>2, <3>3
  <2> QED  BY <2>3, <2>4, <2>5 DEF SerialInv
<1> QED  BY <1>1, <1>2

(* The node comes to a frame, or loses the connection.                     *)
LEMMA NetSerial ==
    ASSUME IInv, SerialInv, AddsAlone', ServerReceive \/ ConnectionLost
    PROVE  SerialInv'
<1>1. /\ UNCHANGED <<storageVars, callerVars, messageVars, readerVars, nconn>>
      /\ up' => ServerReceive /\ up
  BY DEF ServerReceive, ConnectionLost
<1>2. Uids' /\ Keys' /\ Unsubscribing'
  BY <1>1 DEF SerialInv, Uids, Keys, Unsubscribing, storageVars, callerVars, messageVars,
     readerVars
<1>3. ASSUME up' PROVE \A t \in Topics : Expects(t)' <=> Expects(t)
  BY <1>1, <1>3, ExpectsReceive DEF IInv, TypeOK
<1>4. CallExpected'
  <2> SUFFICES ASSUME up', NEW c \in Callers, cpc'[c] = "add" PROVE Expects(ctopic[c])'
    BY DEF CallExpected
  <2>1. Expects(ctopic[c]) /\ ctopic[c] \in Topics /\ ctopic' = ctopic
    BY <1>1 DEF SerialInv, CallExpected, IInv, CallsInv, callerVars
  <2> QED  BY <1>3, <2>1
<1>5. SubsExpected'
  <2> SUFFICES ASSUME up', NEW t \in Topics, subs'[t] # {}
      PROVE  (Expects(t) \/ Pending(t))'
    BY DEF SubsExpected
  <2>1. Expects(t) \/ Pending(t)  BY <1>1 DEF SerialInv, SubsExpected, storageVars
  <2>2. Pending(t) => Pending(t)'  BY <1>1 DEF Pending, readerVars
  <2> QED  BY <1>3, <2>1, <2>2
<1> QED  BY <1>2, <1>4, <1>5 DEF SerialInv

(* The reader is not reading a live connection, so that no call runs; it   *)
(* forgets no topic that has handlers.                                     *)
LEMMA ReconnectSerial ==
    ASSUME IInv, SerialInv, AddsAlone', ReadCloseError \/ Reconnect \/ SetConn \/ SetUid
    PROVE  SerialInv'
<1>1. /\ UNCHANGED <<storageVars, callerVars, messageVars>>
      /\ \A c \in Callers : cpc[c] = "idle"
  BY DEF SerialInv, AddsAlone, ReadCloseError, Reconnect, SetConn, SetUid
<1>2. Uids'
  BY <1>1 DEF SerialInv, Uids, ReadCloseError, Reconnect, SetConn, SetUid, netVars, callerVars
<1>3. Keys' /\ Unsubscribing' /\ CallExpected'
  BY <1>1 DEF SerialInv, Keys, Unsubscribing, CallExpected, storageVars, callerVars,
     messageVars
<1>4. \A t \in Topics : up' => Pending(t)'
  BY ResubscribesAll DEF Pending, ReadCloseError, Reconnect, SetConn, SetUid, netVars
<1>5. SubsExpected'  BY <1>4 DEF SubsExpected
<1> QED  BY <1>2, <1>3, <1>5 DEF SerialInv

(* The reader lists a storage, or has come to the end of them all.         *)
LEMMA ResubscribeSerial ==
    ASSUME IInv, SerialInv, AddsAlone', ResubscribeList \/ ResubscribeDone
    PROVE  SerialInv'
<1>1. /\ UNCHANGED <<storageVars, callerVars, messageVars, clientUid, pubConn, netVars>>
      /\ rpc = "resubscribe" /\ rpc' # "setConn"
      /\ \A c \in Callers : cpc[c] = "idle"
  BY DEF SerialInv, AddsAlone, ResubscribeList, ResubscribeDone
<1>2. Uids' /\ Keys' /\ Unsubscribing' /\ CallExpected'
  BY <1>1 DEF SerialInv, Uids, Keys, Unsubscribing, CallExpected, storageVars, callerVars,
     messageVars, netVars
<1>3. \A t \in Topics : Expects(t)' <=> Expects(t)  BY <1>1, ExpectsKept DEF netVars
<1>4. ASSUME NEW t \in Topics, subs[t] # {}, Pending(t) PROVE Pending(t)'
  <2>1. CASE ResubscribeDone  BY <2>1, <1>4 DEF ResubscribeDone, Pending
  <2>2. CASE ResubscribeList
    <3>1. PICK i \in 1..Len(rchans) : rchans[i] = ChannelOf[t]
      BY <1>4, <2>2 DEF ResubscribeList, Pending
    <3>2. t \in entries  BY <1>4 DEF SerialInv, Keys
    <3>3. CASE i = 1
      <4>1. Head(rchans) = ChannelOf[t]
        BY <3>1, <3>3 DEF IInv, TypeOK, ReaderType
      <4>2. t \in GetAddresses(Head(rchans))
        BY <1>4, <3>2, <4>1 DEF GetAddresses, HasHandlers
      <4> QED  BY <2>2, <4>2 DEF ResubscribeList, Pending
    <3>4. CASE i # 1
      <4>1. i - 1 \in 1..Len(Tail(rchans)) /\ Tail(rchans)[i - 1] = rchans[i]
        BY <3>1, <3>4 DEF IInv, TypeOK, ReaderType
      <4> QED  BY <2>2, <3>1, <4>1 DEF ResubscribeList, Pending
    <3> QED  BY <3>3, <3>4
  <2> QED  BY <2>1, <2>2
<1>5. SubsExpected'
  BY <1>1, <1>3, <1>4 DEF SerialInv, SubsExpected, storageVars, netVars
<1> QED  BY <1>2, <1>5 DEF SerialInv

(* The reader's subscription of t is obeyed; one that fails found the      *)
(* connection dead.                                                        *)
LEMMA ResubscribePublishSerial ==
    ASSUME IInv, SerialInv, AddsAlone', NEW t \in Topics, ResubscribePublish(t)
    PROVE  SerialInv'
<1> USE DEF IInv, TypeOK, ReaderType
<1>1. /\ UNCHANGED <<storageVars, callerVars, messageVars, clientUid, pubConn, nconn, up,
                     serverSubs>>
      /\ rpc = "resubscribe" /\ rpc' # "setConn"
      /\ clientUid = nconn /\ pubConn = nconn
      /\ \A c \in Callers : cpc[c] = "idle"
  BY DEF SerialInv, AddsAlone, Uids, ResubscribePublish
<1>2. Uids' /\ Keys' /\ Unsubscribing' /\ CallExpected'
  BY <1>1 DEF SerialInv, Uids, Keys, Unsubscribing, CallExpected, storageVars, callerVars,
     messageVars
<1>3. SubsExpected'
  <2> SUFFICES ASSUME up', NEW u \in Topics, subs'[u] # {}
      PROVE  (Expects(u) \/ Pending(u))'
    BY DEF SubsExpected
  <2> DEFINE f == [op |-> "subscribe", topic |-> t, uid |-> clientUid]
  <2>1. /\ wire' = Append(wire, f) /\ rtopics' = rtopics \ {t}
        /\ UNCHANGED <<rpc, rchans>>
    BY <1>1 DEF ResubscribePublish, WriteOk, WriteMayFail
  <2>2. f \in Frame /\ f.op = "subscribe" /\ (Concerns(f, u) <=> u = t)
    BY <1>1 DEF Frame, Concerns
  <2>3. Expects(u) \/ Pending(u)
    BY <1>1 DEF SerialInv, SubsExpected, storageVars
  <2> HIDE DEF f
  <2>4. u = t \/ Expects(u) => Expects(u)'  BY <1>1, <2>1, <2>2, ExpectsAppend
  <2>5. u # t /\ Pending(u) => Pending(u)'  BY <1>1, <2>1 DEF Pending
  <2> QED  BY <2>3, <2>4, <2>5
<1> QED  BY <1>2, <1>3 DEF SerialInv

(* Every step keeps it.                                                    *)
LEMMA StepSerial == IInv /\ SerialInv /\ [Next /\ AddsAlone']_vars => SerialInv'
<1> SUFFICES ASSUME IInv, SerialInv, [Next /\ AddsAlone']_vars PROVE SerialInv'  OBVIOUS
<1>1. CASE UNCHANGED vars
  <2>1. /\ UNCHANGED <<callerVars, readerVars, netVars, entries>>
        /\ UNCHANGED <<subs, mpc, mtopic>>
    BY <1>1 DEF vars, storageVars, messageVars
  <2>2. AddsAlone'
    BY <2>1 DEF SerialInv, AddsAlone, callerVars, readerVars, netVars
  <2>3. \A m \in Messages : mpc'[m] \in {"uid", "publish"} => subs'[mtopic'[m]] = {}
    BY <2>1 DEF SerialInv, Unsubscribing
  <2> QED  BY <2>1, <2>2, <2>3, RouteSerial
<1>2. CASE Next /\ AddsAlone'
  <2>0. AddsAlone'  BY <1>2
  <2>1. ASSUME NEW c \in Callers, NEW t \in Topics, NEW hs \in SUBSET Handlers,
               AddStart(c, t, hs)
        PROVE  SerialInv'
    BY <2>0, <2>1, CallStartSerial
  <2>2. ASSUME NEW c \in Callers, CallerSteps(c) PROVE SerialInv'
    BY <2>0, <2>2, CallStartSerial, AddCheckSerial, AddPublishSerial, AddStoreSerial
       DEF CallerSteps
  <2>3. ASSUME NEW m \in Messages, NEW t \in Topics, Deliver(m, t) PROVE SerialInv'
    BY <2>0, <2>3, MessageSerial
  <2>4. ASSUME NEW m \in Messages, RouteSteps(m) PROVE SerialInv'
    BY <2>0, <2>4, MessageSerial, ChildSerial, RoutePublishSerial DEF RouteSteps
  <2>5. ASSUME NEW m \in Messages, NEW h \in Handlers, NEW rm \in BOOLEAN,
               HandlerReturns(m, h, rm)
        PROVE  SerialInv'
    BY <2>0, <2>5, ChildSerial
  <2>6. CASE ServerReceive \/ ConnectionLost  BY <2>0, <2>6, NetSerial
  <2>7. CASE ReaderSteps
    BY <2>0, <2>7, ReconnectSerial, ResubscribeSerial, ResubscribePublishSerial
       DEF ReaderSteps
  <2> QED  BY <1>2, <2>1, <2>2, <2>3, <2>4, <2>5, <2>6, <2>7 DEF Next
<1> QED  BY <1>1, <1>2

(* Across any number of lost connections, a topic that has handlers is     *)
(* subscribed whenever nothing is under way for it, if the program adds    *)
(* handlers only while the connection stands and no event is handled.      *)
THEOREM NoLossWhenAddingAlone == SerialSpec => []NoLostSubscription
<1>1. IInv /\ SerialInv => NoLostSubscription
  <2> SUFFICES ASSUME IInv, SerialInv, NEW t \in Topics, Quiet(t), subs[t] # {}
      PROVE  t \in serverSubs
    BY DEF NoLostSubscription
  <2>1. Expects(t)  BY DEF SerialInv, SubsExpected, Pending, Quiet
  <2> QED  BY <2>1 DEF Expects, Concerns, Quiet
<1>2. IInv /\ [Next /\ AddsAlone']_vars => IInv'  BY StepInv
<1> QED  BY InitInv, InitSerial, StepSerial, <1>1, <1>2, PTL DEF SerialSpec

===============================================================================

---------------------------- MODULE WsLifecycle -----------------------------
(***************************************************************************)
(* Listening and closing (sdk/websocket/client.go): the Listen loop, the   *)
(* reader goroutine it starts, Close, and the cancellation of the context, *)
(* all of which share c.conn, c.alreadyListening and the storages without  *)
(* a lock.  What the routed messages do is the subject of WsClient.        *)
(*                                                                         *)
(* c.conn is 0 for nil, otherwise the number of a connection.  A use of    *)
(* c.conn reads the field anew each time, as the code does.                *)
(***************************************************************************)
EXTENDS Naturals

CONSTANTS
    Listens,       \* calls of Listen
    Closes,        \* calls of Close
    MaxConns       \* bound: connections opened

ASSUME LifecycleConstants == MaxConns \in Nat \ {0}

VARIABLES
    conn,             \* c.conn
    cstate,           \* the connections
    nconn,            \* connections opened so far
    alreadyListening,
    storages,         \* are the handler storages still set?
    ctxDone,          \* is the context cancelled?
    lpc,              \* control of each Listen
    rpc, rconn,       \* control of each reader, the connection it reads or opened
    kpc,              \* control of each Close
    fault,            \* why the process died, or "none"
    connectFn,        \* is c.connectFn set?  NewClient leaves it nil
    raced,            \* history: two Listens passed the check together
    late              \* history: a reader reconnected for a client being closed

connVars  == <<conn, cstate, nconn>>
flagVars  == <<alreadyListening, storages, ctxDone>>
readerVars == <<rpc, rconn>>
history == <<connectFn, raced, late>>
vars == <<connVars, flagVars, lpc, readerVars, kpc, fault, history>>

Conns == 1..MaxConns

TypeOK ==
    /\ conn \in 0..nconn
    /\ cstate \in [Conns -> {"unused", "open", "peerClosed", "reset", "closed"}]
    /\ nconn \in Conns
    /\ alreadyListening \in BOOLEAN /\ storages \in BOOLEAN /\ ctxDone \in BOOLEAN
    /\ lpc \in [Listens -> {"idle", "set", "loop", "close", "nil", "returned"}]
    /\ rpc \in [Listens -> {"none", "read", "blocked", "send", "tick",
                            "connected", "resubscribe", "done"}]
    /\ rconn \in [Listens -> 0..MaxConns]
    /\ kpc \in [Closes -> {"idle", "close", "nil", "cancel", "flag", "storages",
                           "returned", "failed"}]
    /\ fault \in {"none", "doubleClose", "nilConn", "nilConnectFn", "nilStorage"}
    /\ connectFn \in BOOLEAN /\ raced \in BOOLEAN /\ late \in BOOLEAN

(* NewClient has connected.                                                *)
Init ==
    /\ conn = 1 /\ nconn = 1
    /\ cstate = [k \in Conns |-> IF k = 1 THEN "open" ELSE "unused"]
    /\ alreadyListening = FALSE /\ storages = TRUE /\ ctxDone = FALSE
    /\ lpc = [l \in Listens |-> "idle"]
    /\ rpc = [l \in Listens |-> "none"]
    /\ rconn = [l \in Listens |-> 0]
    /\ kpc = [k \in Closes |-> "idle"]
    /\ fault = "none"
    /\ connectFn \in BOOLEAN
    /\ raced = FALSE /\ late = FALSE

Running == fault = "none"

Die(why) ==
    /\ fault' = why
    /\ UNCHANGED <<connVars, flagVars, lpc, readerVars, kpc, history>>

CloseConn(k) == cstate' = [cstate EXCEPT ![k] = "closed"]

(***************************************************************************)
(* Listen.                                                                 *)
(***************************************************************************)

(* Mutant: the flag is not consulted.                                      *)
ListenCheckIgnored(l) ==
    /\ Running /\ lpc[l] = "idle"
    /\ lpc' = [lpc EXCEPT ![l] = "set"]
    /\ UNCHANGED <<connVars, flagVars, readerVars, kpc, fault, history>>

ListenCheck(l) ==
    /\ Running /\ lpc[l] = "idle"
    /\ lpc' = [lpc EXCEPT ![l] = IF alreadyListening THEN "returned" ELSE "set"]
    /\ raced' = (raced \/ (~alreadyListening /\ \E k \in Listens : lpc[k] = "set"))
    /\ UNCHANGED <<connVars, flagVars, readerVars, kpc, fault, connectFn, late>>

(* Sets the flag and starts the reader.                                    *)
ListenSet(l) ==
    /\ Running /\ lpc[l] = "set"
    /\ alreadyListening' = TRUE
    /\ lpc' = [lpc EXCEPT ![l] = "loop"]
    /\ rpc' = [rpc EXCEPT ![l] = "read"]
    /\ UNCHANGED <<connVars, storages, ctxDone, rconn, kpc, fault, history>>

(* The select takes a message from the unbuffered channel: the reader goes *)
(* on, the message is routed by a goroutine of its own.                    *)
LoopReceive(l) ==
    /\ Running /\ lpc[l] = "loop" /\ rpc[l] = "send"
    /\ rpc' = [rpc EXCEPT ![l] = "read"]
    /\ UNCHANGED <<connVars, flagVars, lpc, rconn, kpc, fault, history>>

(* The select takes ctx.Done.                                              *)
LoopDone(l) ==
    /\ Running /\ lpc[l] = "loop" /\ ctxDone
    /\ lpc' = [lpc EXCEPT ![l] = IF conn # 0 THEN "close" ELSE "returned"]
    /\ UNCHANGED <<connVars, flagVars, readerVars, kpc, fault, history>>

(* Mutant: the connection is dropped without being closed.                 *)
LoopCloseDropped(l) ==
    /\ Running /\ lpc[l] = "close"
    /\ lpc' = [lpc EXCEPT ![l] = "nil"]
    /\ UNCHANGED <<connVars, flagVars, readerVars, kpc, fault, history>>

(* A connection closed twice reports an error, on which Listen panics.     *)
LoopClose(l) ==
    /\ Running /\ lpc[l] = "close"
    /\ \/ conn = 0 /\ Die("nilConn")
       \/ conn # 0 /\ cstate[conn] = "closed" /\ Die("doubleClose")
       \/ /\ conn # 0 /\ cstate[conn] # "closed"
          /\ CloseConn(conn)
          /\ lpc' = [lpc EXCEPT ![l] = "nil"]
          /\ UNCHANGED <<conn, nconn, flagVars, readerVars, kpc, fault, history>>

LoopNil(l) ==
    /\ Running /\ lpc[l] = "nil"
    /\ conn' = 0
    /\ lpc' = [lpc EXCEPT ![l] = "returned"]
    /\ UNCHANGED <<cstate, nconn, flagVars, readerVars, kpc, fault, history>>

(***************************************************************************)
(* The reader goroutine of a Listen.                                       *)
(***************************************************************************)
ReadStart(l) ==
    /\ Running /\ rpc[l] = "read"
    /\ \/ conn = 0 /\ Die("nilConn")
       \/ /\ conn # 0
          /\ rconn' = [rconn EXCEPT ![l] = conn]
          /\ rpc' = [rpc EXCEPT ![l] = "blocked"]
          /\ UNCHANGED <<connVars, flagVars, lpc, kpc, fault, history>>

ReadMessage(l) ==
    /\ Running /\ rpc[l] = "blocked" /\ cstate[rconn[l]] = "open"
    /\ rpc' = [rpc EXCEPT ![l] = "send"]
    /\ UNCHANGED <<connVars, flagVars, lpc, rconn, kpc, fault, history>>

(* Mutant: the reader ends without its deferred cancelFunc.                *)
ReadErrorNoCancel(l) ==
    /\ Running /\ rpc[l] = "blocked" /\ cstate[rconn[l]] \in {"reset", "closed"}
    /\ rpc' = [rpc EXCEPT ![l] = "done"]
    /\ UNCHANGED <<connVars, flagVars, lpc, rconn, kpc, fault, history>>

(* A *net.OpError: the connection was closed on this side, or reset by the *)
(* network; any error but a CloseError ends the reader the same way.       *)
ReadError(l) ==
    /\ Running /\ rpc[l] = "blocked" /\ cstate[rconn[l]] \in {"reset", "closed"}
    /\ rpc' = [rpc EXCEPT ![l] = "done"]
    /\ ctxDone' = TRUE
    /\ UNCHANGED <<connVars, alreadyListening, storages, lpc, rconn, kpc, fault, history>>

(* A *websocket.CloseError: the peer closed the connection.                *)
ReadCloseError(l) ==
    /\ Running /\ rpc[l] = "blocked" /\ cstate[rconn[l]] = "peerClosed"
    /\ rpc' = [rpc EXCEPT ![l] = "tick"]
    /\ UNCHANGED <<connVars, flagVars, lpc, rconn, kpc, fault, history>>

(* Mutant: the error of connectFn is ignored, and with it that nothing was *)
(* opened.                                                                 *)
ReconnectUncounted(l) ==
    /\ Running /\ rpc[l] = "tick"
    /\ rconn' = [rconn EXCEPT ![l] = nconn + 1]
    /\ rpc' = [rpc EXCEPT ![l] = "connected"]
    /\ UNCHANGED <<connVars, flagVars, lpc, kpc, fault, history>>

(* reconnect on a tick: connectFn opens a connection; a failing one waits  *)
(* for the next tick.                                                      *)
Reconnect(l) ==
    /\ Running /\ rpc[l] = "tick"
    /\ \/ ~connectFn /\ Die("nilConnectFn")
       \/ /\ connectFn /\ nconn < MaxConns
          /\ nconn' = nconn + 1
          /\ cstate' = [cstate EXCEPT ![nconn + 1] = "open"]
          /\ rconn' = [rconn EXCEPT ![l] = nconn + 1]
          /\ rpc' = [rpc EXCEPT ![l] = "connected"]
          /\ UNCHANGED <<conn, flagVars, lpc, kpc, fault, history>>

(* c.conn = conn, whatever has become of the field meanwhile.              *)
ReconnectAssign(l) ==
    /\ Running /\ rpc[l] = "connected"
    /\ conn' = rconn[l]
    /\ rpc' = [rpc EXCEPT ![l] = "resubscribe"]
    /\ late' = (late \/ lpc[l] # "loop" \/ \E k \in Closes : kpc[k] # "idle")
    /\ UNCHANGED <<cstate, nconn, flagVars, lpc, rconn, kpc, fault, connectFn, raced>>

(* The rest of reconnect uses the storages; a failing write starts over.   *)
Resubscribe(l) ==
    /\ Running /\ rpc[l] = "resubscribe"
    /\ \/ ~storages /\ Die("nilStorage")
       \/ /\ storages
          /\ \/ rpc' = [rpc EXCEPT ![l] = "read"]
             \/ /\ cstate[rconn[l]] # "open"
                /\ rpc' = [rpc EXCEPT ![l] = "tick"]
          /\ UNCHANGED <<connVars, flagVars, lpc, rconn, kpc, fault, history>>

(***************************************************************************)
(* Close.                                                                  *)
(***************************************************************************)
CloseCheck(k) ==
    /\ Running /\ kpc[k] = "idle"
    /\ kpc' = [kpc EXCEPT ![k] = IF conn # 0 THEN "close" ELSE "cancel"]
    /\ UNCHANGED <<connVars, flagVars, lpc, readerVars, fault, history>>

CloseClose(k) ==
    /\ Running /\ kpc[k] = "close"
    /\ \/ conn = 0 /\ Die("nilConn")
       \/ /\ conn # 0 /\ cstate[conn] = "closed"
          /\ kpc' = [kpc EXCEPT ![k] = "failed"]
          /\ UNCHANGED <<connVars, flagVars, lpc, readerVars, fault, history>>
       \/ /\ conn # 0 /\ cstate[conn] # "closed"
          /\ CloseConn(conn)
          /\ kpc' = [kpc EXCEPT ![k] = "nil"]
          /\ UNCHANGED <<conn, nconn, flagVars, lpc, readerVars, fault, history>>

CloseNil(k) ==
    /\ Running /\ kpc[k] = "nil"
    /\ conn' = 0
    /\ kpc' = [kpc EXCEPT ![k] = "cancel"]
    /\ UNCHANGED <<cstate, nconn, flagVars, lpc, readerVars, fault, history>>

CloseCancel(k) ==
    /\ Running /\ kpc[k] = "cancel"
    /\ ctxDone' = TRUE
    /\ kpc' = [kpc EXCEPT ![k] = "flag"]
    /\ UNCHANGED <<connVars, alreadyListening, storages, lpc, readerVars, fault, history>>

CloseFlag(k) ==
    /\ Running /\ kpc[k] = "flag"
    /\ alreadyListening' = FALSE
    /\ kpc' = [kpc EXCEPT ![k] = "storages"]
    /\ UNCHANGED <<connVars, storages, ctxDone, lpc, readerVars, fault, history>>

CloseStorages(k) ==
    /\ Running /\ kpc[k] = "storages"
    /\ storages' = FALSE
    /\ kpc' = [kpc EXCEPT ![k] = "returned"]
    /\ UNCHANGED <<connVars, alreadyListening, ctxDone, lpc, readerVars, fault, history>>

(***************************************************************************)
(* The user cancels the context given to NewClient; the node closes a      *)
(* connection in order, or the network resets it.                          *)
(***************************************************************************)
UserCancels ==
    /\ Running /\ ~ctxDone
    /\ ctxDone' = TRUE
    /\ UNCHANGED <<connVars, alreadyListening, storages, lpc, readerVars, kpc, fault, history>>

ConnectionEnds(k, how) ==
    /\ Running /\ cstate[k] = "open"
    /\ cstate' = [cstate EXCEPT ![k] = how]
    /\ UNCHANGED <<conn, nconn, flagVars, lpc, readerVars, kpc, fault, history>>

LoopSteps(l) ==
    ListenSet(l) \/ LoopDone(l) \/ LoopClose(l) \/ LoopNil(l)

ReaderSteps(l) ==
    \/ ReadStart(l) \/ ReadError(l) \/ ReadCloseError(l)
    \/ Reconnect(l) \/ ReconnectAssign(l) \/ Resubscribe(l)

CloseSteps(k) ==
    \/ CloseClose(k) \/ CloseNil(k) \/ CloseCancel(k) \/ CloseFlag(k) \/ CloseStorages(k)

Next ==
    \/ \E l \in Listens : ListenCheck(l) \/ LoopSteps(l)
    \/ \E l \in Listens : LoopReceive(l) \/ ReadMessage(l) \/ ReaderSteps(l)
    \/ \E k \in Closes : CloseCheck(k) \/ CloseSteps(k)
    \/ UserCancels
    \/ \E k \in Conns, how \in {"peerClosed", "reset"} : ConnectionEnds(k, how)

Spec == Init /\ [][Next]_vars

(* The scheduler runs goroutines that can run, and a select with both      *)
(* channels ready picks at random, so ctx.Done is taken sooner or later.   *)
(* Nothing makes the user call or the node send.                           *)
Fairness ==
    /\ \A l \in Listens :
          WF_vars(LoopSteps(l)) /\ WF_vars(LoopReceive(l)) /\ WF_vars(ReaderSteps(l))
    /\ \A k \in Closes : WF_vars(CloseSteps(k))

FairSpec == Spec /\ Fairness

(***************************************************************************)
(* Properties.                                                             *)
(***************************************************************************)

(* Two readers never read one connection at once, which the connection     *)
(* does not support: alreadyListening turns a second Listen away, and      *)
(* after Close has reset it there is nothing left to read.  Two Listens    *)
(* that test the flag before either sets it are not turned away, and a     *)
(* reader that reconnects for a closed client leaves something to read.    *)
OneReader ==
    ~raced /\ ~late =>
        \A l, k \in Listens :
            l # k /\ rpc[l] = "blocked" /\ rpc[k] = "blocked" => rconn[l] # rconn[k]

(* When a Listen that was listening has returned, no connection is open:   *)
(* whoever cancels the context, the loop or Close closes it, and the one   *)
(* that a reconnection put in its place; only one that a reader has opened *)
(* and not yet put there is out of their reach.                            *)
ClosedOnReturn ==
    ~raced /\ ~late /\ (\E l \in Listens : lpc[l] = "returned" /\ rpc[l] # "none") =>
        \A k \in Conns :
            cstate[k] = "open" => \E l \in Listens : rpc[l] = "connected" /\ rconn[l] = k

(* Listen does not outlive its reader or its context: once either has      *)
(* ended the loop returns, or the process is gone.                         *)
ListenReturns ==
    \A l \in Listens :
        (lpc[l] = "loop" /\ (ctxDone \/ rpc[l] = "done"))
            ~> (lpc[l] = "returned" \/ ~Running)

(* "Start websocket reconnect processing if connection was closed"         *)
(* (client.go:141): the reconnection finds a function to connect with.     *)
ReconnectStarts == fault # "nilConnectFn"

=============================================================================

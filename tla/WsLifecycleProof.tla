-------------------------- MODULE WsLifecycleProof --------------------------
(***************************************************************************)
(* Proofs about WsLifecycle: for any number of Listens, Closes and         *)
(* connections, one reader at a time reads a connection, and a Listen that *)
(* returns leaves no connection open.                                      *)
(*                                                                         *)
(* Neither is inductive.  Both rest on the flag: as long as no Close has   *)
(* reset it, one Listen at most is past its check (OneListen), and a Close *)
(* resets it only after c.conn has become nil for good (Detached).  The    *)
(* connections are followed from there: an open one is c.conn, or a reader *)
(* is about to assign it (OnlyConn), and there is no other where the code  *)
(* is about to forget or to replace c.conn (NoneLeft).                     *)
(***************************************************************************)
EXTENDS WsLifecycle, TLAPS

(* A Listen that has passed its check.                                     *)
Entered(l) == lpc[l] = "set" \/ rpc[l] # "none"

(* A Close that has dropped c.conn, and one that has reset the flag.       *)
Dropped(k) == kpc[k] \in {"cancel", "flag", "storages", "returned"}
HasReset(k) == kpc[k] \in {"storages", "returned"}

(* A reader has opened this connection and not yet assigned it to c.conn.  *)
Connecting(c) == \E l \in Listens : rpc[l] = "connected" /\ rconn[l] = c

NoneOpen == \A c \in Conns : cstate[c] = "open" => Connecting(c)

(* The reader starts with the loop, and reads what was opened.             *)
Control ==
    /\ \A l \in Listens : rconn[l] \in 0..nconn
    /\ \A l \in Listens :
          /\ lpc[l] \in {"idle", "set"} => rpc[l] = "none"
          /\ lpc[l] \in {"loop", "close", "nil"} => rpc[l] # "none"

OneListen ==
    (\A k \in Closes : ~HasReset(k)) =>
        /\ \A l, m \in Listens : Entered(l) /\ Entered(m) => l = m
        /\ \A l \in Listens : rpc[l] # "none" => alreadyListening

Detached == (\E k \in Closes : Dropped(k)) => conn = 0

(* A reader that waits for a message waits on c.conn, and alone; one that  *)
(* subscribes again does so on c.conn.                                     *)
OneBlocked ==
    /\ \A l, m \in Listens : rpc[l] = "blocked" /\ rpc[m] = "blocked" => l = m
    /\ \A l \in Listens :
          rpc[l] \in {"blocked", "resubscribe"} => conn = 0 \/ rconn[l] = conn

OnlyConn == \A c \in Conns : cstate[c] = "open" => c = conn \/ Connecting(c)

(* The Listens and Closes that have closed c.conn, or found it closed.     *)
Left(l) ==
    \/ lpc[l] = "nil" \/ (lpc[l] = "returned" /\ rpc[l] # "none")
    \/ rpc[l] \in {"tick", "connected"}

NoneLeft == (\E l \in Listens : Left(l)) \/ (\E k \in Closes : kpc[k] = "nil") => NoneOpen

Undisturbed == OneListen /\ Detached /\ OneBlocked /\ OnlyConn /\ NoneLeft

IInv == TypeOK /\ Control /\ (~raced /\ ~late => Undisturbed)

(* The check lets one Listen in while the flag is down and nobody is past  *)
(* it, or records the race.                                                *)
LEMMA ListenCheckInv ==
    ASSUME IInv, NEW l \in Listens, ListenCheck(l)
    PROVE  IInv'
<1>1. TypeOK'
  BY LifecycleConstants DEF IInv, TypeOK, Conns, ListenCheck, connVars, flagVars, readerVars,
     history
<1>2. Control'
  BY DEF IInv, TypeOK, Control, ListenCheck, connVars, flagVars, readerVars, history
<1>3. ASSUME ~raced', ~late' PROVE Undisturbed'
  <2>1. TypeOK /\ Control /\ Undisturbed  BY <1>3 DEF IInv, ListenCheck, history
  <2>2. OneListen'
    BY <1>3, <2>1 DEF TypeOK, Control, Undisturbed, OneListen, Entered, HasReset, ListenCheck,
       connVars, flagVars, readerVars, history
  <2>3. Detached' /\ OneBlocked'
    BY <2>1 DEF TypeOK, Undisturbed, Detached, OneBlocked, Dropped, ListenCheck, connVars,
       flagVars, readerVars, history
  <2>4. OnlyConn' /\ NoneLeft'
    BY <2>1 DEF TypeOK, Control, Undisturbed, OnlyConn, NoneLeft, NoneOpen, Connecting, Left, Conns,
       OneBlocked, ListenCheck, connVars, flagVars, readerVars, history
  <2> QED  BY <2>2, <2>3, <2>4 DEF Undisturbed
<1> QED  BY <1>1, <1>2, <1>3 DEF IInv

(* The Listen that set the flag is the one past its check.                 *)
LEMMA ListenSetInv ==
    ASSUME IInv, NEW l \in Listens, ListenSet(l)
    PROVE  IInv'
<1>1. TypeOK'
  BY LifecycleConstants DEF IInv, TypeOK, Conns, ListenSet, connVars, flagVars, readerVars, history
<1>2. Control'
  BY DEF IInv, TypeOK, Control, ListenSet, connVars, flagVars, readerVars, history
<1>3. ASSUME ~raced', ~late' PROVE Undisturbed'
  <2>1. TypeOK /\ Control /\ Undisturbed  BY <1>3 DEF IInv, ListenSet, history
  <2>2. OneListen'
    BY <1>3, <2>1 DEF TypeOK, Control, Undisturbed, OneListen, Entered, HasReset, ListenSet,
       connVars, flagVars, readerVars, history
  <2>3. Detached' /\ OneBlocked'
    BY <2>1 DEF TypeOK, Undisturbed, Detached, OneBlocked, Dropped, ListenSet, connVars, flagVars,
       readerVars, history
  <2>4. OnlyConn' /\ NoneLeft'
    BY <2>1 DEF TypeOK, Control, Undisturbed, OnlyConn, NoneLeft, NoneOpen, Connecting, Left, Conns,
       OneBlocked, ListenSet, connVars, flagVars, readerVars, history
  <2> QED  BY <2>2, <2>3, <2>4 DEF Undisturbed
<1> QED  BY <1>1, <1>2, <1>3 DEF IInv

(* The reader goes on reading.                                             *)
LEMMA LoopReceiveInv ==
    ASSUME IInv, NEW l \in Listens, LoopReceive(l)
    PROVE  IInv'
<1>1. TypeOK'
  BY LifecycleConstants DEF IInv, TypeOK, Conns, LoopReceive, connVars, flagVars, readerVars,
     history
<1>2. Control'
  BY DEF IInv, TypeOK, Control, LoopReceive, connVars, flagVars, readerVars, history
<1>3. ASSUME ~raced', ~late' PROVE Undisturbed'
  <2>1. TypeOK /\ Control /\ Undisturbed  BY <1>3 DEF IInv, LoopReceive, history
  <2>2. OneListen'
    BY <1>3, <2>1 DEF TypeOK, Control, Undisturbed, OneListen, Entered, HasReset, LoopReceive,
       connVars, flagVars, readerVars, history
  <2>3. Detached' /\ OneBlocked'
    BY <2>1 DEF TypeOK, Undisturbed, Detached, OneBlocked, Dropped, LoopReceive, connVars,
       flagVars, readerVars, history
  <2>4. OnlyConn' /\ NoneLeft'
    BY <2>1 DEF TypeOK, Control, Undisturbed, OnlyConn, NoneLeft, NoneOpen, Connecting, Left, Conns,
       OneBlocked, LoopReceive, connVars, flagVars, readerVars, history
  <2> QED  BY <2>2, <2>3, <2>4 DEF Undisturbed
<1> QED  BY <1>1, <1>2, <1>3 DEF IInv

(* A loop that finds c.conn nil leaves nothing open.                       *)
LEMMA LoopDoneInv ==
    ASSUME IInv, NEW l \in Listens, LoopDone(l)
    PROVE  IInv'
<1>1. TypeOK'
  BY LifecycleConstants DEF IInv, TypeOK, Conns, LoopDone, connVars, flagVars, readerVars, history
<1>2. Control'
  BY DEF IInv, TypeOK, Control, LoopDone, connVars, flagVars, readerVars, history
<1>3. ASSUME ~raced', ~late' PROVE Undisturbed'
  <2>1. TypeOK /\ Control /\ Undisturbed  BY <1>3 DEF IInv, LoopDone, history
  <2>2. OneListen'
    BY <1>3, <2>1 DEF TypeOK, Control, Undisturbed, OneListen, Entered, HasReset, LoopDone,
       connVars, flagVars, readerVars, history
  <2>3. Detached' /\ OneBlocked'
    BY <2>1 DEF TypeOK, Undisturbed, Detached, OneBlocked, Dropped, LoopDone, connVars, flagVars,
       readerVars, history
  <2>4. OnlyConn' /\ NoneLeft'
    BY <2>1 DEF TypeOK, Control, Undisturbed, OnlyConn, NoneLeft, NoneOpen, Connecting, Left, Conns,
       OneBlocked, LoopDone, connVars, flagVars, readerVars, history
  <2> QED  BY <2>2, <2>3, <2>4 DEF Undisturbed
<1> QED  BY <1>1, <1>2, <1>3 DEF IInv

(* c.conn is forgotten after it was closed.                                *)
LEMMA LoopNilInv ==
    ASSUME IInv, NEW l \in Listens, LoopNil(l)
    PROVE  IInv'
<1>1. TypeOK'
  BY LifecycleConstants DEF IInv, TypeOK, Conns, LoopNil, connVars, flagVars, readerVars, history
<1>2. Control'
  BY DEF IInv, TypeOK, Control, LoopNil, connVars, flagVars, readerVars, history
<1>3. ASSUME ~raced', ~late' PROVE Undisturbed'
  <2>1. TypeOK /\ Control /\ Undisturbed  BY <1>3 DEF IInv, LoopNil, history
  <2>2. OneListen'
    BY <1>3, <2>1 DEF TypeOK, Control, Undisturbed, OneListen, Entered, HasReset, LoopNil,
       connVars, flagVars, readerVars, history
  <2>3. Detached' /\ OneBlocked'
    BY <2>1 DEF TypeOK, Undisturbed, Detached, OneBlocked, Dropped, LoopNil, connVars, flagVars,
       readerVars, history
  <2>4. OnlyConn' /\ NoneLeft'
    BY <2>1 DEF TypeOK, Control, Undisturbed, OnlyConn, NoneLeft, NoneOpen, Connecting, Left, Conns,
       OneBlocked, LoopNil, connVars, flagVars, readerVars, history
  <2> QED  BY <2>2, <2>3, <2>4 DEF Undisturbed
<1> QED  BY <1>1, <1>2, <1>3 DEF IInv

(* The reader has a message to hand over.                                  *)
LEMMA ReadMessageInv ==
    ASSUME IInv, NEW l \in Listens, ReadMessage(l)
    PROVE  IInv'
<1>1. TypeOK'
  BY LifecycleConstants DEF IInv, TypeOK, Conns, ReadMessage, connVars, flagVars, readerVars,
     history
<1>2. Control'
  BY DEF IInv, TypeOK, Control, ReadMessage, connVars, flagVars, readerVars, history
<1>3. ASSUME ~raced', ~late' PROVE Undisturbed'
  <2>1. TypeOK /\ Control /\ Undisturbed  BY <1>3 DEF IInv, ReadMessage, history
  <2>2. OneListen'
    BY <1>3, <2>1 DEF TypeOK, Control, Undisturbed, OneListen, Entered, HasReset, ReadMessage,
       connVars, flagVars, readerVars, history
  <2>3. Detached' /\ OneBlocked'
    BY <2>1 DEF TypeOK, Undisturbed, Detached, OneBlocked, Dropped, ReadMessage, connVars,
       flagVars, readerVars, history
  <2>4. OnlyConn' /\ NoneLeft'
    BY <2>1 DEF TypeOK, Control, Undisturbed, OnlyConn, NoneLeft, NoneOpen, Connecting, Left, Conns,
       OneBlocked, ReadMessage, connVars, flagVars, readerVars, history
  <2> QED  BY <2>2, <2>3, <2>4 DEF Undisturbed
<1> QED  BY <1>1, <1>2, <1>3 DEF IInv

(* The reader ends and cancels the context.                                *)
LEMMA ReadErrorInv ==
    ASSUME IInv, NEW l \in Listens, ReadError(l)
    PROVE  IInv'
<1>1. TypeOK'
  BY LifecycleConstants DEF IInv, TypeOK, Conns, ReadError, connVars, flagVars, readerVars, history
<1>2. Control'
  BY DEF IInv, TypeOK, Control, ReadError, connVars, flagVars, readerVars, history
<1>3. ASSUME ~raced', ~late' PROVE Undisturbed'
  <2>1. TypeOK /\ Control /\ Undisturbed  BY <1>3 DEF IInv, ReadError, history
  <2>2. OneListen'
    BY <1>3, <2>1 DEF TypeOK, Control, Undisturbed, OneListen, Entered, HasReset, ReadError,
       connVars, flagVars, readerVars, history
  <2>3. Detached' /\ OneBlocked'
    BY <2>1 DEF TypeOK, Undisturbed, Detached, OneBlocked, Dropped, ReadError, connVars, flagVars,
       readerVars, history
  <2>4. OnlyConn' /\ NoneLeft'
    BY <2>1 DEF TypeOK, Control, Undisturbed, OnlyConn, NoneLeft, NoneOpen, Connecting, Left, Conns,
       OneBlocked, ReadError, connVars, flagVars, readerVars, history
  <2> QED  BY <2>2, <2>3, <2>4 DEF Undisturbed
<1> QED  BY <1>1, <1>2, <1>3 DEF IInv

(* The connection the peer closed is c.conn, and no other is open.         *)
LEMMA ReadCloseErrorInv ==
    ASSUME IInv, NEW l \in Listens, ReadCloseError(l)
    PROVE  IInv'
<1>1. TypeOK'
  BY LifecycleConstants DEF IInv, TypeOK, Conns, ReadCloseError, connVars, flagVars, readerVars,
     history
<1>2. Control'
  BY DEF IInv, TypeOK, Control, ReadCloseError, connVars, flagVars, readerVars, history
<1>3. ASSUME ~raced', ~late' PROVE Undisturbed'
  <2>1. TypeOK /\ Control /\ Undisturbed  BY <1>3 DEF IInv, ReadCloseError, history
  <2>2. OneListen'
    BY <1>3, <2>1 DEF TypeOK, Control, Undisturbed, OneListen, Entered, HasReset, ReadCloseError,
       connVars, flagVars, readerVars, history
  <2>3. Detached' /\ OneBlocked'
    BY <2>1 DEF TypeOK, Undisturbed, Detached, OneBlocked, Dropped, ReadCloseError, connVars,
       flagVars, readerVars, history
  <2>4. OnlyConn' /\ NoneLeft'
    BY <2>1 DEF TypeOK, Control, Undisturbed, OnlyConn, NoneLeft, NoneOpen, Connecting, Left, Conns,
       OneBlocked, ReadCloseError, connVars, flagVars, readerVars, history
  <2> QED  BY <2>2, <2>3, <2>4 DEF Undisturbed
<1> QED  BY <1>1, <1>2, <1>3 DEF IInv

(* A Close that finds c.conn nil has nothing to close.                     *)
LEMMA CloseCheckInv ==
    ASSUME IInv, NEW k \in Closes, CloseCheck(k)
    PROVE  IInv'
<1>1. TypeOK'
  BY LifecycleConstants DEF IInv, TypeOK, Conns, CloseCheck, connVars, flagVars, readerVars, history
<1>2. Control'
  BY DEF IInv, TypeOK, Control, CloseCheck, connVars, flagVars, readerVars, history
<1>3. ASSUME ~raced', ~late' PROVE Undisturbed'
  <2>1. TypeOK /\ Control /\ Undisturbed  BY <1>3 DEF IInv, CloseCheck, history
  <2>2. OneListen'
    BY <1>3, <2>1 DEF TypeOK, Control, Undisturbed, OneListen, Entered, HasReset, CloseCheck,
       connVars, flagVars, readerVars, history
  <2>3. Detached' /\ OneBlocked'
    BY <2>1 DEF TypeOK, Undisturbed, Detached, OneBlocked, Dropped, CloseCheck, connVars, flagVars,
       readerVars, history
  <2>4. OnlyConn' /\ NoneLeft'
    BY <2>1 DEF TypeOK, Control, Undisturbed, OnlyConn, NoneLeft, NoneOpen, Connecting, Left, Conns,
       OneBlocked, CloseCheck, connVars, flagVars, readerVars, history
  <2> QED  BY <2>2, <2>3, <2>4 DEF Undisturbed
<1> QED  BY <1>1, <1>2, <1>3 DEF IInv

(* c.conn is forgotten after it was closed.                                *)
LEMMA CloseNilInv ==
    ASSUME IInv, NEW k \in Closes, CloseNil(k)
    PROVE  IInv'
<1>1. TypeOK'
  BY LifecycleConstants DEF IInv, TypeOK, Conns, CloseNil, connVars, flagVars, readerVars, history
<1>2. Control'
  BY DEF IInv, TypeOK, Control, CloseNil, connVars, flagVars, readerVars, history
<1>3. ASSUME ~raced', ~late' PROVE Undisturbed'
  <2>1. TypeOK /\ Control /\ Undisturbed  BY <1>3 DEF IInv, CloseNil, history
  <2>2. OneListen'
    BY <1>3, <2>1 DEF TypeOK, Control, Undisturbed, OneListen, Entered, HasReset, CloseNil,
       connVars, flagVars, readerVars, history
  <2>3. Detached' /\ OneBlocked'
    BY <2>1 DEF TypeOK, Undisturbed, Detached, OneBlocked, Dropped, CloseNil, connVars, flagVars,
       readerVars, history
  <2>4. OnlyConn' /\ NoneLeft'
    BY <2>1 DEF TypeOK, Control, Undisturbed, OnlyConn, NoneLeft, NoneOpen, Connecting, Left, Conns,
       OneBlocked, CloseNil, connVars, flagVars, readerVars, history
  <2> QED  BY <2>2, <2>3, <2>4 DEF Undisturbed
<1> QED  BY <1>1, <1>2, <1>3 DEF IInv

(* Close cancels the context.                                              *)
LEMMA CloseCancelInv ==
    ASSUME IInv, NEW k \in Closes, CloseCancel(k)
    PROVE  IInv'
<1>1. TypeOK'
  BY LifecycleConstants DEF IInv, TypeOK, Conns, CloseCancel, connVars, flagVars, readerVars,
     history
<1>2. Control'
  BY DEF IInv, TypeOK, Control, CloseCancel, connVars, flagVars, readerVars, history
<1>3. ASSUME ~raced', ~late' PROVE Undisturbed'
  <2>1. TypeOK /\ Control /\ Undisturbed  BY <1>3 DEF IInv, CloseCancel, history
  <2>2. OneListen'
    BY <1>3, <2>1 DEF TypeOK, Control, Undisturbed, OneListen, Entered, HasReset, CloseCancel,
       connVars, flagVars, readerVars, history
  <2>3. Detached' /\ OneBlocked'
    BY <2>1 DEF TypeOK, Undisturbed, Detached, OneBlocked, Dropped, CloseCancel, connVars,
       flagVars, readerVars, history
  <2>4. OnlyConn' /\ NoneLeft'
    BY <2>1 DEF TypeOK, Control, Undisturbed, OnlyConn, NoneLeft, NoneOpen, Connecting, Left, Conns,
       OneBlocked, CloseCancel, connVars, flagVars, readerVars, history
  <2> QED  BY <2>2, <2>3, <2>4 DEF Undisturbed
<1> QED  BY <1>1, <1>2, <1>3 DEF IInv

(* The flag is reset when c.conn is nil for good.                          *)
LEMMA CloseFlagInv ==
    ASSUME IInv, NEW k \in Closes, CloseFlag(k)
    PROVE  IInv'
<1>1. TypeOK'
  BY LifecycleConstants DEF IInv, TypeOK, Conns, CloseFlag, connVars, flagVars, readerVars, history
<1>2. Control'
  BY DEF IInv, TypeOK, Control, CloseFlag, connVars, flagVars, readerVars, history
<1>3. ASSUME ~raced', ~late' PROVE Undisturbed'
  <2>1. TypeOK /\ Control /\ Undisturbed  BY <1>3 DEF IInv, CloseFlag, history
  <2>2. OneListen'
    BY <1>3, <2>1 DEF TypeOK, Control, Undisturbed, OneListen, Entered, HasReset, CloseFlag,
       connVars, flagVars, readerVars, history
  <2>3. Detached' /\ OneBlocked'
    BY <2>1 DEF TypeOK, Undisturbed, Detached, OneBlocked, Dropped, CloseFlag, connVars, flagVars,
       readerVars, history
  <2>4. OnlyConn' /\ NoneLeft'
    BY <2>1 DEF TypeOK, Control, Undisturbed, OnlyConn, NoneLeft, NoneOpen, Connecting, Left, Conns,
       OneBlocked, CloseFlag, connVars, flagVars, readerVars, history
  <2> QED  BY <2>2, <2>3, <2>4 DEF Undisturbed
<1> QED  BY <1>1, <1>2, <1>3 DEF IInv

(* Close drops the storages.                                               *)
LEMMA CloseStoragesInv ==
    ASSUME IInv, NEW k \in Closes, CloseStorages(k)
    PROVE  IInv'
<1>1. TypeOK'
  BY LifecycleConstants DEF IInv, TypeOK, Conns, CloseStorages, connVars, flagVars, readerVars,
     history
<1>2. Control'
  BY DEF IInv, TypeOK, Control, CloseStorages, connVars, flagVars, readerVars, history
<1>3. ASSUME ~raced', ~late' PROVE Undisturbed'
  <2>1. TypeOK /\ Control /\ Undisturbed  BY <1>3 DEF IInv, CloseStorages, history
  <2>2. OneListen'
    BY <1>3, <2>1 DEF TypeOK, Control, Undisturbed, OneListen, Entered, HasReset, CloseStorages,
       connVars, flagVars, readerVars, history
  <2>3. Detached' /\ OneBlocked'
    BY <2>1 DEF TypeOK, Undisturbed, Detached, OneBlocked, Dropped, CloseStorages, connVars,
       flagVars, readerVars, history
  <2>4. OnlyConn' /\ NoneLeft'
    BY <2>1 DEF TypeOK, Control, Undisturbed, OnlyConn, NoneLeft, NoneOpen, Connecting, Left, Conns,
       OneBlocked, CloseStorages, connVars, flagVars, readerVars, history
  <2> QED  BY <2>2, <2>3, <2>4 DEF Undisturbed
<1> QED  BY <1>1, <1>2, <1>3 DEF IInv

(* The user cancels the context.                                           *)
LEMMA UserCancelsInv ==
    ASSUME IInv, UserCancels
    PROVE  IInv'
<1>1. TypeOK'
  BY LifecycleConstants DEF IInv, TypeOK, Conns, UserCancels, connVars, flagVars, readerVars,
     history
<1>2. Control'
  BY DEF IInv, TypeOK, Control, UserCancels, connVars, flagVars, readerVars, history
<1>3. ASSUME ~raced', ~late' PROVE Undisturbed'
  <2>1. TypeOK /\ Control /\ Undisturbed  BY <1>3 DEF IInv, UserCancels, history
  <2>2. OneListen'
    BY <1>3, <2>1 DEF TypeOK, Control, Undisturbed, OneListen, Entered, HasReset, UserCancels,
       connVars, flagVars, readerVars, history
  <2>3. Detached' /\ OneBlocked'
    BY <2>1 DEF TypeOK, Undisturbed, Detached, OneBlocked, Dropped, UserCancels, connVars,
       flagVars, readerVars, history
  <2>4. OnlyConn' /\ NoneLeft'
    BY <2>1 DEF TypeOK, Control, Undisturbed, OnlyConn, NoneLeft, NoneOpen, Connecting, Left, Conns,
       OneBlocked, UserCancels, connVars, flagVars, readerVars, history
  <2> QED  BY <2>2, <2>3, <2>4 DEF Undisturbed
<1> QED  BY <1>1, <1>2, <1>3 DEF IInv

(* A connection that ends is open no more.                                 *)
LEMMA ConnectionEndsInv ==
    ASSUME IInv, NEW c \in Conns, NEW how \in {"peerClosed", "reset"}, ConnectionEnds(c, how)
    PROVE  IInv'
<1>1. TypeOK'
  BY LifecycleConstants DEF IInv, TypeOK, Conns, ConnectionEnds, connVars, flagVars, readerVars,
     history
<1>2. Control'
  BY DEF IInv, TypeOK, Control, ConnectionEnds, connVars, flagVars, readerVars, history
<1>3. ASSUME ~raced', ~late' PROVE Undisturbed'
  <2>1. TypeOK /\ Control /\ Undisturbed  BY <1>3 DEF IInv, ConnectionEnds, history
  <2>2. OneListen'
    BY <1>3, <2>1 DEF TypeOK, Control, Undisturbed, OneListen, Entered, HasReset, ConnectionEnds,
       connVars, flagVars, readerVars, history
  <2>3. Detached' /\ OneBlocked'
    BY <2>1 DEF TypeOK, Undisturbed, Detached, OneBlocked, Dropped, ConnectionEnds, connVars,
       flagVars, readerVars, history
  <2>4. OnlyConn' /\ NoneLeft'
    BY <2>1 DEF TypeOK, Control, Undisturbed, OnlyConn, NoneLeft, NoneOpen, Connecting, Left, Conns,
       OneBlocked, ConnectionEnds, connVars, flagVars, readerVars, history
  <2> QED  BY <2>2, <2>3, <2>4 DEF Undisturbed
<1> QED  BY <1>1, <1>2, <1>3 DEF IInv

(* A process that dies keeps its state.                                    *)
LEMMA DieInv ==
    ASSUME IInv, NEW why \in {"doubleClose", "nilConn", "nilConnectFn", "nilStorage"}, Die(why)
    PROVE  IInv'
<1>1. TypeOK'
  BY DEF IInv, TypeOK, Conns, Die, connVars, flagVars, readerVars, history
<1>2. Control'  BY DEF IInv, Control, Die, connVars, readerVars
<1>3. ASSUME ~raced', ~late' PROVE Undisturbed'
  BY <1>3 DEF IInv, Undisturbed, OneListen, Detached, OneBlocked, OnlyConn, NoneLeft,
     NoneOpen, Connecting, Entered, HasReset, Dropped, Left, Conns, Die, connVars, flagVars,
     readerVars, history
<1> QED  BY <1>1, <1>2, <1>3 DEF IInv

(* Closing c.conn leaves none open but those about to be assigned.         *)
LEMMA CloseConnLeavesNone ==
    ASSUME TypeOK, OnlyConn, conn # 0, CloseConn(conn), UNCHANGED readerVars
    PROVE  /\ NoneOpen'
           /\ cstate' \in [Conns -> {"unused", "open", "peerClosed", "reset", "closed"}]
BY DEF TypeOK, OnlyConn, NoneOpen, Connecting, CloseConn, Conns, readerVars

(* The loop closes c.conn.                                                 *)
LEMMA LoopCloseInv ==
    ASSUME IInv, NEW l \in Listens, LoopClose(l)
    PROVE  IInv'
<1>1. CASE Die("nilConn") \/ Die("doubleClose")  BY <1>1, DieInv
<1>2. CASE /\ lpc[l] = "close" /\ conn # 0 /\ CloseConn(conn)
           /\ lpc' = [lpc EXCEPT ![l] = "nil"]
           /\ UNCHANGED <<conn, nconn, flagVars, readerVars, kpc, fault, history>>
  <2>1. TypeOK'  BY <1>2 DEF IInv, TypeOK, Conns, CloseConn, flagVars, readerVars, history
  <2>2. Control'  BY <1>2 DEF IInv, TypeOK, Control, readerVars
  <2>3. ASSUME ~raced', ~late' PROVE Undisturbed'
    <3>1. TypeOK /\ Control /\ Undisturbed  BY <1>2, <2>3 DEF IInv, history
    <3>2. NoneOpen'  BY <1>2, <3>1, CloseConnLeavesNone DEF Undisturbed
    <3>3. OneListen' /\ Detached' /\ OneBlocked'
      BY <1>2, <3>1 DEF TypeOK, Control, Undisturbed, OneListen, Detached, OneBlocked,
         Entered, HasReset, Dropped, flagVars, readerVars
    <3>4. OnlyConn' /\ NoneLeft'  BY <3>2 DEF OnlyConn, NoneLeft, NoneOpen
    <3> QED  BY <3>3, <3>4 DEF Undisturbed
  <2> QED  BY <2>1, <2>2, <2>3 DEF IInv
<1> QED  BY <1>1, <1>2 DEF LoopClose

(* Close closes c.conn, or finds it closed and fails.                      *)
LEMMA CloseCloseInv ==
    ASSUME IInv, NEW k \in Closes, CloseClose(k)
    PROVE  IInv'
<1>1. CASE Die("nilConn")  BY <1>1, DieInv
<1>2. CASE /\ kpc[k] = "close" /\ kpc' = [kpc EXCEPT ![k] = "failed"]
           /\ UNCHANGED <<connVars, flagVars, lpc, readerVars, fault, history>>
  <2>1. TypeOK'  BY <1>2 DEF IInv, TypeOK, Conns, connVars, flagVars, readerVars, history
  <2>2. Control'  BY <1>2 DEF IInv, Control, connVars, readerVars
  <2>3. ASSUME ~raced', ~late' PROVE Undisturbed'
    BY <1>2, <2>3 DEF IInv, TypeOK, Undisturbed, OneListen, Detached, OneBlocked, OnlyConn,
       NoneLeft, NoneOpen, Connecting, Entered, HasReset, Dropped, Left, Conns, connVars, flagVars,
       readerVars, history
  <2> QED  BY <2>1, <2>2, <2>3 DEF IInv
<1>3. CASE /\ kpc[k] = "close" /\ conn # 0 /\ CloseConn(conn)
           /\ kpc' = [kpc EXCEPT ![k] = "nil"]
           /\ UNCHANGED <<conn, nconn, flagVars, lpc, readerVars, fault, history>>
  <2>1. TypeOK'  BY <1>3 DEF IInv, TypeOK, Conns, CloseConn, flagVars, readerVars, history
  <2>2. Control'  BY <1>3 DEF IInv, TypeOK, Control, readerVars
  <2>3. ASSUME ~raced', ~late' PROVE Undisturbed'
    <3>1. TypeOK /\ Undisturbed  BY <1>3, <2>3 DEF IInv, history
    <3>2. NoneOpen'  BY <1>3, <3>1, CloseConnLeavesNone DEF Undisturbed
    <3>3. OneListen' /\ Detached' /\ OneBlocked'
      BY <1>3, <3>1 DEF TypeOK, Undisturbed, OneListen, Detached, OneBlocked, Entered,
         HasReset, Dropped, flagVars, readerVars
    <3>4. OnlyConn' /\ NoneLeft'  BY <3>2 DEF OnlyConn, NoneLeft, NoneOpen
    <3> QED  BY <3>3, <3>4 DEF Undisturbed
  <2> QED  BY <2>1, <2>2, <2>3 DEF IInv
<1> QED  BY <1>1, <1>2, <1>3 DEF CloseClose

(* A reader that finds a connection is the only one past its check: where  *)
(* the flag was reset, c.conn is nil.                                      *)
LEMMA ReadStartInv ==
    ASSUME IInv, NEW l \in Listens, ReadStart(l)
    PROVE  IInv'
<1>1. CASE Die("nilConn")  BY <1>1, DieInv
<1>2. CASE /\ rpc[l] = "read" /\ conn # 0
           /\ rconn' = [rconn EXCEPT ![l] = conn]
           /\ rpc' = [rpc EXCEPT ![l] = "blocked"]
           /\ UNCHANGED <<connVars, flagVars, lpc, kpc, fault, history>>
  <2>1. TypeOK'
    <3>1. conn \in 0..MaxConns  BY LifecycleConstants DEF IInv, TypeOK, Conns
    <3>2. rconn' \in [Listens -> 0..MaxConns]  BY <1>2, <3>1 DEF IInv, TypeOK
    <3> QED  BY <1>2, <3>2 DEF IInv, TypeOK, Conns, connVars, flagVars, history
  <2>2. Control'  BY <1>2 DEF IInv, TypeOK, Control, connVars
  <2>3. ASSUME ~raced', ~late' PROVE Undisturbed'
    <3>1. TypeOK /\ Control /\ Undisturbed  BY <1>2, <2>3 DEF IInv, history
    <3>2. \A k \in Closes : ~HasReset(k)
      BY <1>2, <3>1 DEF Undisturbed, Detached, Dropped, HasReset
    <3>3. \A m \in Listens : m # l => rpc[m] = "none"
      BY <1>2, <3>1, <3>2 DEF Undisturbed, OneListen, Entered
    <3>4. OneListen'
      BY <1>2, <3>1 DEF TypeOK, Undisturbed, OneListen, Entered, HasReset, flagVars
    <3>5. Detached'  BY <1>2, <3>1 DEF Undisturbed, Detached, Dropped, connVars
    <3>6. OneBlocked'  BY <1>2, <3>1, <3>3 DEF TypeOK, OneBlocked, connVars
    <3>7. OnlyConn' /\ NoneLeft'
      BY <1>2, <3>1 DEF TypeOK, Undisturbed, OnlyConn, NoneLeft, NoneOpen, Connecting, Left,
         Conns, connVars
    <3> QED  BY <3>4, <3>5, <3>6, <3>7 DEF Undisturbed
  <2> QED  BY <2>1, <2>2, <2>3 DEF IInv
<1> QED  BY <1>1, <1>2 DEF ReadStart

(* A connection that a reader opens is its own until it is assigned.       *)
LEMMA ReconnectInv ==
    ASSUME IInv, NEW l \in Listens, Reconnect(l)
    PROVE  IInv'
<1>1. CASE Die("nilConnectFn")  BY <1>1, DieInv
<1>2. CASE /\ rpc[l] = "tick" /\ nconn < MaxConns
           /\ nconn' = nconn + 1
           /\ cstate' = [cstate EXCEPT ![nconn + 1] = "open"]
           /\ rconn' = [rconn EXCEPT ![l] = nconn + 1]
           /\ rpc' = [rpc EXCEPT ![l] = "connected"]
           /\ UNCHANGED <<conn, flagVars, lpc, kpc, fault, history>>
  <2>1. TypeOK'
    <3>1. nconn + 1 \in Conns  BY <1>2, LifecycleConstants DEF IInv, TypeOK, Conns
    <3>2. conn' \in 0..nconn' /\ nconn' \in Conns
      BY <1>2, <3>1 DEF IInv, TypeOK, Conns
    <3>3. cstate' \in [Conns -> {"unused", "open", "peerClosed", "reset", "closed"}]
      BY <1>2, <3>1 DEF IInv, TypeOK
    <3>4. rpc' \in [Listens -> {"none", "read", "blocked", "send", "tick", "connected",
                                "resubscribe", "done"}]
      BY <1>2 DEF IInv, TypeOK
    <3>5. nconn + 1 \in 0..MaxConns  BY <3>1, LifecycleConstants DEF Conns
    <3>6. rconn' \in [Listens -> 0..MaxConns]  BY <1>2, <3>5 DEF IInv, TypeOK
    <3> QED  BY <1>2, <3>2, <3>3, <3>4, <3>6 DEF IInv, TypeOK, flagVars, history
  <2>2. Control'
    <3>1. \A m \in Listens : rconn'[m] \in 0..nconn'
      BY <1>2 DEF IInv, TypeOK, Control, Conns
    <3>2. \A m \in Listens :
            /\ lpc'[m] \in {"idle", "set"} => rpc'[m] = "none"
            /\ lpc'[m] \in {"loop", "close", "nil"} => rpc'[m] # "none"
      BY <1>2 DEF IInv, TypeOK, Control
    <3> QED  BY <3>1, <3>2 DEF Control
  <2>3. ASSUME ~raced', ~late' PROVE Undisturbed'
    <3>1. TypeOK /\ Control /\ Undisturbed  BY <1>2, <2>3 DEF IInv, history
    <3>2. NoneOpen  BY <1>2, <3>1 DEF Undisturbed, NoneLeft, Left
    <3>3. NoneOpen'
      <4> SUFFICES ASSUME NEW c \in Conns, cstate'[c] = "open" PROVE Connecting(c)'
        BY DEF NoneOpen, Conns
      <4>1. CASE c = nconn + 1
        <5>1. rpc'[l] = "connected" /\ rconn'[l] = c  BY <1>2, <3>1, <4>1 DEF TypeOK
        <5> QED  BY <5>1 DEF Connecting
      <4>2. CASE c # nconn + 1
        <5>1. Connecting(c)  BY <1>2, <3>1, <3>2, <4>2 DEF TypeOK, NoneOpen
        <5>2. PICK m \in Listens : rpc[m] = "connected" /\ rconn[m] = c
          BY <5>1 DEF Connecting
        <5>3. rpc'[m] = "connected" /\ rconn'[m] = c  BY <1>2, <3>1, <5>2 DEF TypeOK
        <5> QED  BY <5>3 DEF Connecting
      <4> QED  BY <4>1, <4>2
    <3>4. OneListen'
      BY <1>2, <3>1 DEF TypeOK, Undisturbed, OneListen, Entered, HasReset, flagVars
    <3>5. Detached'  BY <1>2, <3>1 DEF Undisturbed, Detached, Dropped
    <3>6. OneBlocked'  BY <1>2, <3>1 DEF TypeOK, Undisturbed, OneBlocked
    <3>7. OnlyConn' /\ NoneLeft'  BY <3>3 DEF OnlyConn, NoneLeft, NoneOpen, Conns
    <3> QED  BY <3>4, <3>5, <3>6, <3>7 DEF Undisturbed
  <2> QED  BY <2>1, <2>2, <2>3 DEF IInv
<1> QED  BY <1>1, <1>2 DEF Reconnect

(* A reconnection for a Listen that still loops and a client nobody closes *)
(* replaces a connection that is open no more.                             *)
LEMMA ReconnectAssignInv ==
    ASSUME IInv, NEW l \in Listens, ReconnectAssign(l)
    PROVE  IInv'
<1> USE DEF ReconnectAssign
<1>0. late' \in BOOLEAN
  <2>1. (late \/ lpc[l] # "loop" \/ \E k \in Closes : kpc[k] # "idle") \in BOOLEAN
    BY Zenon
  <2> QED  BY <2>1
<1>1. TypeOK'
  <2>1. conn' \in 0..nconn'  BY DEF IInv, Control
  <2>2. rpc' \in [Listens -> {"none", "read", "blocked", "send", "tick", "connected",
                              "resubscribe", "done"}]
    BY DEF IInv, TypeOK
  <2> QED  BY <1>0, <2>1, <2>2 DEF IInv, TypeOK, Conns, flagVars
<1>2. Control'  BY DEF IInv, TypeOK, Control
<1>3. ASSUME ~raced', ~late' PROVE Undisturbed'
  <2>1. ~late /\ lpc[l] = "loop" /\ \A k \in Closes : kpc[k] = "idle"
    BY <1>3, Zenon
  <2>2. TypeOK /\ Control /\ Undisturbed  BY <1>3, <2>1 DEF IInv
  <2>3. \A m \in Listens : m # l => ~Entered(m)
    BY <2>1, <2>2 DEF Undisturbed, OneListen, Entered, HasReset
  <2>4. NoneOpen  BY <2>2 DEF Undisturbed, NoneLeft, Left
  <2>5. OneListen'
    BY <2>2 DEF TypeOK, Undisturbed, OneListen, Entered, HasReset, flagVars
  <2>6. Detached'  BY <2>1 DEF Detached, Dropped
  <2>7. OneBlocked'  BY <2>2, <2>3 DEF TypeOK, OneBlocked, Entered
  <2>8. OnlyConn'
    BY <2>2, <2>3, <2>4 DEF TypeOK, OnlyConn, NoneOpen, Connecting, Entered, Conns
  <2>9. NoneLeft'
    <3>1. \A m \in Listens : ~Left(m)'
      BY <2>1, <2>2, <2>3 DEF TypeOK, Control, Left, Entered
    <3>2. \A k \in Closes : kpc'[k] # "nil"  BY <2>1
    <3> QED  BY <3>1, <3>2 DEF NoneLeft
  <2> QED  BY <2>5, <2>6, <2>7, <2>8, <2>9 DEF Undisturbed
<1> QED  BY <1>1, <1>2, <1>3 DEF IInv

(* A resubscription that starts over finds its connection gone.            *)
LEMMA ResubscribeInv ==
    ASSUME IInv, NEW l \in Listens, Resubscribe(l)
    PROVE  IInv'
<1>1. CASE Die("nilStorage")  BY <1>1, DieInv
<1>2. CASE /\ rpc[l] = "resubscribe"
           /\ \/ rpc' = [rpc EXCEPT ![l] = "read"]
              \/ cstate[rconn[l]] # "open" /\ rpc' = [rpc EXCEPT ![l] = "tick"]
           /\ UNCHANGED <<connVars, flagVars, lpc, rconn, kpc, fault, history>>
  <2>1. TypeOK'  BY <1>2 DEF IInv, TypeOK, Conns, connVars, flagVars, history
  <2>2. Control'  BY <1>2 DEF IInv, TypeOK, Control, connVars
  <2>3. ASSUME ~raced', ~late' PROVE Undisturbed'
    <3>1. TypeOK /\ Control /\ Undisturbed  BY <1>2, <2>3 DEF IInv, history
    <3>2. OneListen' /\ Detached'
      BY <1>2, <3>1 DEF TypeOK, Undisturbed, OneListen, Detached, Entered, HasReset,
         Dropped, connVars, flagVars
    <3>3. OneBlocked'  BY <1>2, <3>1 DEF TypeOK, Undisturbed, OneBlocked, connVars
    <3>4. \A c \in Conns : Connecting(c) => Connecting(c)'
      BY <1>2, <3>1 DEF TypeOK, Connecting
    <3>5. OnlyConn'
      BY <1>2, <3>1, <3>4 DEF Undisturbed, OnlyConn, Conns, connVars
    <3>6. CASE rpc' = [rpc EXCEPT ![l] = "read"]
      <4>1. NoneOpen => NoneOpen'  BY <1>2, <3>4 DEF NoneOpen, Conns, connVars
      <4>2. NoneLeft'
        BY <1>2, <3>1, <3>6, <4>1 DEF TypeOK, Undisturbed, NoneLeft, Left
      <4> QED  BY <3>2, <3>3, <3>5, <4>2 DEF Undisturbed
    <3>7. CASE cstate[rconn[l]] # "open" /\ rpc' = [rpc EXCEPT ![l] = "tick"]
      <4>1. conn = 0 \/ cstate[conn] # "open"
        BY <1>2, <3>1, <3>7 DEF Undisturbed, OneBlocked
      <4>2. NoneOpen'
        BY <1>2, <3>1, <3>4, <4>1 DEF Undisturbed, OnlyConn, NoneOpen, Conns, connVars
      <4> QED  BY <3>2, <3>3, <3>5, <4>2 DEF Undisturbed, NoneLeft
    <3> QED  BY <1>2, <3>6, <3>7
  <2> QED  BY <2>1, <2>2, <2>3 DEF IInv
<1> QED  BY <1>1, <1>2 DEF Resubscribe

(* NewClient establishes the invariant.                                    *)
LEMMA InitInv == Init => IInv
<1> SUFFICES ASSUME Init PROVE IInv  OBVIOUS
<1>0. 1 \in Conns  BY LifecycleConstants DEF Conns
<1>1. TypeOK
  <2>1. conn \in 0..nconn /\ nconn \in Conns  BY <1>0 DEF Init
  <2>2. cstate \in [Conns -> {"unused", "open", "peerClosed", "reset", "closed"}]  BY DEF Init
  <2>3. 0 \in 0..MaxConns  BY LifecycleConstants
  <2>4. rconn \in [Listens -> 0..MaxConns]  BY <2>3 DEF Init
  <2> QED  BY <2>1, <2>2, <2>4 DEF Init, TypeOK
<1>2. Control  BY DEF Init, Control
<1>3. OneListen /\ Detached /\ OneBlocked
  BY DEF Init, OneListen, Detached, OneBlocked, Entered, HasReset, Dropped
<1>4. OnlyConn  BY DEF Init, OnlyConn, Conns
<1>5. NoneLeft  BY DEF Init, NoneLeft, Left
<1> QED  BY <1>1, <1>2, <1>3, <1>4, <1>5 DEF IInv, Undisturbed

(* Every step keeps it.                                                    *)
LEMMA StepInv == IInv /\ [Next]_vars => IInv'
<1> SUFFICES ASSUME IInv, [Next]_vars PROVE IInv'  OBVIOUS
<1>1. ASSUME NEW l \in Listens, ListenCheck(l) \/ LoopSteps(l) PROVE IInv'
  BY <1>1, ListenCheckInv, ListenSetInv, LoopDoneInv, LoopCloseInv, LoopNilInv DEF LoopSteps
<1>2. ASSUME NEW l \in Listens, LoopReceive(l) \/ ReadMessage(l) \/ ReaderSteps(l) PROVE IInv'
  BY <1>2, LoopReceiveInv, ReadMessageInv, ReadStartInv, ReadErrorInv, ReadCloseErrorInv,
     ReconnectInv, ReconnectAssignInv, ResubscribeInv DEF ReaderSteps
<1>3. ASSUME NEW k \in Closes, CloseCheck(k) \/ CloseSteps(k) PROVE IInv'
  BY <1>3, CloseCheckInv, CloseCloseInv, CloseNilInv, CloseCancelInv, CloseFlagInv,
     CloseStoragesInv DEF CloseSteps
<1>4. CASE UserCancels  BY <1>4, UserCancelsInv
<1>5. ASSUME NEW c \in Conns, NEW how \in {"peerClosed", "reset"}, ConnectionEnds(c, how)
      PROVE  IInv'
  BY <1>5, ConnectionEndsInv
<1>6. CASE UNCHANGED vars
  <2>1. TypeOK' /\ Control'
    BY <1>6 DEF IInv, TypeOK, Control, Conns, vars, connVars, flagVars, readerVars, history
  <2>2. ASSUME ~raced', ~late' PROVE Undisturbed'
    BY <1>6, <2>2 DEF IInv, Undisturbed, OneListen, Detached, OneBlocked, OnlyConn,
       NoneLeft, NoneOpen, Connecting, Entered, HasReset, Dropped, Left, Conns, vars, connVars,
       flagVars, readerVars, history
  <2> QED  BY <2>1, <2>2 DEF IInv
<1> QED  BY <1>1, <1>2, <1>3, <1>4, <1>5, <1>6 DEF Next

(* Type correctness, for any number of Listens, Closes and connections.    *)
THEOREM TypeCorrect == Spec => []TypeOK
<1>1. IInv => TypeOK  BY DEF IInv
<1> QED  BY InitInv, StepInv, <1>1, PTL DEF Spec

(* However many Listens, Closes, cancellations and reconnections overlap,  *)
(* alreadyListening keeps a second reader off a connection, unless two     *)
(* Listens tested it together or a reader reconnected for a client that    *)
(* was being closed.                                                       *)
THEOREM OneReaderAtATime == Spec => []OneReader
<1>1. IInv => OneReader  BY DEF IInv, Undisturbed, OneBlocked, OneReader
<1> QED  BY InitInv, StepInv, <1>1, PTL DEF Spec

(* When a Listen returns, whoever ended it, every connection the client    *)
(* ever opened is closed or was lost, under the same provisos.             *)
THEOREM NothingOpenOnReturn == Spec => []ClosedOnReturn
<1>1. IInv => ClosedOnReturn
  BY DEF IInv, Undisturbed, NoneLeft, NoneOpen, Connecting, Left, ClosedOnReturn
<1> QED  BY InitInv, StepInv, <1>1, PTL DEF Spec

=============================================================================

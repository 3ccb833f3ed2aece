---------------------------- MODULE WsConnector -----------------------------
(***************************************************************************)
(* The Binance WebSocket client of one shard (connectors/binance_ws.py):   *)
(* the generator that connects, subscribes, reads frames, reconnects after *)
(* a failure and replaces an old connection by a new one, and disconnect,  *)
(* which another task calls.                                               *)
(*                                                                         *)
(* Each await of the generator is a program counter; connection ages and   *)
(* backoff delays may end at any time.  What a frame carries is the        *)
(* business of LivePipeline, which extends this module.                    *)
(***************************************************************************)
EXTENDS Naturals, FiniteSets

CONSTANTS Conn,       \* connection slots, numbers from 1
          MaxFaults   \* bound on failures

ASSUME ConnAssumption == Conn \subseteq Nat \ {0} /\ MaxFaults \in Nat

None == 0             \* no connection

VARIABLES sock,       \* each connection: none (not open), open, subscribed
          cur,        \* self._websocket
          st,         \* the stream task: its await and its local connections
          stopReq,    \* self._stop_requested
          faults      \* failures so far

connVars == <<sock, cur, st, stopReq, faults>>

StreamPC == {"loop", "opening", "subscribing", "recv", "put", "rotOpening",
             "rotSubscribing", "rotClosing", "backoff", "done"}

ConnTypeOK ==
    /\ sock \in [Conn -> {"none", "open", "subscribed"}]
    /\ cur \in Conn \cup {None}
    /\ st \in [pc : StreamPC, ws : Conn \cup {None}, new : Conn \cup {None},
               old : Conn \cup {None}]
    /\ stopReq \in BOOLEAN
    /\ faults \in 0..MaxFaults

At(pc) == [pc |-> pc, ws |-> None, new |-> None, old |-> None]
Reading(c) == [At("recv") EXCEPT !.ws = c]

ConnInit ==
    /\ sock = [c \in Conn |-> "none"]
    /\ cur = None /\ st = At("loop") /\ stopReq = FALSE /\ faults = 0

Fault == faults < MaxFaults /\ faults' = faults + 1

\* is_connected
Connected == cur # None /\ sock[cur] # "none"

Held == {cur, st.ws, st.new, st.old}

\* The slot of the next connection: the first that is not in use.
Free(c) == sock[c] = "none" /\ c \notin Held
Fresh(c) == Free(c) /\ \A d \in Conn : d < c => ~Free(d)

Closed(c) == [d \in Conn |-> IF d = c THEN "none" ELSE sock[d]]

-----------------------------------------------------------------------------
(* stream_all_candles *)

\* The exception handlers of the outer loop.
StreamFails ==
    IF stopReq THEN st' = At("done") /\ UNCHANGED cur
               ELSE st' = At("backoff") /\ cur' = None

\* The head of the outer loop.
StreamLoop ==
    /\ st.pc = "loop"
    /\ st' = IF stopReq THEN At("done")
             ELSE IF Connected THEN Reading(cur) ELSE At("opening")
    /\ UNCHANGED <<sock, cur, stopReq, faults>>

\* connect: the transport opens, or does not.
ConnectOpens ==
    /\ st.pc = "opening"
    /\ \/ \E c \in Conn :
            /\ Fresh(c)
            /\ sock' = [sock EXCEPT ![c] = "open"]
            /\ cur' = c
            /\ st' = [At("subscribing") EXCEPT !.ws = c]
            /\ UNCHANGED faults
       \/ /\ Fault
          /\ cur' = None
          /\ st' = At(IF stopReq THEN "done" ELSE "backoff")
          /\ UNCHANGED sock
    /\ UNCHANGED stopReq

\* connect: _subscribe is acknowledged.
SubscribeAcked ==
    /\ st.pc = "subscribing" /\ sock[st.ws] = "open"
    /\ sock' = [sock EXCEPT ![st.ws] = "subscribed"]
    /\ st' = IF cur = None THEN At("loop") ELSE Reading(cur)
    /\ UNCHANGED <<cur, stopReq, faults>>

\* connect: _subscribe is refused, times out, or its connection breaks.
SubscribeFails ==
    /\ st.pc = "subscribing"
    /\ IF sock[st.ws] = "open" THEN Fault ELSE UNCHANGED faults
    /\ sock' = Closed(st.ws)
    /\ cur' = None
    /\ st' = At(IF stopReq THEN "done" ELSE "backoff")
    /\ UNCHANGED stopReq

\* Where the generator goes when it is asked for the next candle.
AfterFrame == IF stopReq THEN At("done")
              ELSE IF Connected THEN Reading(st.ws) ELSE At("loop")

\* A frame that is no final candle, or any frame after a stop request.
OtherFrame ==
    /\ st.pc = "recv" /\ sock[st.ws] # "none"
    /\ st' = AfterFrame
    /\ UNCHANGED <<sock, cur, stopReq, faults>>

\* Mutant: a broken connection ends the stream.
RecvBreaksForGood ==
    /\ st.pc = "recv" /\ sock[st.ws] = "none"
    /\ st' = At("done")
    /\ UNCHANGED <<sock, cur, stopReq, faults>>

\* recv on a connection that broke or was closed.
RecvBreaks ==
    /\ st.pc = "recv" /\ sock[st.ws] = "none"
    /\ StreamFails
    /\ UNCHANGED <<sock, stopReq, faults>>

BackoffEnds ==
    /\ st.pc = "backoff"
    /\ st' = At("loop")
    /\ UNCHANGED <<sock, cur, stopReq, faults>>

-----------------------------------------------------------------------------
(* _rotate_connection *)

\* _should_rotate_connection
Rotate ==
    /\ st.pc = "recv" /\ ~stopReq /\ Connected
    /\ st' = [At("rotOpening") EXCEPT !.old = cur]
    /\ UNCHANGED <<sock, cur, stopReq, faults>>

\* Mutant: a failed rotation is handled like a lost connection.
RotationFailsHard ==
    /\ sock' = Closed(st.new)
    /\ StreamFails

\* The replacement is given up: the old connection stays if it still lives.
RotationFails ==
    /\ sock' = Closed(st.new)
    /\ IF st.old # None /\ Connected
       THEN cur' = st.old /\ st' = Reading(st.old)
       ELSE StreamFails

RotationOpens ==
    /\ st.pc = "rotOpening"
    /\ \/ \E c \in Conn :
            /\ Fresh(c)
            /\ sock' = [sock EXCEPT ![c] = "open"]
            /\ st' = [st EXCEPT !.pc = "rotSubscribing", !.new = c]
            /\ UNCHANGED <<cur, faults>>
       \/ Fault /\ RotationFails
    /\ UNCHANGED stopReq

\* The replacement is acknowledged and becomes the connection; or it fails.
RotationSubscribes ==
    /\ st.pc = "rotSubscribing"
    /\ \/ /\ sock[st.new] = "open"
          /\ sock' = [sock EXCEPT ![st.new] = "subscribed"]
          /\ cur' = st.new
          /\ st' = [st EXCEPT !.pc = "rotClosing", !.ws = st.new]
          /\ UNCHANGED faults
       \/ /\ IF sock[st.new] = "open" THEN Fault ELSE UNCHANGED faults
          /\ RotationFails
    /\ UNCHANGED stopReq

RotationCloses ==
    /\ st.pc = "rotClosing"
    /\ sock' = Closed(st.old)
    /\ st' = Reading(st.ws)
    /\ UNCHANGED <<cur, stopReq, faults>>

-----------------------------------------------------------------------------
(* The environment *)

\* Binance or the network closes a connection.
ConnectionBreaks(c) ==
    /\ sock[c] # "none"
    /\ Fault
    /\ sock' = Closed(c)
    /\ UNCHANGED <<cur, st, stopReq>>

\* The task is cancelled in its await.  The handlers catch no cancellation:
\* only a close that was under way still takes effect.
StreamCancelled(s) ==
    /\ st' = At("done")
    /\ sock' = IF st.pc = "rotClosing" THEN [s EXCEPT ![st.old] = "none"] ELSE s

StreamStep ==
    \/ StreamLoop \/ ConnectOpens \/ SubscribeAcked \/ SubscribeFails
    \/ RecvBreaks \/ BackoffEnds
    \/ RotationOpens \/ RotationSubscribes \/ RotationCloses

ConnNext ==
    \/ StreamStep \/ OtherFrame \/ Rotate
    \/ \E c \in Conn : ConnectionBreaks(c)
=============================================================================

--------------------------- MODULE DispatchLease ----------------------------
(***************************************************************************)
(* The Redis lease in front of the periodic actors (workers/               *)
(* live_strategy.py, strategy_monitoring.py, strategy_comparison.py): a    *)
(* scheduler tick sends a message only when it can set the lease to a      *)
(* fresh token, and the actor that got the token deletes the lease when it *)
(* ends, if the lease still carries that token.                            *)
(*                                                                         *)
(* Dramatiq delivers a message until it is acknowledged: a worker that     *)
(* dies gives it back, and an actor that raises has it sent again.  A      *)
(* token names one message; it is reused here once nothing refers to it.   *)
(***************************************************************************)
EXTENDS Naturals, FiniteSets

CONSTANTS Worker, Token, NoToken,
          MaxFaults     \* crashes, failed calls and retries in a behaviour

ASSUME DispatchAssumption == NoToken \notin Token /\ MaxFaults \in Nat

VARIABLES
    lease,      \* the value of _DISPATCH_LEASE_KEY
    queued,     \* tokens of the messages waiting in the queue
    actor,      \* per worker, the message it runs and how far it is
    strayed,    \* history: outstanding tokens whose lease expired or was released
    faults

dispatchVars == <<lease, queued, actor, strayed, faults>>

Steps == {"idle", "list", "locked", "release", "ack"}
Idle  == [token |-> NoToken, pc |-> "idle"]

Running     == {actor[w].token : w \in Worker} \ {NoToken}
Outstanding == queued \cup Running

DispatchTypeOK ==
    /\ lease \in Token \cup {NoToken}
    /\ queued \subseteq Token
    /\ actor \in [Worker -> [token : Token \cup {NoToken}, pc : Steps]]
    /\ strayed \subseteq Outstanding
    /\ faults \in 0..MaxFaults

DispatchInit ==
    /\ lease = NoToken
    /\ queued = {} /\ strayed = {}
    /\ actor = [w \in Worker |-> Idle]
    /\ faults = 0

At(w, pc) == actor[w].pc = pc
Goto(w, pc) == actor' = [actor EXCEPT ![w].pc = pc]
Fault == faults < MaxFaults /\ faults' = faults + 1

\* enqueue_*: SET NX, then the message.  An enqueuer that dies, or cannot
\* reach the broker nor Redis, after the SET leaves the lease behind.
Enqueue ==
    /\ lease = NoToken
    /\ \E t \in Token \ Outstanding :
          /\ lease' = t
          /\ \/ queued' = queued \cup {t} /\ UNCHANGED faults
             \/ Fault /\ UNCHANGED queued
    /\ UNCHANGED <<actor, strayed>>

\* The lease runs out, whether or not its message was handled.
LeaseExpires ==
    /\ lease # NoToken
    /\ lease' = NoToken
    /\ strayed' = strayed \cup ({lease} \cap Outstanding)
    /\ UNCHANGED <<queued, actor, faults>>

Take(w) ==
    /\ At(w, "idle")
    /\ \E t \in queued :
          /\ actor' = [actor EXCEPT ![w] = [token |-> t, pc |-> "list"]]
          /\ queued' = queued \ {t}
    /\ UNCHANGED <<lease, strayed, faults>>

\* Mutant: the lease is deleted whoever owns it.
release_any(t) == NoToken

\* _release_dispatch_lease: compare and delete.
_release_dispatch_lease(t) == IF lease = t THEN NoToken ELSE lease

\* The finally clause of the actor, whose message is not acknowledged yet; the
\* release may fail.
ReleaseLease(w) ==
    /\ At(w, "release")
    /\ \/ /\ lease' = _release_dispatch_lease(actor[w].token)
          /\ strayed' = strayed \cup {actor[w].token}
          /\ UNCHANGED faults
       \/ Fault /\ UNCHANGED <<lease, strayed>>
    /\ Goto(w, "ack")
    /\ UNCHANGED queued

\* The actor has returned and Dramatiq acknowledges its message.
Acknowledge(w) ==
    /\ At(w, "ack")
    /\ actor' = [actor EXCEPT ![w] = Idle]
    /\ strayed' = strayed \ {actor[w].token}
    /\ UNCHANGED <<lease, queued, faults>>

\* The actor raises: its finally clause releases the lease, and the message
\* is sent again with the same token.
ActorRaises(w) ==
    /\ At(w, "list")
    /\ Fault
    /\ lease' = _release_dispatch_lease(actor[w].token)
    /\ strayed' = strayed \cup {actor[w].token}
    /\ queued' = queued \cup {actor[w].token}
    /\ actor' = [actor EXCEPT ![w] = Idle]

\* The worker process dies: its open transaction is rolled back and the
\* unacknowledged message is delivered again, also when its lease is released.
WorkerDies(w) ==
    /\ ~At(w, "idle")
    /\ Fault
    /\ queued' = queued \cup {actor[w].token}
    /\ actor' = [actor EXCEPT ![w] = Idle]
    /\ UNCHANGED <<lease, strayed>>

\* A message no longer covered by its lease is one whose lease ran out or whose
\* own actor released it, before its acknowledgement or its retry: an actor that
\* ends late never frees the way for a second message beside the one its
\* successor's lease stands for.
OneOutstanding == Outstanding \subseteq {lease} \cup strayed
=============================================================================

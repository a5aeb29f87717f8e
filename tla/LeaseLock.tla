------------------------------ MODULE LeaseLock ------------------------------
(***************************************************************************)
(* RedisMessageBus.acquire_lock / is_locked for one key: SET NX EX with a  *)
(* fresh token, a heartbeat task that renews the TTL without looking at    *)
(* the token, and a compare-and-delete release.                            *)
(*                                                                         *)
(* Time is discrete: Tick is one second.  A client is one coroutine in     *)
(* acquire_lock, and stands for its token: it draws a new one only on a    *)
(* new attempt, and holds the key again only after the key was free.       *)
(***************************************************************************)
EXTENDS Integers

CONSTANTS
    Clients,        \* coroutines that contend for the key
    NoClient,       \* the key does not exist
    TTL,            \* ttl_secs
    Lag             \* longest delay of a due heartbeat: event loop and network

HeartbeatEvery == IF TTL \div 2 > 1 THEN TTL \div 2 ELSE 1

(* session_run uses TTL = 600, so the event loop may stall for 299 s. *)
ASSUME LeaseAssumption ==
    /\ NoClient \notin Clients
    /\ TTL \in Nat /\ Lag \in Nat
    /\ HeartbeatEvery + Lag < TTL

VARIABLES
    key,        \* the token stored under the key
    lease,      \* seconds until Redis expires the key
    pc,         \* where each client is in acquire_lock
    hb,         \* its heartbeat task
    age         \* seconds since it last set the TTL

vars == <<key, lease, pc, hb, age>>

Init ==
    /\ key = NoClient
    /\ lease = 0
    /\ pc = [c \in Clients |-> "idle"]
    /\ hb = [c \in Clients |-> "off"]
    /\ age = [c \in Clients |-> 0]

Request(c) ==
    /\ pc[c] = "idle"
    /\ pc' = [pc EXCEPT ![c] = "trying"]
    /\ UNCHANGED <<key, lease, hb, age>>

(* Mutant: SET without NX. *)
AcquireAnyway(c) ==
    /\ pc[c] = "trying"
    /\ key' = c
    /\ lease' = TTL
    /\ pc' = [pc EXCEPT ![c] = "held"]
    /\ hb' = [hb EXCEPT ![c] = "on"]
    /\ age' = [age EXCEPT ![c] = 0]

(* Mutant: SET without EX, the key gets no time to live. *)
AcquireForever(c) ==
    /\ pc[c] = "trying"
    /\ key = NoClient
    /\ key' = c
    /\ pc' = [pc EXCEPT ![c] = "held"]
    /\ hb' = [hb EXCEPT ![c] = "on"]
    /\ age' = [age EXCEPT ![c] = 0]
    /\ UNCHANGED lease

(* SET key token NX EX ttl succeeds; a refused SET sleeps and polls again. *)
Acquire(c) ==
    /\ pc[c] = "trying"
    /\ key = NoClient
    /\ key' = c
    /\ lease' = TTL
    /\ pc' = [pc EXCEPT ![c] = "held"]
    /\ hb' = [hb EXCEPT ![c] = "on"]
    /\ age' = [age EXCEPT ![c] = 0]

(* Mutant: the heartbeat extends the lease instead of restarting it. *)
RenewAdds(c) ==
    /\ hb[c] = "on"
    /\ age[c] >= HeartbeatEvery
    /\ lease' = IF key = NoClient THEN 0 ELSE lease + TTL
    /\ age' = [age EXCEPT ![c] = 0]
    /\ UNCHANGED <<key, pc, hb>>

(* EXPIRE key ttl: no token is compared, and an absent key stays absent. *)
Renew(c) ==
    /\ hb[c] = "on"
    /\ age[c] >= HeartbeatEvery
    /\ lease' = IF key = NoClient THEN 0 ELSE TTL
    /\ age' = [age EXCEPT ![c] = 0]
    /\ UNCHANGED <<key, pc, hb>>

(* EXPIRE raises: nothing catches it, the heartbeat task ends. *)
RenewFails(c) ==
    /\ hb[c] = "on"
    /\ age[c] >= HeartbeatEvery
    /\ hb' = [hb EXCEPT ![c] = "failed"]
    /\ UNCHANGED <<key, lease, pc, age>>

(* Mutant: the heartbeat outlives the body. *)
ExitKeepsHeartbeat(c) ==
    /\ pc[c] = "held"
    /\ hb[c] = "on"
    /\ pc' = [pc EXCEPT ![c] = "releasing"]
    /\ UNCHANGED <<key, lease, hb, age>>

(* The body ends and the live heartbeat task is cancelled. *)
Exit(c) ==
    /\ pc[c] = "held"
    /\ hb[c] = "on"
    /\ pc' = [pc EXCEPT ![c] = "releasing"]
    /\ hb' = [hb EXCEPT ![c] = "off"]
    /\ UNCHANGED <<key, lease, age>>

(* The body ends after the heartbeat failed: awaiting the task re-raises  *)
(* its error, which is no CancelledError, and the release is never sent.  *)
ExitWithoutRelease(c) ==
    /\ pc[c] = "held"
    /\ hb[c] = "failed"
    /\ pc' = [pc EXCEPT ![c] = "idle"]
    /\ hb' = [hb EXCEPT ![c] = "off"]
    /\ UNCHANGED <<key, lease, age>>

(* Mutant: DEL without comparing the token. *)
ReleaseBlindly(c) ==
    /\ pc[c] = "releasing"
    /\ key' = NoClient
    /\ lease' = 0
    /\ pc' = [pc EXCEPT ![c] = "idle"]
    /\ UNCHANGED <<hb, age>>

(* The Lua script: delete the key if it still holds the token. *)
Release(c) ==
    /\ pc[c] = "releasing"
    /\ IF key = c THEN key' = NoClient /\ lease' = 0
                  ELSE UNCHANGED <<key, lease>>
    /\ pc' = [pc EXCEPT ![c] = "idle"]
    /\ UNCHANGED <<hb, age>>

(* The script raises and the exception is swallowed. *)
ReleaseFails(c) ==
    /\ pc[c] = "releasing"
    /\ pc' = [pc EXCEPT ![c] = "idle"]
    /\ UNCHANGED <<key, lease, hb, age>>

(* The process of c dies and its heartbeat with it.  A task cancelled       *)
(* while its SET or its release is in flight leaves the same state.        *)
Crash(c) ==
    /\ pc[c] # "idle"
    /\ pc' = [pc EXCEPT ![c] = "idle"]
    /\ hb' = [hb EXCEPT ![c] = "off"]
    /\ UNCHANGED <<key, lease, age>>

(* A second passes; a live heartbeat is never later than Lag. *)
Tick ==
    /\ lease > 0
    /\ \A c \in Clients : hb[c] = "on" => age[c] < HeartbeatEvery + Lag
    /\ lease' = lease - 1
    /\ key' = IF lease = 1 THEN NoClient ELSE key
    /\ age' = [c \in Clients |-> IF hb[c] = "on" THEN age[c] + 1 ELSE 0]
    /\ UNCHANGED <<pc, hb>>

Step(c) ==
    \/ Request(c) \/ Acquire(c)
    \/ Renew(c) \/ RenewFails(c)
    \/ Exit(c) \/ ExitWithoutRelease(c)
    \/ Release(c) \/ ReleaseFails(c)
    \/ Crash(c)

Next == Tick \/ \E c \in Clients : Step(c)

Spec == Init /\ [][Next]_vars

(***************************************************************************)
(* Bodies end, Redis answers, time passes; the poll of a waiter is strong  *)
(* because the key may be taken again between two polls.                   *)
(***************************************************************************)
FairSpec ==
    /\ Spec
    /\ WF_vars(Tick)
    /\ \A c \in Clients :
         /\ WF_vars(Renew(c) \/ RenewFails(c))
         /\ WF_vars(Exit(c) \/ ExitWithoutRelease(c))
         /\ WF_vars(Release(c) \/ ReleaseFails(c))
         /\ SF_vars(Acquire(c))

------------------------------------------------------------------------------

TypeOK ==
    /\ key \in Clients \cup {NoClient}
    /\ lease \in 0..TTL
    /\ pc \in [Clients -> {"idle", "trying", "held", "releasing"}]
    /\ hb \in [Clients -> {"off", "on", "failed"}]
    /\ age \in [Clients -> 0..(HeartbeatEvery + Lag)]

(* A client whose heartbeat lives owns the key, and the lease has been     *)
(* running for exactly as long as that heartbeat has been asleep: no blind *)
(* EXPIRE of an earlier holder and no late release ever disturbs it.       *)
HeartbeatKeepsLease ==
    \A c \in Clients : hb[c] = "on" => key = c /\ lease = TTL - age[c]

(* "A distributed mutex" (_base.py acquire_lock): two clients are inside   *)
(* the body together only after the heartbeat of one of them has failed.   *)
MutualExclusion ==
    \A c, d \in Clients :
        pc[c] = "held" /\ pc[d] = "held" /\ c # d => "failed" \in {hb[c], hb[d]}

(* The stored token disappears only by the lease running out or by its own *)
(* client's release: a holder that overran its lease never deletes the     *)
(* lock of the client that took over (_RELEASE_LOCK_SCRIPT).               *)
OnlyOwnerDeletes ==
    [][\A c \in Clients :
         key = c /\ key' # c =>
            lease = 1 \/ (pc[c] = "releasing" /\ pc'[c] = "idle")]_vars

(* A waiting client gets in (or dies waiting), whatever holders crash,     *)
(* lose their heartbeat or fail to release.                                *)
WaiterGetsIn == \A c \in Clients : pc[c] = "trying" ~> pc[c] # "trying"

(* _base.py:333 "the lease only expires if the holding process actually    *)
(* crashes": a client in the body never loses the key under its feet.      *)
LeaseExpiresOnlyAfterCrash ==
    [][\A c \in Clients :
         key = c /\ pc[c] = "held" /\ pc'[c] = "held" => key' = c]_vars

(* The lock as the mutex its callers see.  A client whose heartbeat failed *)
(* is still in the body, but counts as gone: its lease will run out.       *)
M == INSTANCE Mutex WITH holders <- {c \in Clients : hb[c] = "on"}

(* Every step of the Redis protocol is an entry to, an exit from, or a     *)
(* stutter of the abstract mutex, even if commands raise.                  *)
IsMutex == M!Spec
==============================================================================

--------------------------- MODULE LeaseLockProofs ---------------------------
(***************************************************************************)
(* LeaseLock for every set of clients and every TTL and Lag that satisfy   *)
(* LeaseAssumption: its types, its invariants, the mutex it implements,    *)
(* and how a key can be lost, taken over or waited for.                    *)
(***************************************************************************)
EXTENDS LeaseLock, TLAPS

LEMMA HeartbeatEveryNat == HeartbeatEvery \in Nat \ {0} /\ TTL \in Nat \ {0}
BY LeaseAssumption DEF HeartbeatEvery

(* The key, the lease, the program counters, the heartbeats and their ages *)
(* keep their ranges: Tick never lets a live heartbeat age beyond Lag.     *)
THEOREM TypeCorrect == Spec => []TypeOK
<1> USE LeaseAssumption, HeartbeatEveryNat
<1>1. Init => TypeOK
  BY DEF Init, TypeOK
<1>2. TypeOK /\ [Next]_vars => TypeOK'
  <2> SUFFICES ASSUME TypeOK, [Next]_vars PROVE TypeOK'
    OBVIOUS
  <2> USE DEF TypeOK
  <2>1. CASE Tick
    <3>1. lease' \in 0..TTL /\ key' \in Clients \cup {NoClient}
      BY <2>1 DEF Tick
    <3>2. age' \in [Clients -> 0..(HeartbeatEvery + Lag)]
      BY <2>1 DEF Tick
    <3>3. QED BY <2>1, <3>1, <3>2 DEF Tick
  <2>2. ASSUME NEW c \in Clients, Step(c) PROVE TypeOK'
    <3>1. CASE Request(c) \/ Acquire(c)
      BY <3>1 DEF Request, Acquire
    <3>2. CASE Renew(c) \/ RenewFails(c)
      BY <3>2 DEF Renew, RenewFails
    <3>3. CASE Exit(c) \/ ExitWithoutRelease(c)
      BY <3>3 DEF Exit, ExitWithoutRelease
    <3>4. CASE Release(c) \/ ReleaseFails(c)
      BY <3>4 DEF Release, ReleaseFails
    <3>5. CASE Crash(c)
      BY <3>5 DEF Crash
    <3>6. QED BY <2>2, <3>1, <3>2, <3>3, <3>4, <3>5 DEF Step
  <2>3. CASE UNCHANGED vars
    BY <2>3 DEF vars
  <2>4. QED BY <2>1, <2>2, <2>3 DEF Next
<1>3. QED BY <1>1, <1>2, PTL DEF Spec

(* The heartbeat task exists exactly while its client is in the body. *)
HeartbeatInBody == \A c \in Clients : hb[c] = "off" <=> pc[c] # "held"

LEMMA HeartbeatTask == Spec => []HeartbeatInBody
<1>1. Init => HeartbeatInBody
  BY DEF Init, HeartbeatInBody
<1>2. TypeOK /\ HeartbeatInBody /\ [Next]_vars => HeartbeatInBody'
  BY DEF TypeOK, HeartbeatInBody, Next, vars, Step, Tick, Request, Acquire,
         Renew, RenewFails, Exit, ExitWithoutRelease, Release, ReleaseFails,
         Crash
<1>3. QED BY <1>1, <1>2, TypeCorrect, PTL DEF Spec

(* A live heartbeat owns the key and the lease that it last set: inductive *)
(* together with HeartbeatInBody, which keeps a late release away.         *)
THEOREM LeaseKept == Spec => []HeartbeatKeepsLease
<1> USE LeaseAssumption, HeartbeatEveryNat
<1>1. Init => HeartbeatKeepsLease
  BY DEF Init, HeartbeatKeepsLease
<1>2. TypeOK /\ HeartbeatInBody /\ HeartbeatKeepsLease /\ [Next]_vars
        => HeartbeatKeepsLease'
  <2> SUFFICES ASSUME TypeOK, HeartbeatInBody, HeartbeatKeepsLease,
                      [Next]_vars, NEW d \in Clients, hb'[d] = "on"
               PROVE  key' = d /\ lease' = TTL - age'[d]
    BY DEF HeartbeatKeepsLease
  <2> USE DEF TypeOK, HeartbeatKeepsLease
  <2>1. CASE Tick
    <3>1. hb[d] = "on" /\ age[d] < HeartbeatEvery + Lag
      BY <2>1 DEF Tick
    <3>2. key = d /\ lease = TTL - age[d] /\ age[d] \in Nat
      BY <3>1
    <3>3. lease # 1 /\ age'[d] = age[d] + 1
      BY <2>1, <3>1, <3>2 DEF Tick
    <3>4. QED BY <2>1, <3>2, <3>3 DEF Tick
  <2>2. ASSUME NEW c \in Clients, Step(c)
        PROVE  key' = d /\ lease' = TTL - age'[d]
    <3>1. CASE Acquire(c)
      <4>1. c = d
        (* another live heartbeat would have owned the key already *)
        BY <3>1 DEF Acquire
      <4>2. QED BY <3>1, <4>1 DEF Acquire
    <3>2. CASE Renew(c)
      BY <3>2 DEF Renew
    <3>3. CASE Release(c)
      <4>1. c # d
        BY <3>3 DEF Release, HeartbeatInBody
      <4>2. QED BY <3>3, <4>1 DEF Release
    <3>4. CASE Request(c) \/ RenewFails(c) \/ Exit(c)
                 \/ ExitWithoutRelease(c) \/ ReleaseFails(c) \/ Crash(c)
      BY <3>4 DEF Request, RenewFails, Exit, ExitWithoutRelease,
                  ReleaseFails, Crash
    <3>5. QED BY <2>2, <3>1, <3>2, <3>3, <3>4 DEF Step
  <2>3. CASE UNCHANGED vars
    BY <2>3 DEF vars
  <2>4. QED BY <2>1, <2>2, <2>3 DEF Next
<1>3. QED BY <1>1, <1>2, TypeCorrect, HeartbeatTask, PTL DEF Spec

(* Two clients in the body without a failed heartbeat would both have a    *)
(* live one and own the same key.                                          *)
THEOREM Exclusive == Spec => []MutualExclusion
<1>1. TypeOK /\ HeartbeatInBody /\ HeartbeatKeepsLease => MutualExclusion
  BY DEF TypeOK, HeartbeatInBody, HeartbeatKeepsLease, MutualExclusion
<1>2. QED BY <1>1, TypeCorrect, HeartbeatTask, LeaseKept, PTL

(* No client ever deletes the key while another one's token is in it. *)
THEOREM OwnerDeletes == Spec => OnlyOwnerDeletes
<1>1. TypeOK /\ HeartbeatInBody /\ [Next]_vars =>
        [\A c \in Clients :
           key = c /\ key' # c =>
              lease = 1 \/ (pc[c] = "releasing" /\ pc'[c] = "idle")]_vars
  <2> SUFFICES ASSUME TypeOK, [Next]_vars,
                      NEW d \in Clients, key = d, key' # d
               PROVE  lease = 1 \/ (pc[d] = "releasing" /\ pc'[d] = "idle")
    BY DEF vars
  <2> USE LeaseAssumption DEF TypeOK
  <2>1. CASE Tick
    BY <2>1 DEF Tick
  <2>2. ASSUME NEW c \in Clients, Step(c)
        PROVE  pc[d] = "releasing" /\ pc'[d] = "idle"
    BY <2>2 DEF Step, Request, Acquire, Renew, RenewFails, Exit,
                ExitWithoutRelease, Release, ReleaseFails, Crash
  <2>3. CASE UNCHANGED vars
    BY <2>3 DEF vars
  <2>4. QED BY <2>1, <2>2, <2>3 DEF Next
<1>2. QED BY <1>1, TypeCorrect, HeartbeatTask, PTL DEF Spec, OnlyOwnerDeletes

(* The Redis protocol implements the abstract mutex: an acquisition finds  *)
(* no live heartbeat, and a heartbeat that fails leaves the mutex.         *)
THEOREM ImplementsMutex == Spec => IsMutex
<1> DEFINE inside == {c \in Clients : hb[c] = "on"}
<1>1. Init => M!Init
  BY DEF Init, M!Init
<1>2. TypeOK /\ HeartbeatInBody /\ HeartbeatKeepsLease /\ [Next]_vars
        => [M!Next]_inside
  <2> SUFFICES ASSUME TypeOK, HeartbeatInBody, HeartbeatKeepsLease,
                      [Next]_vars
               PROVE  M!Next \/ inside' = inside
    OBVIOUS
  <2> USE DEF TypeOK
  <2>1. CASE Tick
    BY <2>1 DEF Tick
  <2>2. ASSUME NEW c \in Clients, Step(c)
        PROVE  M!Next \/ inside' = inside
    <3>1. CASE Acquire(c)
      <4>1. inside = {}
        BY <3>1, LeaseAssumption DEF Acquire, HeartbeatKeepsLease
      <4>2. inside' = {c}
        BY <3>1, <4>1 DEF Acquire
      <4>3. M!Enter(c)
        BY <4>1, <4>2 DEF M!Enter
      <4>4. QED BY <4>3 DEF M!Next
    <3>2. CASE RenewFails(c) \/ Exit(c)
      <4>1. c \in inside /\ inside' = inside \ {c}
        BY <3>2 DEF RenewFails, Exit
      <4>2. M!Leave(c)
        BY <4>1 DEF M!Leave
      <4>3. QED BY <4>2 DEF M!Next
    <3>3. CASE Crash(c)
      <4>1. CASE c \in inside
        <5>1. inside' = inside \ {c}
          BY <3>3, <4>1 DEF Crash
        <5>2. M!Leave(c)
          BY <4>1, <5>1 DEF M!Leave
        <5>3. QED BY <5>2 DEF M!Next
      <4>2. CASE c \notin inside
        BY <3>3, <4>2 DEF Crash
      <4>3. QED BY <4>1, <4>2
    <3>4. CASE Request(c) \/ Renew(c) \/ ExitWithoutRelease(c)
                 \/ Release(c) \/ ReleaseFails(c)
      BY <3>4 DEF Request, Renew, ExitWithoutRelease, Release, ReleaseFails
    <3>5. QED BY <2>2, <3>1, <3>2, <3>3, <3>4 DEF Step
  <2>3. CASE UNCHANGED vars
    BY <2>3 DEF vars
  <2>4. QED BY <2>1, <2>2, <2>3 DEF Next
<1>3. QED
  BY <1>1, <1>2, TypeCorrect, HeartbeatTask, LeaseKept, PTL
  DEF Spec, IsMutex, M!Spec

------------------------------------------------------------------------------
(* When the lease can run out, and that a waiter waits for something *)

(* A key always has a time to live. *)
KeyTimed == key # NoClient <=> lease > 0

LEMMA KeysExpire == Spec => []KeyTimed
<1> USE LeaseAssumption, HeartbeatEveryNat
<1>1. Init => KeyTimed
  BY DEF Init, KeyTimed
<1>2. TypeOK /\ KeyTimed /\ [Next]_vars => KeyTimed'
  BY DEF TypeOK, KeyTimed, Next, vars, Step, Tick, Request, Acquire, Renew,
         RenewFails, Exit, ExitWithoutRelease, Release, ReleaseFails, Crash
<1>3. QED BY <1>1, <1>2, TypeCorrect, PTL DEF Spec

(* A client in the body loses the key in one way only: a renewal failed,   *)
(* which ended its heartbeat task, and the lease then ran to its end.      *)
LostOnlyUnrenewed ==
    [][\A c \in Clients :
         key = c /\ pc[c] = "held" /\ pc'[c] = "held" /\ key' # c =>
            hb[c] = "failed" /\ lease = 1]_vars

(* _base.py:333 says that the lease expires only if the process crashes.   *)
(* The run lease_lock_expiry refutes it; this is what is true of the code: *)
(* one renewal that raises is the only other cause.                        *)
THEOREM OnlyFailedRenewalsLoseTheKey == Spec => LostOnlyUnrenewed
<1>1. TypeOK /\ HeartbeatInBody /\ HeartbeatKeepsLease /\ [Next]_vars =>
        [\A c \in Clients :
           key = c /\ pc[c] = "held" /\ pc'[c] = "held" /\ key' # c =>
              hb[c] = "failed" /\ lease = 1]_vars
  <2> SUFFICES ASSUME TypeOK, HeartbeatInBody, HeartbeatKeepsLease, [Next]_vars,
                      NEW d \in Clients, key = d, pc[d] = "held",
                      pc'[d] = "held", key' # d
               PROVE  hb[d] = "failed" /\ lease = 1
    BY DEF vars
  <2> USE LeaseAssumption, HeartbeatEveryNat DEF TypeOK
  <2>1. CASE Tick
    <3>1. lease = 1
      BY <2>1 DEF Tick
    <3>2. hb[d] # "on"
      <4>1. SUFFICES ASSUME hb[d] = "on" PROVE FALSE
        OBVIOUS
      <4>2. lease = TTL - age[d] /\ age[d] < HeartbeatEvery + Lag
        BY <2>1, <4>1 DEF Tick, HeartbeatKeepsLease
      <4>3. QED BY <3>1, <4>2
    <3>3. QED BY <3>1, <3>2 DEF HeartbeatInBody
  <2>2. ASSUME NEW c \in Clients, Step(c) PROVE FALSE
    BY <2>2 DEF Step, Request, Acquire, Renew, RenewFails, Exit,
                ExitWithoutRelease, Release, ReleaseFails, Crash
  <2>3. CASE UNCHANGED vars
    BY <2>3 DEF vars
  <2>4. QED BY <2>1, <2>2, <2>3 DEF Next
<1>2. QED
  BY <1>1, TypeCorrect, HeartbeatTask, LeaseKept, PTL DEF Spec, LostOnlyUnrenewed

(* Nobody renews the key any more. *)
Orphaned == key # NoClient /\ \A c \in Clients : hb[c] # "on"

(* An orphaned key is never adopted: its lease only runs down, with no     *)
(* second left out and none added, until the key is gone.                  *)
OrphansRunOut ==
    [][Orphaned =>
         \/ Orphaned' /\ key' = key /\ lease' \in {lease, lease - 1}
         \/ key' = NoClient]_vars

(* The EXPIRE of a heartbeat compares no token, yet it never revives the   *)
(* lock of a client that crashed or lost its heartbeat.                    *)
THEOREM NoAdoption == Spec => OrphansRunOut
<1>1. TypeOK /\ [Next]_vars =>
        [Orphaned =>
           \/ Orphaned' /\ key' = key /\ lease' \in {lease, lease - 1}
           \/ key' = NoClient]_vars
  <2> SUFFICES ASSUME TypeOK, [Next]_vars, Orphaned, key' # NoClient
               PROVE  Orphaned' /\ key' = key /\ lease' \in {lease, lease - 1}
    OBVIOUS
  <2> USE LeaseAssumption DEF TypeOK, Orphaned
  <2>1. CASE Tick
    BY <2>1 DEF Tick
  <2>2. ASSUME NEW c \in Clients, Step(c)
        PROVE  Orphaned' /\ key' = key /\ lease' = lease
    BY <2>2 DEF Step, Request, Acquire, Renew, RenewFails, Exit,
                ExitWithoutRelease, Release, ReleaseFails, Crash
  <2>3. CASE UNCHANGED vars
    BY <2>3 DEF vars
  <2>4. QED BY <2>1, <2>2, <2>3 DEF Next
<1>2. QED BY <1>1, TypeCorrect, PTL DEF Spec, OrphansRunOut

(* What a waiter waits for: a client in the body whose heartbeat lives and *)
(* who will release, or an orphaned key, whose lease the clock runs down:  *)
(* no heartbeat keeps Tick from it.  Otherwise the key is free.            *)
WaitExplained ==
    \/ key = NoClient
    \/ \E d \in Clients : key = d /\ pc[d] = "held" /\ hb[d] = "on"
    \/ Orphaned /\ lease > 0

(* The part of WaiterGetsIn that needs no fairness: no state has the key   *)
(* taken by nobody who would ever give it back.                            *)
THEOREM NoKeyWithoutEnd == Spec => []WaitExplained
<1>1. TypeOK /\ HeartbeatInBody /\ HeartbeatKeepsLease /\ KeyTimed => WaitExplained
  <2> SUFFICES ASSUME TypeOK, HeartbeatInBody, HeartbeatKeepsLease, KeyTimed,
                      key # NoClient
               PROVE  WaitExplained
    BY DEF WaitExplained
  <2>1. CASE \E d \in Clients : hb[d] = "on"
    BY <2>1 DEF HeartbeatInBody, HeartbeatKeepsLease, WaitExplained
  <2>2. CASE \A c \in Clients : hb[c] # "on"
    BY <2>2 DEF KeyTimed, Orphaned, WaitExplained
  <2>3. QED BY <2>1, <2>2
<1>2. QED
  BY <1>1, TypeCorrect, HeartbeatTask, LeaseKept, KeysExpire, PTL
==============================================================================

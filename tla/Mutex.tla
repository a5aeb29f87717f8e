-------------------------------- MODULE Mutex --------------------------------
(***************************************************************************)
(* What MessageBus.acquire_lock promises for one key (message_bus/_base.py *)
(* "Acquire a distributed mutex on key"): a client enters the body of the  *)
(* async with only when no client is inside it, and leaves when it is done *)
(* or dies.  LeaseLock is the Redis implementation.                        *)
(***************************************************************************)
CONSTANT Clients

VARIABLE holders    \* the clients inside the body

Init == holders = {}

Enter(c) == holders = {} /\ holders' = {c}

Leave(c) == c \in holders /\ holders' = holders \ {c}

Next == \E c \in Clients : Enter(c) \/ Leave(c)

Spec == Init /\ [][Next]_holders
==============================================================================

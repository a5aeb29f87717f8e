---------------------------- MODULE ToolCallLife ----------------------------
(***************************************************************************)
(* The life of a tool call as its class documents it (the transitions in   *)
(* the docstring of ToolCallBlock.state), inside replies that are          *)
(* transactions: the states a reply leads its calls to count from when it  *)
(* returns and is persisted; a reply that fails takes them all back.       *)
(***************************************************************************)
CONSTANT Calls

VARIABLES
    state,      \* of each call; "none": not proposed yet
    saved       \* the states that were persisted last

vars == <<state, saved>>

States == {"none", "pending", "asking", "allowed", "submitted", "finished"}

Init ==
    /\ state = [c \in Calls |-> "none"]
    /\ saved = state

(* A pending call that is handed out is allowed on the way. *)
Successors(s) ==
    CASE s = "none" -> {"pending"}
      [] s = "pending" -> {"asking", "allowed", "submitted", "finished"}
      [] s = "asking" -> {"allowed", "finished"}
      [] s = "allowed" -> {"submitted", "finished"}
      [] s = "submitted" -> {"finished"}
      [] OTHER -> {}

Advance ==
    /\ state' \in [Calls -> States]
    /\ \A c \in Calls : state'[c] # state[c] => state'[c] \in Successors(state[c])
    /\ saved' \in {saved, state'}

RollBack ==
    /\ state' = saved
    /\ UNCHANGED saved

Next == Advance \/ RollBack

Spec == Init /\ [][Next]_vars

(* A call whose end was persisted is never opened again. *)
StaysFinished ==
    \A c \in Calls : saved[c] = "finished" =>
        saved'[c] = "finished" /\ state'[c] = "finished"

FinishedForGood == [][StaysFinished]_vars
=============================================================================

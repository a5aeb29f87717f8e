----------------------------- MODULE ToolPromise -----------------------------
(***************************************************************************)
(* What the agent may rely on when a tool call can outlive its reply: the  *)
(* call is answered with the tool's result, or with a placeholder.  What   *)
(* the tool gives later reaches the session at most once, as a hint and    *)
(* only if the call was not answered with the result, and the session is   *)
(* woken for it after the hint is there.                                   *)
(***************************************************************************)
CONSTANT Calls

VARIABLES
    answer,     \* what the reply got for a call
    hint        \* what became of the result that comes later

vars == <<answer, hint>>

Answers == {"none", "result", "placeholder", "lost"}
Hints == {"none", "pushed", "woken", "broken"}

Init ==
    /\ answer = [c \in Calls |-> "none"]
    /\ hint = [c \in Calls |-> "none"]

(* The reply gets an answer, or ends without one. *)
Answer(c) ==
    /\ answer[c] = "none"
    /\ answer'[c] = "result" => hint[c] = "none" /\ hint'[c] = "none"

(* The session gets the hint and then the wake-up, or something is lost. *)
Notify(c) ==
    /\ answer'[c] # "result"
    /\ \/ hint[c] = "none" /\ hint'[c] \in {"pushed", "broken"}
       \/ hint[c] = "pushed" /\ hint'[c] \in {"woken", "broken"}

(* Any calls may move in one step: a process that ends takes all of its    *)
(* calls with it.                                                          *)
Next ==
    /\ answer' \in [Calls -> Answers]
    /\ hint' \in [Calls -> Hints]
    /\ \A c \in Calls :
          /\ answer'[c] # answer[c] => Answer(c)
          /\ hint'[c] # hint[c] => Notify(c)

Spec == Init /\ [][Next]_vars
==============================================================================

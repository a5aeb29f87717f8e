------------------------------ MODULE MCChatRun ------------------------------
EXTENDS ChatRun

CONSTANTS p1, p2, s1, u1, u2, c1, h1, h2

OneProc == {p1}
TwoProcs == {p1, p2}
OneSession == {s1}
NoInput == {}
OneUser == {u1}
TwoUsers == {u1, u2}
OneConfirm == {c1}
OneHint == {h1}
TwoHints == {h1, h2}

(* The processes are interchangeable. *)
Symmetric == Permutations(TwoProcs)

(* Every message goes to the one session. *)
AllToOne == [x \in Inputs \cup Hints |-> s1]
==============================================================================

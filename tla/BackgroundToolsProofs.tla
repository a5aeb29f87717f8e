------------------------ MODULE BackgroundToolsProofs ------------------------
(***************************************************************************)
(* Background tools, for any number of processes, sessions, calls and      *)
(* faults: the types, that an offloaded tool that runs can be stopped,     *)
(* that BackgroundTools implements ToolPromise, that no stop, result or    *)
(* registry entry gets lost on its way, and that every call goes forward.  *)
(***************************************************************************)
EXTENDS BackgroundTools, TLAPS

(* A deliverer exists only for a call whose deadline has passed. *)
DeliverSound ==
    \A c \in Calls : deliver[c] # "none" => at[c] \notin {"none", "waiting", "answered"}

(* _on_done runs only for an offloaded call and after its task. *)
CleanupSound ==
    \A c \in Calls :
        /\ cleanup[c] # "none" => at[c] = "offloaded"
        /\ cleanup[c] \in {"unregister", "done", "failed"} => tool[c] # "running"

(* A running task is in the table from the deadline on, and in the         *)
(* registry from the answer of Redis on.                                   *)
Listed ==
    \A c \in Calls : tool[c] = "running" =>
        /\ at[c] \in {"registering", "registered", "offloaded"} =>
              c \in tasks \cup requested
        /\ at[c] \in {"registered", "offloaded"} =>
              c \in registry \/ deletion[Session[c]] = "purged"

Inv == TypeOK /\ DeliverSound /\ CleanupSound /\ Listed

LEMMA InitInv ==
    ASSUME ToolAssumption, Init PROVE Inv
<1>1. TypeOK
  BY DEF ToolAssumption, Init, TypeOK, Ats, Tools, Delivers
<1>2. DeliverSound /\ CleanupSound /\ Listed
  BY DEF Init, DeliverSound, CleanupSound, Listed
<1> QED
  BY <1>1, <1>2 DEF Inv

------------------------------------------------------------------------------
(* Types *)

LEMMA CountFault ==
    ASSUME ToolAssumption, faults \in 0..MaxFaults, faults < MaxFaults
    PROVE  faults + 1 \in 0..MaxFaults
BY DEF ToolAssumption

LEMMA AbandonTypes ==
    ASSUME TypeOK, NEW p \in Procs, NEW S \in SUBSET Sessions,
           AbandonReplies(p, S)
    PROVE  /\ runner' \in [Sessions -> Procs \cup {NoProc}]
           /\ at' \in [Calls -> Ats]
           /\ \A c \in Calls : at'[c] # "none" => at[c] # "none"
<1> USE DEF TypeOK, AbandonReplies, Ats, Acting
<1>1. runner' \in [Sessions -> Procs \cup {NoProc}]
  OBVIOUS
<1>2. at' \in [Calls -> Ats]
  OBVIOUS
<1>3. \A c \in Calls : at'[c] # "none" => at[c] # "none"
  OBVIOUS
<1> QED
  BY <1>1, <1>2, <1>3

LEMMA NextTypes ==
    ASSUME ToolAssumption, TypeOK, [Next]_vars PROVE TypeOK'
<1> USE DEF TypeOK, bus
<1>1. ASSUME NEW s \in Sessions, NEW p \in Procs, BeginReply(s, p) PROVE TypeOK'
  BY <1>1 DEF BeginReply
<1>2. ASSUME NEW s \in Sessions, EndReply(s) PROVE TypeOK'
  BY <1>2 DEF EndReply
<1>3. ASSUME NEW s \in Sessions, CancelRuns(s) PROVE TypeOK'
  <2>1. Broadcast(StopSession(s)) \subseteq
          Procs \X (({"task"} \X Calls) \cup ({"session"} \X Sessions))
    BY DEF Broadcast, StopSession
  <2> QED
    BY <1>3, <2>1 DEF CancelRuns
<1>4. ASSUME NEW s \in Sessions, PurgeBus(s) PROVE TypeOK'
  BY <1>4 DEF PurgeBus
<1>5. ASSUME NEW s \in Sessions, NEW c \in Calls, StopHere(s, c) PROVE TypeOK'
  BY <1>5 DEF StopHere
<1>6. ASSUME NEW s \in Sessions, NEW c \in Calls, StopElsewhere(s, c) PROVE TypeOK'
  <2>1. Broadcast(StopTask(c)) \subseteq
          Procs \X (({"task"} \X Calls) \cup ({"session"} \X Sessions))
    BY DEF Broadcast, StopTask
  <2> QED
    BY <1>6, <2>1 DEF StopElsewhere
<1>7. ASSUME NEW c \in Calls, CallTool(c) PROVE TypeOK'
  <2>1. Session[c] \in Sessions
    BY DEF ToolAssumption
  <2> QED
    BY <1>7, <2>1 DEF CallTool, Ats, Acting, Tools
<1>8. ASSUME NEW c \in Calls, GetResult(c) PROVE TypeOK'
  BY <1>8 DEF GetResult, Ats
<1>9. ASSUME NEW c \in Calls, Deadline(c) PROVE TypeOK'
  BY <1>9 DEF Deadline, Ats, Acting, Delivers
<1>10. ASSUME NEW c \in Calls, RegisterInBus(c) PROVE TypeOK'
  BY <1>10 DEF RegisterInBus, Ats, Acting
<1>11. ASSUME NEW c \in Calls, Offload(c) PROVE TypeOK'
  BY <1>11 DEF Offload, Ats
<1>12. ASSUME NEW c \in Calls, RegisterRaises(c) PROVE TypeOK'
  BY <1>12, CountFault DEF RegisterRaises, Ats
<1>13. ASSUME NEW c \in Calls, ToolEnds(c) \/ ToolCancelled(c) PROVE TypeOK'
  BY <1>13 DEF ToolEnds, ToolCancelled, Tools, Ended
<1>14. ASSUME NEW c \in Calls, Push(c) \/ Wake(c) \/ SkipDelivery(c) PROVE TypeOK'
  BY <1>14 DEF Push, Wake, SkipDelivery, Delivers
<1>15. ASSUME NEW c \in Calls, DeliveryRaises(c) PROVE TypeOK'
  BY <1>15, CountFault DEF DeliveryRaises, Delivers
<1>16. ASSUME NEW c \in Calls, OnDone(c) \/ Unregister(c) PROVE TypeOK'
  BY <1>16 DEF OnDone, Unregister
<1>17. ASSUME NEW c \in Calls, UnregisterRaises(c) PROVE TypeOK'
  BY <1>17, CountFault DEF UnregisterRaises
<1>18. ASSUME NEW p \in Procs, NEW c \in Calls, CancelTask(p, c) PROVE TypeOK'
  BY <1>18 DEF CancelTask
<1>19. ASSUME NEW p \in Procs, NEW s \in Sessions, CancelSession(p, s) PROVE TypeOK'
  BY <1>19, AbandonTypes DEF CancelSession
<1>20. ASSUME NEW p \in Procs, Shutdown(p) PROVE TypeOK'
  BY <1>20, CountFault, AbandonTypes DEF Shutdown
<1>21. ASSUME NEW p \in Procs, Crash(p) PROVE TypeOK'
  <2>1. tool' \in [Calls -> Tools]
    BY <1>21 DEF Crash, Tools
  <2>2. deliver' \in [Calls -> Delivers]
    BY <1>21 DEF Crash, Delivers
  <2>3. cleanup' \in [Calls -> {"none", "added", "unregister", "done", "failed"}]
    BY <1>21 DEF Crash
  <2> QED
    BY <1>21, <2>1, <2>2, <2>3, CountFault, AbandonTypes DEF Crash
<1>22. CASE UNCHANGED vars
  BY <1>22 DEF vars
<1> QED
  BY <1>1, <1>2, <1>3, <1>4, <1>5, <1>6, <1>7, <1>8, <1>9, <1>10, <1>11, <1>12,
     <1>13, <1>14, <1>15, <1>16, <1>17, <1>18, <1>19, <1>20, <1>21, <1>22
  DEF Next, CallStep, Listen

------------------------------------------------------------------------------
(* The inductive invariant *)

(* Steps that leave the state of the calls alone. *)
LEMMA QuietInv ==
    ASSUME Inv, TypeOK',
           UNCHANGED <<at, tool, deliver, cleanup>>,
           tasks \cup requested \subseteq tasks' \cup requested',
           \A c \in Calls : c \in registry \/ deletion[Session[c]] = "purged" =>
                c \in registry' \/ deletion'[Session[c]] = "purged"
    PROVE  Inv'
BY DEF Inv, DeliverSound, CleanupSound, Listed

(* Steps that only abandon replies, of processes whose tasks they cancel   *)
(* or kill.                                                                *)
LEMMA AbandonInv ==
    ASSUME Inv, TypeOK', NEW p \in Procs, NEW S \in SUBSET Sessions,
           AbandonReplies(p, S),
           \A c \in Calls : deliver'[c] # "none" => deliver[c] # "none",
           \A c \in Calls : cleanup'[c] # "none" => cleanup[c] # "none",
           \A c \in Calls : tool'[c] = "running" =>
                /\ tool[c] = "running"
                /\ cleanup'[c] = cleanup[c]
                /\ c \in tasks => c \in tasks' \cup requested'
                /\ c \in requested => c \in requested',
           UNCHANGED <<registry, deletion>>
    PROVE  Inv'
<1>1. \A c \in Calls :
        at'[c] # at[c] => at[c] \in Acting /\ at'[c] = "cancelled"
  BY DEF AbandonReplies
<1>2. DeliverSound'
  BY <1>1 DEF Inv, DeliverSound, Acting
<1>3. CleanupSound'
  BY <1>1 DEF Inv, CleanupSound, Acting
<1>4. Listed'
  BY <1>1 DEF Inv, Listed
<1> QED
  BY <1>2, <1>3, <1>4 DEF Inv

LEMMA SessionSteps ==
    ASSUME ToolAssumption, Inv, TypeOK', NEW s \in Sessions,
           \/ \E p \in Procs : BeginReply(s, p)
           \/ EndReply(s) \/ CancelRuns(s) \/ PurgeBus(s)
           \/ \E c \in Calls : StopHere(s, c) \/ StopElsewhere(s, c)
    PROVE  Inv'
<1>1. ASSUME NEW p \in Procs, BeginReply(s, p) PROVE Inv'
  BY <1>1, QuietInv DEF BeginReply, bus
<1>2. CASE EndReply(s)
  BY <1>2, QuietInv DEF EndReply, bus
<1>3. CASE CancelRuns(s)
  <2>1. \A c \in Calls : deletion[Session[c]] = "purged" =>
          deletion'[Session[c]] = "purged"
    BY <1>3 DEF CancelRuns, Inv, TypeOK, ToolAssumption
  <2> QED
    BY <1>3, <2>1, QuietInv DEF CancelRuns
<1>4. CASE PurgeBus(s)
  <2>1. \A c \in Calls : c \in registry \/ deletion[Session[c]] = "purged" =>
          c \in registry' \/ deletion'[Session[c]] = "purged"
    BY <1>4 DEF PurgeBus, Of, Inv, TypeOK, ToolAssumption
  <2> QED
    BY <1>4, <2>1, QuietInv DEF PurgeBus
<1>5. ASSUME NEW c \in Calls, StopHere(s, c) PROVE Inv'
  BY <1>5, QuietInv DEF StopHere, bus
<1>6. ASSUME NEW c \in Calls, StopElsewhere(s, c) PROVE Inv'
  BY <1>6, QuietInv DEF StopElsewhere
<1> QED
  BY <1>1, <1>2, <1>3, <1>4, <1>5, <1>6

LEMMA ActingSteps ==
    ASSUME Inv, TypeOK', NEW c \in Calls,
           \/ CallTool(c) \/ GetResult(c) \/ Deadline(c)
           \/ RegisterInBus(c) \/ Offload(c) \/ RegisterRaises(c)
    PROVE  Inv'
<1> USE DEF Inv, TypeOK, bus
<1>1. CASE CallTool(c)
  BY <1>1 DEF CallTool, DeliverSound, CleanupSound, Listed
<1>2. CASE GetResult(c)
  BY <1>2 DEF GetResult, DeliverSound, CleanupSound, Listed
<1>3. CASE Deadline(c)
  BY <1>3 DEF Deadline, DeliverSound, CleanupSound, Listed
<1>4. CASE RegisterInBus(c)
  BY <1>4 DEF RegisterInBus, DeliverSound, CleanupSound, Listed
<1>5. CASE Offload(c)
  BY <1>5 DEF Offload, DeliverSound, CleanupSound, Listed
<1>6. CASE RegisterRaises(c)
  BY <1>6 DEF RegisterRaises, DeliverSound, CleanupSound, Listed
<1> QED
  BY <1>1, <1>2, <1>3, <1>4, <1>5, <1>6

LEMMA TaskSteps ==
    ASSUME Inv, TypeOK', NEW c \in Calls,
           \/ ToolEnds(c) \/ ToolCancelled(c)
           \/ Push(c) \/ Wake(c) \/ SkipDelivery(c) \/ DeliveryRaises(c)
           \/ OnDone(c) \/ Unregister(c) \/ UnregisterRaises(c)
    PROVE  Inv'
<1> USE DEF Inv, TypeOK, bus
<1>1. CASE ToolEnds(c) \/ ToolCancelled(c)
  BY <1>1 DEF ToolEnds, ToolCancelled, DeliverSound, CleanupSound, Listed
<1>2. CASE Push(c) \/ Wake(c) \/ SkipDelivery(c)
  BY <1>2 DEF Push, Wake, SkipDelivery, DeliverSound, CleanupSound, Listed
<1>3. CASE DeliveryRaises(c)
  BY <1>3 DEF DeliveryRaises, DeliverSound, CleanupSound, Listed
<1>4. CASE OnDone(c)
  BY <1>4 DEF OnDone, Ended, DeliverSound, CleanupSound, Listed
<1>5. CASE Unregister(c)
  BY <1>5 DEF Unregister, DeliverSound, CleanupSound, Listed
<1>6. CASE UnregisterRaises(c)
  BY <1>6 DEF UnregisterRaises, DeliverSound, CleanupSound, Listed
<1> QED
  BY <1>1, <1>2, <1>3, <1>4, <1>5, <1>6

LEMMA ProcessSteps ==
    ASSUME Inv, TypeOK', NEW p \in Procs, Listen(p) \/ Shutdown(p) \/ Crash(p)
    PROVE  Inv'
<1>1. ASSUME NEW c \in Calls, CancelTask(p, c) PROVE Inv'
  BY <1>1, QuietInv DEF CancelTask
<1>2. ASSUME NEW s \in Sessions, CancelSession(p, s) PROVE Inv'
  BY <1>2, AbandonInv DEF CancelSession
<1>3. CASE Shutdown(p)
  BY <1>3, AbandonInv DEF Shutdown, bus
<1>4. CASE Crash(p)
  <2>1. \A c \in Calls :
          /\ deliver'[c] # "none" => deliver[c] # "none"
          /\ cleanup'[c] # "none" => cleanup[c] # "none"
          /\ tool'[c] = "running" =>
                tool[c] = "running" /\ cleanup'[c] = cleanup[c] /\ c \notin In(p)
    BY <1>4 DEF Crash
  <2>2. AbandonReplies(p, Sessions) /\ tasks' = tasks \ In(p)
    BY <1>4 DEF Crash
  <2>3. UNCHANGED <<registry, deletion, requested>>
    BY <1>4 DEF Crash
  <2> QED
    BY <2>1, <2>2, <2>3, AbandonInv
<1> QED
  BY <1>1, <1>2, <1>3, <1>4 DEF Listen

LEMMA NextInv ==
    ASSUME ToolAssumption, Inv, [Next]_vars PROVE Inv'
<1>1. TypeOK'
  BY NextTypes DEF Inv
<1>2. CASE UNCHANGED vars
  BY <1>1, <1>2, QuietInv DEF vars, bus
<1> QED
  BY <1>1, <1>2, SessionSteps, ActingSteps, TaskSteps, ProcessSteps
     DEF Next, CallStep

THEOREM Invariance == Spec => []Inv
<1>1. Init => Inv
  BY InitInv, ToolAssumption
<1>2. Inv /\ [Next]_vars => Inv'
  BY NextInv, ToolAssumption
<1> QED
  BY <1>1, <1>2, PTL DEF Spec

(* Every variable keeps its type, and a tool runs where a reply ran. *)
THEOREM TypeCorrect == Spec => []TypeOK
<1>1. Inv => TypeOK
  BY DEF Inv
<1> QED
  BY <1>1, Invariance, PTL

(* A running task whose placeholder was given can be found by ToolStop, in *)
(* its process and in any other one.                                       *)
THEOREM OffloadedStoppable == Spec => []Stoppable
<1>1. Inv => Stoppable
  BY DEF Inv, Listed, Stoppable
<1> QED
  BY <1>1, Invariance, PTL

------------------------------------------------------------------------------
(* The refinement *)

(* How a step may move a call and its deliverer. *)
Moves(c) ==
    /\ at'[c] # at[c] =>
          /\ at[c] \in {"none", "waiting", "registering", "registered"}
          /\ at'[c] = "answered" => at[c] = "waiting" /\ deliver'[c] = deliver[c]
    /\ deliver'[c] # deliver[c] =>
          \/ deliver[c] = "none" /\ deliver'[c] = "waiting"
          \/ deliver[c] = "waiting" /\ deliver'[c] \in {"wake", "skipped", "failed"}
          \/ deliver[c] = "wake" /\ deliver'[c] \in {"done", "failed"}

LEMMA StillMoves ==
    ASSUME NEW c \in Calls, at'[c] = at[c], deliver'[c] = deliver[c]
    PROVE  Moves(c)
BY DEF Moves

LEMMA AbandonMoves ==
    ASSUME TypeOK, NEW p, NEW S, AbandonReplies(p, S), NEW c \in Calls
    PROVE  at'[c] # at[c] =>
             at[c] \in {"waiting", "registering", "registered"} /\ at'[c] = "cancelled"
BY DEF AbandonReplies, Acting

LEMMA NextMoves ==
    ASSUME Inv, [Next]_vars, NEW c \in Calls PROVE Moves(c)
<1> USE DEF Inv, TypeOK, Moves
<1>1. ASSUME NEW s \in Sessions,
             \/ \E p \in Procs : BeginReply(s, p)
             \/ EndReply(s) \/ CancelRuns(s) \/ PurgeBus(s)
             \/ \E d \in Calls : StopHere(s, d) \/ StopElsewhere(s, d)
      PROVE  Moves(c)
  BY <1>1, StillMoves
     DEF BeginReply, EndReply, CancelRuns, PurgeBus, StopHere, StopElsewhere
<1>2. ASSUME NEW d \in Calls,
             \/ CallTool(d) \/ GetResult(d) \/ RegisterInBus(d) \/ Offload(d)
             \/ RegisterRaises(d)
      PROVE  Moves(c)
  BY <1>2 DEF CallTool, GetResult, RegisterInBus, Offload, RegisterRaises
<1>3. ASSUME NEW d \in Calls, Deadline(d) PROVE Moves(c)
  BY <1>3 DEF Deadline, DeliverSound
<1>4. ASSUME NEW d \in Calls,
             \/ ToolEnds(d) \/ ToolCancelled(d)
             \/ OnDone(d) \/ Unregister(d) \/ UnregisterRaises(d)
      PROVE  Moves(c)
  BY <1>4, StillMoves
     DEF ToolEnds, ToolCancelled, OnDone, Unregister, UnregisterRaises
<1>5. ASSUME NEW d \in Calls,
             Push(d) \/ Wake(d) \/ SkipDelivery(d) \/ DeliveryRaises(d)
      PROVE  Moves(c)
  BY <1>5 DEF Push, Wake, SkipDelivery, DeliveryRaises
<1>6. ASSUME NEW p \in Procs, NEW d \in Calls, CancelTask(p, d) PROVE Moves(c)
  BY <1>6, StillMoves DEF CancelTask
<1>7. ASSUME NEW p \in Procs, NEW s \in Sessions, CancelSession(p, s)
      PROVE  Moves(c)
  <2>1. AbandonReplies(p, {s}) /\ deliver' = deliver
    BY <1>7 DEF CancelSession
  <2> QED
    BY <2>1, AbandonMoves
<1>8. ASSUME NEW p \in Procs, Shutdown(p) PROVE Moves(c)
  <2>1. AbandonReplies(p, Sessions) /\ deliver' = deliver
    BY <1>8 DEF Shutdown
  <2> QED
    BY <2>1, AbandonMoves
<1>9. ASSUME NEW p \in Procs, Crash(p) PROVE Moves(c)
  <2>1. AbandonReplies(p, Sessions)
    BY <1>9 DEF Crash
  <2>2. deliver'[c] # deliver[c] =>
          deliver[c] \in {"waiting", "wake"} /\ deliver'[c] = "failed"
    BY <1>9 DEF Crash
  <2> QED
    BY <2>1, <2>2, AbandonMoves
<1>10. CASE UNCHANGED vars
  BY <1>10, StillMoves DEF vars
<1> QED
  BY <1>1, <1>2, <1>3, <1>4, <1>5, <1>6, <1>7, <1>8, <1>9, <1>10
  DEF Next, CallStep, Listen

(* A step that moves the calls so is a step of ToolPromise. *)
LEMMA MovesKeepPromise ==
    ASSUME Inv, Inv', \A c \in Calls : Moves(c)
    PROVE  Promise!Next
<1>1. /\ \A c \in Calls : AnswerOf(c)' \in Promise!Answers
      /\ \A c \in Calls : HintOf(c)' \in Promise!Hints
  BY DEF AnswerOf, HintOf, Promise!Answers, Promise!Hints
<1>2. ASSUME NEW c \in Calls, AnswerOf(c)' # AnswerOf(c)
      PROVE  /\ AnswerOf(c) = "none"
             /\ AnswerOf(c)' = "result" => HintOf(c) = "none" /\ HintOf(c)' = "none"
  <2>1. at'[c] # at[c]
    BY <1>2 DEF AnswerOf
  <2>2. at[c] \in {"none", "waiting", "registering", "registered"}
    BY <2>1 DEF Moves
  <2>3. AnswerOf(c) = "none"
    BY <2>2 DEF AnswerOf
  <2>4. ASSUME AnswerOf(c)' = "result" PROVE HintOf(c) = "none" /\ HintOf(c)' = "none"
    <3>1. at'[c] = "answered"
      BY <2>4 DEF AnswerOf
    <3>2. deliver[c] = "none" /\ deliver'[c] = "none"
      BY <2>1, <3>1 DEF Moves, Inv, DeliverSound
    <3> QED
      BY <3>2 DEF HintOf
  <2> QED
    BY <2>3, <2>4
<1>3. ASSUME NEW c \in Calls, HintOf(c)' # HintOf(c)
      PROVE  /\ AnswerOf(c)' # "result"
             /\ \/ HintOf(c) = "none" /\ HintOf(c)' \in {"pushed", "broken"}
                \/ HintOf(c) = "pushed" /\ HintOf(c)' \in {"woken", "broken"}
  <2>1. deliver'[c] # deliver[c]
    BY <1>3 DEF HintOf
  <2>2. \/ deliver[c] = "none" /\ deliver'[c] = "waiting"
        \/ deliver[c] = "waiting" /\ deliver'[c] \in {"wake", "skipped", "failed"}
        \/ deliver[c] = "wake" /\ deliver'[c] \in {"done", "failed"}
    BY <2>1 DEF Moves
  <2>3. at'[c] # "answered"
    BY <2>2 DEF Inv, DeliverSound
  <2> QED
    BY <1>3, <2>2, <2>3 DEF AnswerOf, HintOf
<1> QED
  BY <1>1, <1>2, <1>3 DEF Promise!Next, Promise!Answer, Promise!Notify

(* The result of a tool is the answer of its call, or one hint that the    *)
(* session is woken for, and never both.                                   *)
THEOREM Refinement == Spec => KeepsPromise
<1>1. Init => Promise!Init
  BY DEF Init, Promise!Init, AnswerOf, HintOf
<1>2. Inv /\ Inv' /\ [Next]_vars => [Promise!Next]_Promise!vars
  BY NextMoves, MovesKeepPromise
<1> QED
  BY <1>1, <1>2, Invariance, PTL DEF Spec, KeepsPromise, Promise!Spec

------------------------------------------------------------------------------
(* What becomes of a stop, of a result and of an entry: the parts of       *)
(* StopTakesEffect, ResultArrives and RegistryForgets that need no fairness *)

(* Broadcasts and cancellations have a cause.                               *)
Caused ==
    /\ \A p \in Procs, c \in Calls : <<p, StopTask(c)>> \in signals => c \in stopped
    /\ \A p \in Procs, s \in Sessions :
          <<p, StopSession(s)>> \in signals => deletion[s] # "none"
    /\ \A c \in requested : c \in stopped \/ deletion[Session[c]] # "none"

(* A call that was to be stopped has its cancellation coming, or is in the *)
(* table that its process will look it up in when the broadcast arrives.   *)
StopUnderway ==
    \A c \in stopped : tool[c] = "running" =>
        \/ c \in requested
        \/ /\ c \in tasks
           /\ \/ <<home[c], StopTask(c)>> \in signals
              \/ <<home[c], StopSession(Session[c])>> \in signals

(* Whose tool was cancelled, and what the deliverer made of it.            *)
EndExplained ==
    \A c \in Calls :
        /\ tool[c] \in {"interrupted", "cancelled"} => c \in requested
        /\ deliver[c] \in {"wake", "done"} =>
              tool[c] \in {"output", "error", "interrupted"}
        /\ deliver[c] = "skipped" => tool[c] = "cancelled"
        /\ deliver[c] = "failed" \/ cleanup[c] = "failed" => faults > 0

(* An offloaded call has its deliverer, and its entries have a callback.   *)
Followed ==
    \A c \in Calls :
        /\ at[c] \in {"registering", "registered", "offloaded"} =>
              deliver[c] # "none"
        /\ at[c] = "offloaded" => cleanup[c] # "none"
        /\ at[c] = "offloaded" /\ c \in tasks => cleanup[c] = "added"
        /\ c \in registry => cleanup[c] # "done"
        /\ c \in tasks \cup registry => at[c] \notin {"none", "waiting", "answered"}
        /\ c \in stopped \/ tool[c] # "none" => at[c] # "none"

StopInv == Caused /\ StopUnderway /\ EndExplained /\ Followed

LEMMA InitStops ==
    ASSUME Init PROVE StopInv
BY DEF Init, StopInv, Caused, StopUnderway, EndExplained, Followed

(* The broadcasts of two tasks, of two sessions, or of a task and of a     *)
(* session are different messages.                                         *)
LEMMA SignalsDiffer ==
    ASSUME NEW p, NEW q, NEW a, NEW b
    PROVE  /\ <<p, StopTask(a)>> = <<q, StopTask(b)>> => p = q /\ a = b
           /\ <<p, StopSession(a)>> = <<q, StopSession(b)>> => p = q /\ a = b
           /\ <<p, StopTask(a)>> # <<q, StopSession(b)>>
BY DEF StopTask, StopSession

(* Replies begin and end, and the record is purged: the tools go on.       *)
LEMMA QuietStops ==
    ASSUME Inv, StopInv,
           UNCHANGED <<home, at, tool, requested, deliver, tasks, cleanup,
                       signals, stopped, faults>>,
           registry' \subseteq registry,
           \A s \in Sessions : deletion[s] # "none" => deletion'[s] # "none",
           ToolAssumption
    PROVE  StopInv'
BY DEF Inv, TypeOK, StopInv, Caused, StopUnderway, EndExplained, Followed,
       ToolAssumption

LEMMA SessionStops ==
    ASSUME ToolAssumption, Inv, StopInv, NEW s \in Sessions,
           \/ \E p \in Procs : BeginReply(s, p)
           \/ EndReply(s) \/ CancelRuns(s) \/ PurgeBus(s)
           \/ \E c \in Calls : StopHere(s, c) \/ StopElsewhere(s, c)
    PROVE  StopInv'
<1>1. ASSUME NEW p \in Procs, BeginReply(s, p) PROVE StopInv'
  BY <1>1, QuietStops DEF BeginReply, bus
<1>2. CASE EndReply(s)
  BY <1>2, QuietStops DEF EndReply, bus
<1>3. CASE CancelRuns(s)
  <2>1. /\ deletion' = [deletion EXCEPT ![s] = "cancelling"]
        /\ signals' = signals \cup Broadcast(StopSession(s))
        /\ stopped' = stopped \cup (tasks \cap Of(s))
        /\ UNCHANGED <<home, at, tool, requested, deliver, tasks, cleanup,
                       registry, faults>>
    BY <1>3 DEF CancelRuns
  <2>2. \A p \in Procs : <<p, StopSession(s)>> \in signals'
    BY <2>1 DEF Broadcast
  <2>3. Caused'
    BY <2>1, SignalsDiffer
       DEF StopInv, Caused, Broadcast, Inv, TypeOK, ToolAssumption
  <2>4. StopUnderway'
    <3>1. ASSUME NEW c \in stopped', tool'[c] = "running"
          PROVE  \/ c \in requested'
                 \/ /\ c \in tasks'
                    /\ \/ <<home'[c], StopTask(c)>> \in signals'
                       \/ <<home'[c], StopSession(Session[c])>> \in signals'
      <4>1. CASE c \in stopped
        BY <2>1, <3>1, <4>1 DEF StopInv, StopUnderway
      <4>2. CASE c \in tasks \cap Of(s)
        <5>1. c \in Calls /\ Session[c] = s /\ tool[c] = "running"
          BY <2>1, <3>1, <4>2 DEF Of, Inv, TypeOK
        <5>2. home[c] \in Procs
          BY <4>2, <5>1 DEF StopInv, Followed, Inv, TypeOK
        <5> QED
          BY <2>1, <2>2, <4>2, <5>1, <5>2
      <4> QED
        BY <2>1, <3>1, <4>1, <4>2
    <3> QED
      BY <3>1 DEF StopUnderway
  <2> QED
    BY <2>1, <2>3, <2>4 DEF StopInv, EndExplained, Followed
<1>4. CASE PurgeBus(s)
  BY <1>4, QuietStops DEF PurgeBus, Inv, TypeOK
<1>5. ASSUME NEW c \in Calls, StopHere(s, c) PROVE StopInv'
  <2>1. Caused'
    BY <1>5 DEF StopHere, bus, StopInv, Caused
  <2>2. StopUnderway'
    BY <1>5 DEF StopHere, bus, StopInv, StopUnderway
  <2>3. EndExplained' /\ Followed'
    BY <1>5 DEF StopHere, bus, StopInv, EndExplained, Followed
  <2> QED
    BY <2>1, <2>2, <2>3 DEF StopInv
<1>6. ASSUME NEW c \in Calls, StopElsewhere(s, c) PROVE StopInv'
  <2>1. /\ signals' = signals \cup Broadcast(StopTask(c))
        /\ stopped' = stopped \cup {c}
        /\ at[c] = "offloaded"
        /\ UNCHANGED <<home, at, tool, requested, deliver, tasks, cleanup,
                       registry, deletion, faults>>
    BY <1>6 DEF StopElsewhere
  <2>2. Caused'
    BY <2>1, SignalsDiffer DEF StopInv, Caused, Broadcast
  <2>3. StopUnderway'
    <3>1. home[c] \in Procs
      BY <2>1 DEF Inv, TypeOK
    <3>2. <<home[c], StopTask(c)>> \in signals'
      BY <2>1, <3>1 DEF Broadcast
    <3>3. tool[c] = "running" => c \in tasks \cup requested
      BY <2>1 DEF Inv, Listed
    <3> QED
      BY <2>1, <3>2, <3>3 DEF StopInv, StopUnderway
  <2> QED
    BY <2>1, <2>2, <2>3 DEF StopInv, EndExplained, Followed
<1> QED
  BY <1>1, <1>2, <1>3, <1>4, <1>5, <1>6

(* What on_acting does concerns no stop.                                    *)
LEMMA ActingStops ==
    ASSUME ToolAssumption, Inv, StopInv, NEW c \in Calls,
           \/ CallTool(c) \/ GetResult(c) \/ Deadline(c)
           \/ RegisterInBus(c) \/ Offload(c) \/ RegisterRaises(c)
    PROVE  StopInv'
<1> USE DEF bus
<1>1. CASE CallTool(c)
  <2>1. c \notin tasks /\ c \notin registry /\ deliver[c] = "none"
    BY <1>1 DEF CallTool, StopInv, Followed, Inv, DeliverSound
  <2>2. Caused'
    BY <1>1 DEF CallTool, StopInv, Caused
  <2>3. c \notin stopped
    BY <1>1 DEF CallTool, StopInv, Followed
  <2> QED
    BY <1>1, <2>1, <2>2, <2>3
       DEF CallTool, StopInv, StopUnderway, EndExplained, Followed, Inv, TypeOK
<1>2. CASE GetResult(c)
  BY <1>2 DEF GetResult, StopInv, Caused, StopUnderway, EndExplained, Followed,
              Inv, TypeOK
<1>3. CASE Deadline(c)
  BY <1>3 DEF Deadline, StopInv, Caused, StopUnderway, EndExplained, Followed,
              Inv, TypeOK, DeliverSound
<1>4. CASE RegisterInBus(c)
  BY <1>4 DEF RegisterInBus, StopInv, Caused, StopUnderway, EndExplained,
              Followed, Inv, TypeOK, CleanupSound
<1>5. CASE Offload(c)
  BY <1>5 DEF Offload, StopInv, Caused, StopUnderway, EndExplained, Followed,
              Inv, TypeOK
<1>6. CASE RegisterRaises(c)
  BY <1>6 DEF RegisterRaises, StopInv, Caused, StopUnderway, EndExplained,
              Followed, Inv, TypeOK
<1> QED
  BY <1>1, <1>2, <1>3, <1>4, <1>5, <1>6

(* The tool, the deliverer and the callback: an entry leaves the table only *)
(* when its task is over.                                                   *)
LEMMA TaskStops ==
    ASSUME ToolAssumption, Inv, StopInv, NEW c \in Calls,
           \/ ToolEnds(c) \/ ToolCancelled(c)
           \/ Push(c) \/ Wake(c) \/ SkipDelivery(c) \/ DeliveryRaises(c)
           \/ OnDone(c) \/ Unregister(c) \/ UnregisterRaises(c)
    PROVE  StopInv'
<1> USE DEF bus
<1>1. CASE ToolEnds(c)
  BY <1>1 DEF ToolEnds, StopInv, Caused, StopUnderway, EndExplained, Followed,
              Inv, TypeOK
<1>2. CASE ToolCancelled(c)
  BY <1>2 DEF ToolCancelled, StopInv, Caused, StopUnderway, EndExplained,
              Followed, Inv, TypeOK
<1>3. CASE Push(c) \/ Wake(c) \/ SkipDelivery(c)
  BY <1>3 DEF Push, Wake, SkipDelivery, StopInv, Caused, StopUnderway,
              EndExplained, Followed, Inv, TypeOK
<1>4. CASE DeliveryRaises(c)
  BY <1>4 DEF DeliveryRaises, StopInv, Caused, StopUnderway, EndExplained,
              Followed, Inv, TypeOK, ToolAssumption
<1>5. CASE OnDone(c)
  BY <1>5 DEF OnDone, Ended, StopInv, Caused, StopUnderway, EndExplained,
              Followed, Inv, TypeOK
<1>6. CASE Unregister(c)
  BY <1>6 DEF Unregister, StopInv, Caused, StopUnderway, EndExplained,
              Followed, Inv, TypeOK
<1>7. CASE UnregisterRaises(c)
  BY <1>7 DEF UnregisterRaises, StopInv, Caused, StopUnderway, EndExplained,
              Followed, Inv, TypeOK, ToolAssumption
<1> QED
  BY <1>1, <1>2, <1>3, <1>4, <1>5, <1>6, <1>7

(* A dispatcher that hears a broadcast finds the task it is about in its   *)
(* table; a shutdown cancels the tasks it forgets; a crash ends them.       *)
LEMMA ProcessStops ==
    ASSUME ToolAssumption, Inv, StopInv, NEW p \in Procs,
           Listen(p) \/ Shutdown(p) \/ Crash(p)
    PROVE  StopInv'
<1>1. ASSUME NEW d \in Calls, CancelTask(p, d) PROVE StopInv'
  <2>1. /\ <<p, StopTask(d)>> \in signals
        /\ signals' = signals \ {<<p, StopTask(d)>>}
        /\ requested' = requested \cup ({d} \cap tasks \cap In(p))
        /\ UNCHANGED <<home, at, tool, deliver, tasks, cleanup, registry,
                       deletion, stopped, faults>>
    BY <1>1 DEF CancelTask
  <2>2. Caused'
    BY <2>1 DEF StopInv, Caused
  <2>3. StopUnderway'
    <3>1. ASSUME NEW c \in stopped, tool[c] = "running", c \notin requested'
          PROVE  /\ c \in tasks
                 /\ \/ <<home[c], StopTask(c)>> \in signals'
                    \/ <<home[c], StopSession(Session[c])>> \in signals'
      <4>1. /\ c \in tasks /\ c \notin requested /\ c \in Calls
            /\ \/ <<home[c], StopTask(c)>> \in signals
               \/ <<home[c], StopSession(Session[c])>> \in signals
        BY <2>1, <3>1 DEF StopInv, StopUnderway, Inv, TypeOK
      <4>2. ~(c = d /\ home[c] = p)
        BY <2>1, <3>1, <4>1 DEF In
      <4>3. <<home[c], StopSession(Session[c])>> # <<p, StopTask(d)>>
        BY SignalsDiffer
      <4>4. <<home[c], StopTask(c)>> # <<p, StopTask(d)>>
        BY <4>2, SignalsDiffer
      <4> QED
        BY <2>1, <4>1, <4>3, <4>4
    <3> QED
      BY <2>1, <3>1 DEF StopUnderway
  <2> QED
    BY <2>1, <2>2, <2>3 DEF StopInv, EndExplained, Followed
<1>2. ASSUME NEW s \in Sessions, CancelSession(p, s) PROVE StopInv'
  <2>1. /\ <<p, StopSession(s)>> \in signals
        /\ signals' = signals \ {<<p, StopSession(s)>>}
        /\ requested' = requested \cup (tasks \cap In(p) \cap Of(s))
        /\ UNCHANGED <<home, tool, deliver, tasks, cleanup, registry,
                       deletion, stopped, faults>>
        /\ AbandonReplies(p, {s})
    BY <1>2 DEF CancelSession
  <2>2. \A c \in Calls :
          at'[c] # at[c] => at[c] \in Acting /\ at'[c] = "cancelled"
    BY <2>1, AbandonMoves DEF Inv, Acting
  <2>3. Caused'
    <3>1. \A c \in tasks \cap In(p) \cap Of(s) : deletion[Session[c]] # "none"
      BY <2>1 DEF Of, StopInv, Caused
    <3> QED
      BY <2>1, <3>1 DEF StopInv, Caused
  <2>4. StopUnderway'
    <3>1. ASSUME NEW c \in stopped, tool[c] = "running", c \notin requested'
          PROVE  /\ c \in tasks
                 /\ \/ <<home[c], StopTask(c)>> \in signals'
                    \/ <<home[c], StopSession(Session[c])>> \in signals'
      <4>1. /\ c \in tasks /\ c \notin requested /\ c \in Calls
            /\ \/ <<home[c], StopTask(c)>> \in signals
               \/ <<home[c], StopSession(Session[c])>> \in signals
        BY <2>1, <3>1 DEF StopInv, StopUnderway, Inv, TypeOK
      <4>2. ~(home[c] = p /\ Session[c] = s)
        BY <2>1, <3>1, <4>1 DEF In, Of
      <4>3. <<home[c], StopSession(Session[c])>> # <<p, StopSession(s)>>
        BY <4>2, SignalsDiffer
      <4>4. <<home[c], StopTask(c)>> # <<p, StopSession(s)>>
        BY SignalsDiffer
      <4> QED
        BY <2>1, <4>1, <4>3, <4>4
    <3> QED
      BY <2>1, <3>1 DEF StopUnderway
  <2>5. EndExplained' /\ Followed'
    BY <2>1, <2>2 DEF StopInv, EndExplained, Followed, Acting
  <2> QED
    BY <2>3, <2>4, <2>5 DEF StopInv
<1>3. CASE Shutdown(p)
  <2>1. /\ requested' = requested \cup (tasks \cap In(p))
        /\ stopped' = stopped \cup (tasks \cap In(p))
        /\ tasks' = tasks \ In(p)
        /\ faults' = faults + 1
        /\ UNCHANGED <<home, tool, deliver, cleanup, registry, signals, deletion>>
        /\ AbandonReplies(p, Sessions)
    BY <1>3 DEF Shutdown, bus
  <2>2. \A c \in Calls :
          at'[c] # at[c] => at[c] \in Acting /\ at'[c] = "cancelled"
    BY <2>1, AbandonMoves DEF Inv, Acting
  <2>3. Caused' /\ StopUnderway'
    BY <2>1 DEF StopInv, Caused, StopUnderway
  <2>4. faults' > 0
    BY <2>1 DEF Inv, TypeOK, ToolAssumption
  <2>5. EndExplained' /\ Followed'
    BY <2>1, <2>2, <2>4 DEF StopInv, EndExplained, Followed, Acting
  <2> QED
    BY <2>3, <2>5 DEF StopInv
<1>4. CASE Crash(p)
  <2>1. /\ tasks' = tasks \ In(p)
        /\ signals' = {x \in signals : x[1] # p}
        /\ faults' = faults + 1
        /\ UNCHANGED <<home, requested, registry, deletion, stopped>>
        /\ AbandonReplies(p, Sessions)
    BY <1>4 DEF Crash
  <2>2. \A c \in Calls :
          at'[c] # at[c] => at[c] \in Acting /\ at'[c] = "cancelled"
    BY <2>1, AbandonMoves DEF Inv, Acting
  <2>3. \A c \in Calls :
          /\ tool'[c] = "running" => tool[c] = "running" /\ c \notin In(p)
          /\ tool'[c] # "killed" => tool'[c] = tool[c]
          /\ tool'[c] = "killed" => tool[c] \in {"running", "killed"}
          /\ deliver'[c] = deliver[c]
                \/ (c \in In(p) /\ deliver[c] # "none" /\ deliver'[c] = "failed")
          /\ cleanup'[c] = cleanup[c]
                \/ (c \in In(p) /\ cleanup[c] # "none" /\ cleanup'[c] = "failed")
    BY <1>4 DEF Crash, Inv, TypeOK
  <2>4. faults' > 0
    BY <2>1 DEF Inv, TypeOK, ToolAssumption
  <2>5. Caused'
    BY <2>1 DEF StopInv, Caused
  <2>6. StopUnderway'
    BY <2>1, <2>3 DEF StopInv, StopUnderway, In, Inv, TypeOK
  <2>7. EndExplained'
    BY <2>1, <2>3, <2>4 DEF StopInv, EndExplained
  <2>8. Followed'
    BY <2>1, <2>2, <2>3 DEF StopInv, Followed, Acting
  <2> QED
    BY <2>5, <2>6, <2>7, <2>8 DEF StopInv
<1> QED
  BY <1>1, <1>2, <1>3, <1>4 DEF Listen

LEMMA NextStops ==
    ASSUME ToolAssumption, Inv, StopInv, [Next]_vars PROVE StopInv'
<1>1. CASE UNCHANGED vars
  BY <1>1, QuietStops DEF vars, bus
<1> QED
  BY <1>1, SessionStops, ActingStops, TaskStops, ProcessStops
     DEF Next, CallStep

LEMMA StopInvariance == Spec => []StopInv
<1>1. Init => StopInv
  BY InitStops
<1>2. Inv /\ StopInv /\ [Next]_vars => StopInv'
  BY NextStops, ToolAssumption
<1> QED
  BY <1>1, <1>2, Invariance, PTL DEF Spec

(* No stop is lost: once ToolStop, a deletion or a shutdown has asked for  *)
(* it, a task that still runs has its CancelledError coming or waits for a *)
(* broadcast that its process has not heard yet, and will be found by it,  *)
(* whatever else forgets tasks, removes entries or crashes meanwhile.      *)
THEOREM NoStopLost == Spec => []StopUnderway
<1>1. StopInv => StopUnderway
  BY DEF StopInv
<1> QED
  BY <1>1, StopInvariance, PTL

(* A tool that was cut short, and a result that the deliverer kept to      *)
(* itself, belong to a call that was to be stopped or to a session that    *)
(* is being deleted.                                                       *)
CutOnPurpose ==
    \A c \in Calls :
        tool[c] \in {"interrupted", "cancelled"} \/ deliver[c] = "skipped" =>
            c \in stopped \/ deletion[Session[c]] # "none"

(* Nobody's task is cancelled by the ToolStop or the deletion of another   *)
(* session, although every process hears every broadcast and keeps the     *)
(* tasks of all sessions in one table.                                     *)
THEOREM OnlyTheStoppedAreCut == Spec => []CutOnPurpose
<1>1. Inv /\ StopInv => CutOnPurpose
  BY DEF StopInv, Caused, EndExplained, CutOnPurpose
<1> QED
  BY <1>1, Invariance, StopInvariance, PTL

(* The result of an offloaded call is with its deliverer ("waiting": one   *)
(* of Push and SkipDelivery can happen; "wake": Wake can), has arrived, or *)
(* is withheld for a reason: its task was cancelled or something failed.   *)
ResultInHand ==
    \A c \in Calls : at[c] = "offloaded" /\ tool[c] \in Ended =>
        \/ deliver[c] = "waiting"
        \/ deliver[c] \in {"wake", "done"} /\ tool[c] # "cancelled"
        \/ deliver[c] = "skipped" /\ tool[c] = "cancelled" /\ c \in requested
        \/ deliver[c] = "failed" /\ faults > 0

(* The part of ResultArrives that needs no fairness: with no failing bus,  *)
(* shutdown or crash every result is delivered or was unwanted.            *)
THEOREM NoResultMislaid == Spec => []ResultInHand
<1>1. Inv /\ StopInv => ResultInHand
  BY DEF Inv, TypeOK, Delivers, Ended, StopInv, EndExplained, Followed,
         ResultInHand
<1> QED
  BY <1>1, Invariance, StopInvariance, PTL

(* What the table and the registry still have of a task that is over, its  *)
(* callback is about to remove (OnDone, Unregister), unless something      *)
(* failed.                                                                 *)
EntriesInHand ==
    \A c \in Calls : at[c] = "offloaded" /\ tool[c] \in Ended =>
        /\ c \in tasks => cleanup[c] = "added"
        /\ c \in registry =>
              \/ cleanup[c] \in {"added", "unregister"}
              \/ cleanup[c] = "failed" /\ faults > 0

(* The part of RegistryForgets that needs no fairness; it covers the task  *)
(* that ends while it is being registered.                                 *)
THEOREM NoEntryMislaid == Spec => []EntriesInHand
<1>1. Inv /\ StopInv => EntriesInHand
  BY DEF Inv, TypeOK, StopInv, EndExplained, Followed, EntriesInHand
<1> QED
  BY <1>1, Invariance, StopInvariance, PTL

------------------------------------------------------------------------------
(* Every call comes to its end *)

(* What is left to do: for on_acting, drain_task, deliverer and callback.  *)
AtLeft(c) ==
    CASE at[c] = "none" -> 4
      [] at[c] = "waiting" -> 3
      [] at[c] = "registering" -> 2
      [] at[c] = "registered" -> 1
      [] OTHER -> 0

ToolLeft(c) ==
    CASE tool[c] = "none" -> 2
      [] tool[c] = "running" -> 1
      [] OTHER -> 0

DeliverLeft(c) ==
    CASE deliver[c] = "none" -> 3
      [] deliver[c] = "waiting" -> 2
      [] deliver[c] = "wake" -> 1
      [] OTHER -> 0

CleanupLeft(c) ==
    CASE cleanup[c] = "none" -> 3
      [] cleanup[c] = "added" -> 2
      [] cleanup[c] = "unregister" -> 1
      [] OTHER -> 0

Left(c) == AtLeft(c) + ToolLeft(c) + DeliverLeft(c) + CleanupLeft(c)

(* Every step that changes one of the four brings the call nearer to its   *)
(* end; Left is at most 12, so a call makes at most twelve of them.        *)
CallsAdvance ==
    [][\A c \in Calls :
         \/ Left(c)' < Left(c)
         \/ UNCHANGED <<at[c], tool[c], deliver[c], cleanup[c]>>]_vars

LEMMA LeftBounded ==
    ASSUME NEW c \in Calls PROVE Left(c) \in 0..12
<1>1. AtLeft(c) \in 0..4
  BY DEF AtLeft
<1>2. ToolLeft(c) \in 0..2
  BY DEF ToolLeft
<1>3. DeliverLeft(c) \in 0..3
  BY DEF DeliverLeft
<1>4. CleanupLeft(c) \in 0..3
  BY DEF CleanupLeft
<1> QED
  BY <1>1, <1>2, <1>3, <1>4 DEF Left

(* The ways of a call, step by step.                                       *)
Goes(c) ==
    /\ \/ at'[c] = at[c]
       \/ at[c] = "none" /\ at'[c] = "waiting"
       \/ at[c] = "waiting" /\ at'[c] \in {"answered", "raised", "registering"}
       \/ at[c] = "registering" /\ at'[c] \in {"registered", "raised"}
       \/ at[c] = "registered" /\ at'[c] \in {"offloaded", "raised"}
       \/ at[c] \in Acting /\ at'[c] = "cancelled"
    /\ \/ tool'[c] = tool[c]
       \/ tool[c] = "none" /\ tool'[c] = "running"
       \/ tool[c] = "running" /\ tool'[c] \in Ended \cup {"killed"}
    /\ \/ deliver'[c] = deliver[c]
       \/ deliver[c] = "none" /\ deliver'[c] = "waiting"
       \/ deliver[c] = "waiting" /\ deliver'[c] \in {"wake", "skipped", "failed"}
       \/ deliver[c] = "wake" /\ deliver'[c] \in {"done", "failed"}
    /\ \/ cleanup'[c] = cleanup[c]
       \/ cleanup[c] = "none" /\ cleanup'[c] = "added"
       \/ cleanup[c] = "added" /\ cleanup'[c] \in {"unregister", "failed"}
       \/ cleanup[c] = "unregister" /\ cleanup'[c] \in {"done", "failed"}

LEMMA NextGoes ==
    ASSUME Inv, StopInv, [Next]_vars, NEW c \in Calls PROVE Goes(c)
<1>1. ASSUME NEW s \in Sessions,
             \/ \E p \in Procs : BeginReply(s, p)
             \/ EndReply(s) \/ CancelRuns(s) \/ PurgeBus(s)
             \/ \E d \in Calls : StopHere(s, d) \/ StopElsewhere(s, d)
      PROVE  Goes(c)
  BY <1>1 DEF BeginReply, EndReply, CancelRuns, PurgeBus, StopHere,
              StopElsewhere, Goes
<1>2. ASSUME NEW d \in Calls, CallTool(d) PROVE Goes(c)
  BY <1>2 DEF CallTool, Goes, Inv, TypeOK, StopInv, Followed
<1>3. ASSUME NEW d \in Calls, GetResult(d) \/ RegisterInBus(d) \/ RegisterRaises(d)
      PROVE  Goes(c)
  BY <1>3 DEF GetResult, RegisterInBus, RegisterRaises, Goes, Inv, TypeOK
<1>4. ASSUME NEW d \in Calls, Deadline(d) PROVE Goes(c)
  BY <1>4 DEF Deadline, Goes, Inv, TypeOK, DeliverSound
<1>5. ASSUME NEW d \in Calls, Offload(d) PROVE Goes(c)
  BY <1>5 DEF Offload, Goes, Inv, TypeOK, CleanupSound
<1>6. ASSUME NEW d \in Calls, ToolEnds(d) \/ ToolCancelled(d) PROVE Goes(c)
  BY <1>6 DEF ToolEnds, ToolCancelled, Ended, Goes, Inv, TypeOK
<1>7. ASSUME NEW d \in Calls,
             Push(d) \/ Wake(d) \/ SkipDelivery(d) \/ DeliveryRaises(d)
      PROVE  Goes(c)
  BY <1>7 DEF Push, Wake, SkipDelivery, DeliveryRaises, Goes, Inv, TypeOK
<1>8. ASSUME NEW d \in Calls, OnDone(d) \/ Unregister(d) \/ UnregisterRaises(d)
      PROVE  Goes(c)
  BY <1>8 DEF OnDone, Unregister, UnregisterRaises, Goes, Inv, TypeOK
<1>9. ASSUME NEW p \in Procs, NEW d \in Calls, CancelTask(p, d) PROVE Goes(c)
  BY <1>9 DEF CancelTask, Goes
<1>10. ASSUME NEW p \in Procs, NEW s \in Sessions, CancelSession(p, s)
       PROVE  Goes(c)
  BY <1>10, AbandonMoves DEF CancelSession, Goes, Acting, Inv
<1>11. ASSUME NEW p \in Procs, Shutdown(p) PROVE Goes(c)
  BY <1>11, AbandonMoves DEF Shutdown, Goes, Acting, Inv
<1>12. ASSUME NEW p \in Procs, Crash(p) PROVE Goes(c)
  <2>1. at'[c] = at[c] \/ (at[c] \in Acting /\ at'[c] = "cancelled")
    BY <1>12, AbandonMoves DEF Crash, Acting, Inv
  <2>2. tool'[c] = tool[c] \/ (tool[c] = "running" /\ tool'[c] = "killed")
    BY <1>12 DEF Crash
  <2>3. deliver'[c] = deliver[c]
          \/ (deliver[c] \in {"waiting", "wake"} /\ deliver'[c] = "failed")
    BY <1>12 DEF Crash
  <2>4. cleanup'[c] = cleanup[c]
          \/ (cleanup[c] \in {"added", "unregister"} /\ cleanup'[c] = "failed")
    BY <1>12 DEF Crash
  <2> QED
    BY <2>1, <2>2, <2>3, <2>4 DEF Goes
<1>13. CASE UNCHANGED vars
  BY <1>13 DEF vars, Goes
<1> QED
  BY <1>1, <1>2, <1>3, <1>4, <1>5, <1>6, <1>7, <1>8, <1>9, <1>10, <1>11, <1>12,
     <1>13
  DEF Next, CallStep, Listen

LEMMA GoesForward ==
    ASSUME NEW c \in Calls, Goes(c)
    PROVE  \/ Left(c)' < Left(c)
           \/ UNCHANGED <<at[c], tool[c], deliver[c], cleanup[c]>>
<1>1. /\ AtLeft(c) \in 0..4 /\ AtLeft(c)' \in 0..4
      /\ at'[c] = at[c] => AtLeft(c)' = AtLeft(c)
      /\ at'[c] # at[c] => AtLeft(c)' < AtLeft(c)
  BY DEF Goes, AtLeft, Acting
<1>2. /\ ToolLeft(c) \in 0..2 /\ ToolLeft(c)' \in 0..2
      /\ tool'[c] = tool[c] => ToolLeft(c)' = ToolLeft(c)
      /\ tool'[c] # tool[c] => ToolLeft(c)' < ToolLeft(c)
  BY DEF Goes, ToolLeft, Ended
<1>3. /\ DeliverLeft(c) \in 0..3 /\ DeliverLeft(c)' \in 0..3
      /\ deliver'[c] = deliver[c] => DeliverLeft(c)' = DeliverLeft(c)
      /\ deliver'[c] # deliver[c] => DeliverLeft(c)' < DeliverLeft(c)
  BY DEF Goes, DeliverLeft
<1>4. /\ CleanupLeft(c) \in 0..3 /\ CleanupLeft(c)' \in 0..3
      /\ cleanup'[c] = cleanup[c] => CleanupLeft(c)' = CleanupLeft(c)
      /\ cleanup'[c] # cleanup[c] => CleanupLeft(c)' < CleanupLeft(c)
  BY DEF Goes, CleanupLeft
<1> QED
  BY <1>1, <1>2, <1>3, <1>4 DEF Left

(* However deadline, tool, deliverer, callback, cancellation and crash     *)
(* interleave, a call never goes back: none is answered, delivered or      *)
(* cleaned up over and over.                                               *)
THEOREM CallsFinish == Spec => CallsAdvance
<1>1. Inv /\ StopInv /\ [Next]_vars =>
        [\A c \in Calls :
           \/ Left(c)' < Left(c)
           \/ UNCHANGED <<at[c], tool[c], deliver[c], cleanup[c]>>]_vars
  BY NextGoes, GoesForward
<1> QED
  BY <1>1, Invariance, StopInvariance, PTL DEF Spec, CallsAdvance

==============================================================================

----------------------------- MODULE InputPort ------------------------------
(***************************************************************************)
(* What the gatekeeper may rely on when it has an action carried out, with *)
(* no sockets, clocks or services in it.                                   *)
(*                                                                         *)
(* Actions are asked for one after the other.  Each is begun at most once, *)
(* never before one that was asked for earlier and is begun as well, and   *)
(* never while another is under way.  An action reported as carried out    *)
(* was carried out, in full.  Nothing is promised of one reported as       *)
(* failed: it may even be begun after the report.  ExecutorHop implements  *)
(* this module.                                                            *)
(***************************************************************************)
EXTENDS Naturals

CONSTANT MaxRequests   \* bound: actions asked for

VARIABLES asked,    \* how many actions have been asked for
          input,    \* what has become of each at the keyboard
          result    \* what was reported of each

portVars == <<asked, input, result>>

Requests == 1..MaxRequests

Init ==
  /\ asked = 0
  /\ input = [i \in Requests |-> "no"]
  /\ result = [i \in Requests |-> "none"]

Ask == asked < MaxRequests /\ asked' = asked + 1 /\ UNCHANGED <<input, result>>

Begin(i) ==
  /\ i <= asked /\ result[i] # "ok"
  /\ \A j \in Requests : input[j] # "begun" /\ (j >= i => input[j] = "no")
  /\ input' = [input EXCEPT ![i] = "begun"]
  /\ UNCHANGED <<asked, result>>

End(i) ==
  /\ input[i] = "begun"
  /\ \E how \in {"done", "broken"} : input' = [input EXCEPT ![i] = how]
  /\ UNCHANGED <<asked, result>>

Report(i) ==
  /\ i <= asked /\ result[i] = "none"
  /\ \/ input[i] = "done" /\ result' = [result EXCEPT ![i] = "ok"]
     \/ result' = [result EXCEPT ![i] = "failed"]
  /\ UNCHANGED <<asked, input>>

Next == Ask \/ \E i \in Requests : Begin(i) \/ End(i) \/ Report(i)

Spec == Init /\ [][Next]_portVars
=============================================================================

----------------------------- MODULE Gatekeeper -----------------------------
(***************************************************************************)
(* One request of a planner client through services/gatekeeper.py: its     *)
(* envelope is admitted, FreshnessTracker takes the frame in, and          *)
(* Gatekeeper.request_action goes from the kill switch to the audit        *)
(* record.  The service handles one request at a time; the operator, the   *)
(* observer, the human at the prompt, the executor and the power switch    *)
(* act between its steps.                                                  *)
(*                                                                         *)
(* What stands in for other modules: reading the kill switch is one step   *)
(* (KillSwitch!StopHonoured); the gate admits envelopes in the order they  *)
(* were issued and none twice (AttestationGate!NoRollback); the executor   *)
(* performs at most once what it is asked for, be it late (InputPort);     *)
(* append puts one record at the end of the log (AuditLog).                *)
(*                                                                         *)
(* A text is what the risk patterns find in it.  Merging an element's      *)
(* label into the caller's context may break a match or make one, so the   *)
(* findings of the three readings of an action are independent.            *)
(***************************************************************************)
EXTENDS Integers, Sequences, FiniteSetsExt

CONSTANTS
  Kinds,        \* action kinds the planner asks for
  Findings,     \* sets of patterns a reading may match
  HardBlockT3, ApproveT2, ApproveT3,   \* the configuration
  AuditFails,   \* may appending to the log raise?
  MaxRequests,  \* bound: requests
  MaxFrames,    \* bound: envelopes issued
  MaxRestarts,  \* bound: restarts of the observer
  MaxCrashes,   \* bound: crashes of the gatekeeper
  MaxStops      \* bound: times the operator engages the stop

ActionKinds == {"click", "right_click", "double_click", "type", "key",
                "scroll", "drag", "wait", "done", "fail"}

ASSUME GatekeeperAssumption ==
  /\ Kinds \subseteq ActionKinds
  /\ Findings \subseteq SUBSET {"t2", "t3", "credential"}
  /\ {HardBlockT3, ApproveT2, ApproveT3, AuditFails} \subseteq BOOLEAN
  /\ {MaxRequests, MaxFrames, MaxRestarts, MaxCrashes, MaxStops} \subseteq Nat

Readings == {"merged", "attested", "caller"}

\* target: no id, one no element of the snapshot has, or the source of the
\* element that has it.  grave: a destructive chord or financial digits.
\* texts: the caller's context is made of texts, as ActionContext declares and
\* nothing enforces.
Actions == [kind : Kinds, frame_id : {-1} \union 1..MaxFrames,
            target : {"none", "ghost", "a11y", "ocr"}, inside : BOOLEAN,
            grave : BOOLEAN, texts : BOOLEAN, finds : [Readings -> Findings]]

NoAction == [kind |-> "none"]

VARIABLES
  stop, stops,             \* the kill switch, and how often it was engaged
  sequence, restarts,      \* the observer's _last_sequence and restarts
  issued,                  \* frame ids of its envelopes, in order of issue
  admittedTo,              \* the gate's watermark: how far into issued
  latest,                  \* FreshnessTracker._latest, 0 for None
  pc, crashes,             \* where request_action is
  n,                       \* number of the request
  action, frame, yes, out, \* action, frame evidence, approval and decision
  audit,                   \* decisions in the log: request and kind
  performed,               \* history: requests whose input was performed
  owed,                    \* requests the executor may perform yet
  lost,                    \* history: requests whose decision was lost
  raised,                  \* history: requests that raised before a decision
  off                      \* history: requests the stop was off during

envVars == <<stop, stops, sequence, restarts, issued>>
reqVars == <<n, action, frame>>
vars == <<envVars, admittedTo, latest, pc, crashes, reqVars, yes, out, audit,
          performed, owed, lost, raised, off>>

Init ==
  /\ stop = FALSE /\ stops = 0
  /\ sequence = 0 /\ restarts = 0 /\ issued = << >>
  /\ admittedTo = 0 /\ latest = 0
  /\ pc = "idle" /\ crashes = 0
  /\ n = 0 /\ action = NoAction /\ frame = 0 /\ yes = FALSE /\ out = "none"
  /\ audit = << >> /\ performed = {} /\ owed = {} /\ lost = {}
  /\ raised = {} /\ off = {}

-----------------------------------------------------------------------------
(* risk.py: what the tier of an action is under one reading, and under all *)
(* that request_action scores.                                             *)

Tier(a, finds) ==
  IF \/ a.kind = "key" /\ a.grave
     \/ a.kind = "type" /\ (a.grave \/ "credential" \in finds)
     \/ "t3" \in finds THEN 3
  ELSE IF "t2" \in finds THEN 2
  ELSE IF a.kind \in {"wait", "scroll", "done", "fail"} THEN 0
  ELSE 1

Scored(a) == IF a.target = "none" THEN {"caller"} ELSE Readings

\* Mutant: only the merged reading counts.
RiskMerged(a) == Tier(a, a.finds["merged"])

Risk(a) == Max({Tier(a, a.finds[r]) : r \in Scored(a)})

-----------------------------------------------------------------------------
(* request_action between the kill switch and the approval.                *)

InputKinds    == {"click", "right_click", "double_click", "type", "key"}
KeyboardKinds == {"type", "key"}

Fresh(a) == a.frame_id = latest /\ a.frame_id = frame /\ a.frame_id >= 0

\* _service_contract_refusal, and then the binding of any id at all.
Refused(a)    == a.kind \in {"scroll", "drag"}
Mistargets(a) ==
  \/ a.kind \in InputKinds /\ a.target \in {"none", "ghost"}
  \/ a.kind \in KeyboardKinds /\ a.target # "a11y"
  \/ a.target = "ghost"
  \/ ~a.inside

NeedsApproval(a) ==
  (Risk(a) = 2 /\ ApproveT2) \/ (Risk(a) = 3 /\ ApproveT3)

\* The actions that reach classify, which reads the caller's context.
Classified(a) == Fresh(a) /\ ~Refused(a) /\ ~Mistargets(a)

Verdict(a) ==
  IF ~Fresh(a) THEN "rejected-stale"
  ELSE IF Refused(a) THEN "denied"
  ELSE IF Mistargets(a) THEN "rejected-target"
  ELSE IF a.kind = "done" THEN "done"
  ELSE IF a.kind = "fail" THEN "failed"
  ELSE IF Risk(a) = 3 /\ HardBlockT3 THEN "denied"
  ELSE IF NeedsApproval(a) THEN "ask"
  ELSE "run"

-----------------------------------------------------------------------------
(* The operator and the observer.                                          *)

Pending == pc \notin {"idle", "down"}

Engage ==
  /\ ~stop /\ stops < MaxStops
  /\ stop' = TRUE /\ stops' = stops + 1
  /\ UNCHANGED <<sequence, restarts, issued, admittedTo, latest, pc, crashes,
                 reqVars, yes, out, audit, performed, owed, lost, raised, off>>

Release ==
  /\ stop
  /\ stop' = FALSE /\ off' = IF Pending THEN off \union {n} ELSE off
  /\ UNCHANGED <<stops, sequence, restarts, issued, admittedTo, latest, pc,
                 crashes, reqVars, yes, out, audit, performed, owed, lost, raised>>

Observe ==
  /\ Len(issued) < MaxFrames
  /\ sequence' = sequence + 1 /\ issued' = Append(issued, sequence + 1)
  /\ UNCHANGED <<stop, stops, restarts, admittedTo, latest, pc, crashes,
                 reqVars, yes, out, audit, performed, owed, lost, raised, off>>

ObserverRestart ==
  /\ restarts < MaxRestarts /\ sequence > 0
  /\ restarts' = restarts + 1 /\ sequence' = 0
  /\ UNCHANGED <<stop, stops, issued, admittedTo, latest, pc, crashes, reqVars,
                 yes, out, audit, performed, owed, lost, raised, off>>

-----------------------------------------------------------------------------
(* The service.                                                            *)

\* handle: the k-th envelope is admitted and its frame observed.
Submit(k, a) ==
  /\ pc = "idle" /\ n < MaxRequests
  /\ admittedTo' = k
  /\ latest' = IF issued[k] > latest THEN issued[k] ELSE latest
  /\ n' = n + 1 /\ action' = a /\ frame' = issued[k]
  /\ pc' = "kill" /\ yes' = FALSE /\ out' = "none"
  /\ off' = IF stop THEN off ELSE off \union {n + 1}
  /\ UNCHANGED <<envVars, crashes, audit, performed, owed, lost, raised>>

EndRequest(where) ==
  /\ pc' = where
  /\ action' = NoAction /\ frame' = 0 /\ yes' = FALSE /\ out' = "none"

\* An exception in request_action: the client gets an error, and no record is
\* written.
Raise == EndRequest("idle") /\ raised' = raised \union {n}

Decision(kind) == pc' = "record" /\ out' = kind

\* Mutant: terminal and no-op actions are let past the stop.
KillCheckOfInput ==
  /\ pc = "kill"
  /\ LET stopped == stop /\ action.kind \in InputKinds IN
     \/ stopped /\ Decision("kill-switched")
     \/ ~stopped /\ pc' = "decide" /\ UNCHANGED out
  /\ UNCHANGED <<envVars, admittedTo, latest, crashes, reqVars, yes, audit,
                 performed, owed, lost, raised, off>>

KillCheck ==
  /\ pc = "kill"
  /\ \/ stop /\ Decision("kill-switched")
     \/ ~stop /\ pc' = "decide" /\ UNCHANGED out
  /\ UNCHANGED <<envVars, admittedTo, latest, crashes, reqVars, yes, audit,
                 performed, owed, lost, raised, off>>

\* is_engaged cannot look at a file of the switch.
KillCheckRaises ==
  /\ pc = "kill" /\ Raise
  /\ UNCHANGED <<envVars, admittedTo, latest, crashes, n, audit, performed,
                 owed, lost, off>>

Decide ==
  /\ pc = "decide" /\ (Classified(action) => action.texts)
  /\ LET v == Verdict(action) IN
     \/ v \in {"ask", "run"} /\ pc' = v /\ UNCHANGED out
     \/ v \notin {"ask", "run"} /\ Decision(v)
  /\ UNCHANGED <<envVars, admittedTo, latest, crashes, reqVars, yes, audit,
                 performed, owed, lost, raised, off>>

\* haystack joins what is not a text: the classification of the action raises.
DecideRaises ==
  /\ pc = "decide" /\ Classified(action) /\ ~action.texts
  /\ Raise
  /\ UNCHANGED <<envVars, admittedTo, latest, crashes, n, audit, performed,
                 owed, lost, off>>

\* The human at the prompt, whenever that is.
Approve ==
  /\ pc = "ask"
  /\ pc' = "run" /\ yes' = TRUE
  /\ UNCHANGED <<envVars, admittedTo, latest, crashes, reqVars, out, audit,
                 performed, owed, lost, raised, off>>

Deny ==
  /\ pc = "ask"
  /\ Decision("denied")
  /\ UNCHANGED <<envVars, admittedTo, latest, crashes, reqVars, yes, audit,
                 performed, owed, lost, raised, off>>

\* The approval backend raises: a prompt with no console to print to.
AskRaises ==
  /\ pc = "ask" /\ Raise
  /\ UNCHANGED <<envVars, admittedTo, latest, crashes, n, audit, performed,
                 owed, lost, off>>

Execute ==
  /\ pc = "run"
  /\ performed' = performed \union {n} /\ Decision("executed")
  /\ UNCHANGED <<envVars, admittedTo, latest, crashes, reqVars, yes, audit,
                 owed, lost, raised, off>>

\* Input, of which the answer is lost, and input still to come.
Unanswered ==
  \/ UNCHANGED <<performed, owed>>
  \/ performed' = performed \union {n} /\ UNCHANGED owed
  \/ owed' = owed \union {n} /\ UNCHANGED performed

\* Mutant: a failed execution is not turned into a decision.
ExecuteUncaught ==
  /\ pc = "run"
  /\ Unanswered /\ EndRequest("idle")
  /\ UNCHANGED <<envVars, admittedTo, latest, crashes, n, audit, lost, raised,
                 off>>

\* The executor raises, or its answer does not come in time.
ExecuteRaises ==
  /\ pc = "run"
  /\ Unanswered /\ Decision("execution-failed")
  /\ UNCHANGED <<envVars, admittedTo, latest, crashes, reqVars, yes, audit,
                 lost, raised, off>>

\* The executor service carries out what nobody waits for any more.
LateInput ==
  /\ \E i \in owed : performed' = performed \union {i} /\ owed' = owed \ {i}
  /\ UNCHANGED <<envVars, admittedTo, latest, pc, crashes, reqVars, yes, out,
                 audit, lost, raised, off>>

Record ==
  /\ pc = "record"
  /\ EndRequest("idle") /\ audit' = Append(audit, [n |-> n, kind |-> out])
  /\ UNCHANGED <<envVars, admittedTo, latest, crashes, n, performed, owed,
                 lost, raised, off>>

\* append raises, the client gets an error, and the service goes on.
RecordRaises ==
  /\ pc = "record" /\ AuditFails
  /\ EndRequest("idle") /\ lost' = lost \union {n}
  /\ UNCHANGED <<envVars, admittedTo, latest, crashes, n, audit, performed,
                 owed, raised, off>>

\* The process dies; the gate's watermark and the log are on disk, and the
\* executor has, or will have, done what it was asked for, or not.
Crash ==
  /\ pc # "down" /\ crashes < MaxCrashes
  /\ EndRequest("down") /\ crashes' = crashes + 1
  /\ latest' = 0 /\ lost' = IF Pending THEN lost \union {n} ELSE lost
  /\ IF pc = "run" THEN Unanswered ELSE UNCHANGED <<performed, owed>>
  /\ UNCHANGED <<envVars, admittedTo, n, audit, raised, off>>

Start ==
  /\ pc = "down" /\ pc' = "idle"
  /\ UNCHANGED <<envVars, admittedTo, latest, crashes, reqVars, yes, out,
                 audit, performed, owed, lost, raised, off>>

Handling ==
  \/ KillCheck \/ KillCheckRaises \/ Decide \/ DecideRaises \/ AskRaises
  \/ Execute \/ ExecuteRaises \/ Record

Next ==
  \/ Engage \/ Release \/ Observe \/ ObserverRestart
  \/ \E k \in (admittedTo + 1)..Len(issued), a \in Actions : Submit(k, a)
  \/ Handling \/ Approve \/ Deny \/ LateInput \/ RecordRaises \/ Crash \/ Start

Spec == Init /\ [][Next]_vars
-----------------------------------------------------------------------------
Outcomes == {"kill-switched", "rejected-stale", "denied", "rejected-target",
             "done", "failed", "executed", "execution-failed"}

TypeOK ==
  /\ {stop, yes} \subseteq BOOLEAN
  /\ {stops, sequence, restarts, admittedTo, latest, crashes, n, frame}
       \subseteq Nat
  /\ issued \in Seq(Nat) /\ admittedTo <= Len(issued)
  /\ pc \in {"idle", "kill", "decide", "ask", "run", "record", "down"}
  /\ action \in Actions \union {NoAction}
  /\ Pending => action \in Actions
  /\ out \in Outcomes \union {"none"} /\ (pc = "record" => out # "none")
  /\ audit \in Seq([n : Nat, kind : Outcomes])
  /\ {performed, owed, lost, raised, off} \subseteq SUBSET Nat

\* An action about to be carried out is one the configuration lets through on
\* what the observer attested, whatever context the planner made up: its tier
\* without that context is no higher than what is allowed or was approved, it
\* is bound to an element of the newest admitted frame, and keys go to an
\* accessibility element (gatekeeper.py: "Caller context must not lower the
\* tier of an attested element").
AttestedTier(a) == Tier(a, a.finds[IF a.target = "none" THEN "caller"
                                   ELSE "attested"])

RunJustified ==
  pc = "run" =>
    /\ AttestedTier(action) = 3 => ~HardBlockT3 /\ (ApproveT3 => yes)
    /\ AttestedTier(action) = 2 /\ ApproveT2 /\ ApproveT3 => yes
    /\ action.frame_id = issued[admittedTo]
    /\ action.kind \in InputKinds => action.target \in {"a11y", "ocr"}
    /\ action.kind \in KeyboardKinds => action.target = "a11y"

\* Input is performed for a request only if the stop was off at some moment
\* since it came in: a stop that stands when a request arrives and is not
\* released stops it (request_action: "1. global stop").
StopPreempts == performed \subseteq off

\* The log tells what happened: the requests in it are in order, each once;
\* one recorded as executed was performed; one whose input was, or may yet be,
\* performed is in it as executed or failed, unless its record was lost in a
\* crash or a failed append; and every ended request is in it or lost, but for
\* those that raised before their action was let through (the look at the stop,
\* the classification, the approval): of these nothing was or will be performed.
Recorded(i, kinds) ==
  \E j \in 1..Len(audit) : audit[j].n = i /\ audit[j].kind \in kinds

AuditTells ==
  /\ \A j \in 1..Len(audit) :
       /\ audit[j].kind = "executed" => audit[j].n \in performed
       /\ audit[j].n \in performed \union owed =>
            audit[j].kind \in {"executed", "execution-failed"}
       /\ \A i \in 1..Len(audit) : i < j => audit[i].n < audit[j].n
  /\ \A i \in 1..n : \/ i \in lost \union raised \/ Recorded(i, Outcomes)
                     \/ Pending /\ i = n
  /\ raised \intersect (performed \union owed) = {}

\* An action that names the frame it came with is not refused as stale: the
\* gate has already refused what is older (attestation_gate.py: frame ids
\* "locked a restarted observer out").
StaleOnlyIfStale ==
  pc = "record" /\ out = "rejected-stale" => action.frame_id # frame
=============================================================================

--------------------------- MODULE GatekeeperProofs ---------------------------
(***************************************************************************)
(* What holds of a request for any configuration, any action, and any      *)
(* order in which operator, observer, human, executor and crashes act.     *)
(***************************************************************************)
EXTENDS Gatekeeper, SequenceTheorems, TLAPS

-----------------------------------------------------------------------------
(* Types.                                                                  *)

\* What stands on the other side of the prompt and the decisions.
LEMMA VerdictType ==
  ASSUME NEW a \in Actions
  PROVE  Verdict(a) \in Outcomes \union {"ask", "run"}
BY DEF Verdict, Outcomes

LEMMA InitType == Init => TypeOK
<1> SUFFICES ASSUME Init PROVE TypeOK
  OBVIOUS
<1>1. /\ issued \in Seq(Nat) /\ audit \in Seq([n : Nat, kind : Outcomes])
      /\ Len(issued) = 0
  BY EmptySeq DEF Init
<1>2. {stop, yes} \subseteq BOOLEAN /\ {performed, owed, lost, raised, off} \subseteq SUBSET Nat
  BY DEF Init
<1>3. {stops, sequence, restarts, admittedTo, latest, crashes, n, frame}
        \subseteq Nat
  BY DEF Init
<1>4. /\ pc = "idle" /\ action = NoAction /\ out = "none" /\ admittedTo = 0
  BY DEF Init
<1> QED
  BY <1>1, <1>2, <1>3, <1>4 DEF TypeOK, Pending

\* A request that ends, however it does, leaves its variables as they were
\* before the first one.
LEMMA EndedType ==
  ASSUME TypeOK, NEW where \in {"idle", "down"}, EndRequest(where),
         UNCHANGED <<stop, stops, sequence, restarts, issued, admittedTo, n>>,
         latest' \in Nat, crashes' \in Nat,
         audit' \in Seq([n : Nat, kind : Outcomes]),
         {performed, owed, lost, raised, off}' \subseteq SUBSET Nat
  PROVE  TypeOK'
<1> USE DEF TypeOK, EndRequest, Pending
<1>1. ({stop, yes} \subseteq BOOLEAN)'
  OBVIOUS
<1>2. ({stops, sequence, restarts, admittedTo, latest, crashes, n, frame}
     \subseteq Nat)'
  OBVIOUS
<1>3. (issued \in Seq(Nat) /\ admittedTo <= Len(issued))'
  OBVIOUS
<1>4. (pc \in {"idle", "kill", "decide", "ask", "run", "record", "down"})'
  OBVIOUS
<1>5. (action \in Actions \union {NoAction})'
  OBVIOUS
<1>6. (Pending => action \in Actions)'
  OBVIOUS
<1>7. (out \in Outcomes \union {"none"} /\ (pc = "record" => out # "none"))'
  OBVIOUS
<1>8. (audit \in Seq([n : Nat, kind : Outcomes]))'
  OBVIOUS
<1>9. ({performed, owed, lost, raised, off} \subseteq SUBSET Nat)'
  OBVIOUS
<1> QED
  BY <1>1, <1>2, <1>3, <1>4, <1>5, <1>6, <1>7, <1>8, <1>9 DEF TypeOK

LEMMA NextType == TypeOK /\ [Next]_vars => TypeOK'
<1> SUFFICES ASSUME TypeOK, [Next]_vars PROVE TypeOK'
  OBVIOUS
<1> USE DEF TypeOK, Pending, envVars, reqVars
<1>1. CASE Engage
  BY <1>1 DEF Engage
<1>2. CASE Release
  BY <1>2 DEF Release
<1>3. CASE Observe
  <2>1. issued' = Append(issued, sequence + 1) /\ sequence + 1 \in Nat
    BY <1>3 DEF Observe
  <2>2. issued' \in Seq(Nat) /\ Len(issued') = Len(issued) + 1
    BY <2>1, AppendProperties
  <2>3. admittedTo' <= Len(issued')
    BY <1>3, <2>2, LenProperties DEF Observe
  <2> QED
    BY <1>3, <2>2, <2>3 DEF Observe
<1>4. CASE ObserverRestart
  BY <1>4 DEF ObserverRestart
<1>5. CASE \E k \in (admittedTo + 1)..Len(issued), a \in Actions : Submit(k, a)
  <2> PICK k \in (admittedTo + 1)..Len(issued), a \in Actions : Submit(k, a)
    BY <1>5
  <2>1. k \in 1..Len(issued) /\ k \in Nat /\ issued[k] \in Nat
    <3>1. Len(issued) \in Nat
      BY LenProperties
    <3>2. k \in 1..Len(issued) /\ k \in Nat
      BY <3>1
    <3> QED
      BY <3>2, ElementOfSeq
  <2>2. /\ admittedTo' = k /\ latest' \in Nat /\ n' = n + 1 /\ action' = a
        /\ frame' = issued[k] /\ pc' = "kill" /\ yes' = FALSE /\ out' = "none"
        /\ (off' = off \/ off' = off \union {n + 1})
        /\ UNCHANGED <<stop, stops, sequence, restarts, issued, crashes, audit,
                       performed, owed, lost, raised>>
    BY <2>1 DEF Submit
  <2>3. ({stop, yes} \subseteq BOOLEAN)'
    BY <2>1, <2>2
  <2>4. ({stops, sequence, restarts, admittedTo, latest, crashes, n, frame}
       \subseteq Nat)'
    <3>1. {stops, sequence, restarts, crashes}' \subseteq Nat
      BY <2>2
    <3>2. n + 1 \in Nat
      OBVIOUS
    <3>3. /\ admittedTo' \in Nat /\ latest' \in Nat
          /\ n' \in Nat /\ frame' \in Nat
      BY <2>1, <2>2, <3>2
    <3> QED
      BY <3>1, <3>3
  <2>5. (issued \in Seq(Nat) /\ admittedTo <= Len(issued))'
    BY <2>1, <2>2
  <2>6. (pc \in {"idle", "kill", "decide", "ask", "run", "record", "down"})'
    BY <2>1, <2>2
  <2>7. (action \in Actions \union {NoAction})'
    BY <2>1, <2>2
  <2>8. (Pending => action \in Actions)'
    BY <2>1, <2>2
  <2>9. (out \in Outcomes \union {"none"} /\ (pc = "record" => out # "none"))'
    BY <2>1, <2>2
  <2>10. (audit \in Seq([n : Nat, kind : Outcomes]))'
    BY <2>1, <2>2
  <2>11. ({performed, owed, lost, raised, off} \subseteq SUBSET Nat)'
    <3>1. n + 1 \in Nat /\ off \subseteq Nat
      OBVIOUS
    <3>2. off' \subseteq Nat
      <4>1. off \union {n + 1} \subseteq Nat
        BY <3>1
      <4> QED
        BY <2>2, <3>1, <4>1
    <3> QED
      BY <2>2, <3>2
  <2> QED
    BY <2>3, <2>4, <2>5, <2>6, <2>7, <2>8, <2>9, <2>10, <2>11 DEF TypeOK
<1>6. CASE KillCheck
  BY <1>6 DEF KillCheck, Decision, Outcomes
<1>7. CASE Decide
  <2>1. Verdict(action) \in Outcomes \union {"ask", "run"}
    BY <1>7, VerdictType DEF Decide
  <2> QED
    BY <1>7, <2>1 DEF Decide, Decision, Outcomes
<1>8. CASE Approve
  BY <1>8 DEF Approve
<1>9. CASE Deny
  BY <1>9 DEF Deny, Decision, Outcomes
<1>10. CASE Execute
  BY <1>10 DEF Execute, Decision, Outcomes
<1>11. CASE ExecuteRaises
  BY <1>11 DEF ExecuteRaises, Unanswered, Decision, Outcomes
<1>12. CASE Record
  <2> DEFINE r == [n |-> n, kind |-> out]
  <2>1. r \in [n : Nat, kind : Outcomes]
    BY <1>12 DEF Record
  <2> HIDE DEF r
  <2>2. audit' = Append(audit, r)
    BY <1>12 DEF Record, r
  <2>3. audit' \in Seq([n : Nat, kind : Outcomes])
    BY <2>1, <2>2, AppendProperties
  <2> QED
    BY <1>12, <2>3, EndedType DEF Record
<1>13. CASE RecordRaises
  BY <1>13, EndedType DEF RecordRaises
<1>14. CASE Crash
  <2>1. /\ EndRequest("down")
        /\ UNCHANGED <<stop, stops, sequence, restarts, issued, admittedTo, n>>
    BY <1>14 DEF Crash
  <2>2. latest' \in Nat /\ crashes' \in Nat
    BY <1>14 DEF Crash
  <2>3. audit' \in Seq([n : Nat, kind : Outcomes])
    BY <1>14 DEF Crash
  <2>4. {performed, owed, lost, raised, off}' \subseteq SUBSET Nat
    BY <1>14 DEF Crash, Unanswered
  <2> QED
    BY <2>1, <2>2, <2>3, <2>4, EndedType
<1>15. CASE Start
  BY <1>15 DEF Start
<1>16. CASE LateInput
  BY <1>16 DEF LateInput
<1>18. ASSUME KillCheckRaises \/ DecideRaises \/ AskRaises PROVE TypeOK'
  BY <1>18, EndedType DEF KillCheckRaises, DecideRaises, AskRaises, Raise
<1>17. CASE UNCHANGED vars
  BY <1>17 DEF vars
<1> QED
  BY <1>1, <1>2, <1>3, <1>4, <1>5, <1>6, <1>7, <1>8, <1>9, <1>10, <1>11,
     <1>12, <1>13, <1>14, <1>15, <1>16, <1>17, <1>18
  DEF Next, Handling

\* The switch, the envelopes, the request in hand and the log keep their types
\* in every step of operator, observer and service.
THEOREM TypeCorrect == Spec => []TypeOK
BY InitType, NextType, PTL DEF Spec
-----------------------------------------------------------------------------
(* The stop.                                                               *)

\* While the stop is off, it was off during the request; and a request that
\* went past the kill switch saw it off.
StopInv ==
  /\ StopPreempts /\ owed \subseteq off
  /\ Pending /\ ~stop => n \in off
  /\ pc \in {"decide", "ask", "run"} => n \in off

LEMMA NextStop == StopInv /\ [Next]_vars => StopInv'
<1> SUFFICES ASSUME StopInv, [Next]_vars PROVE StopInv'
  OBVIOUS
<1> USE DEF StopInv, StopPreempts, Pending, envVars, reqVars
<1>1. CASE Engage
  BY <1>1 DEF Engage
<1>2. CASE Release
  BY <1>2 DEF Release
<1>3. CASE Observe
  BY <1>3 DEF Observe
<1>4. CASE ObserverRestart
  BY <1>4 DEF ObserverRestart
<1>5. CASE \E k \in (admittedTo + 1)..Len(issued), a \in Actions : Submit(k, a)
  BY <1>5 DEF Submit
<1>6. CASE KillCheck
  BY <1>6 DEF KillCheck, Decision
<1>7. CASE Decide
  BY <1>7 DEF Decide, Decision
<1>8. CASE Approve
  BY <1>8 DEF Approve
<1>9. CASE Deny
  BY <1>9 DEF Deny, Decision
<1>10. CASE Execute
  BY <1>10 DEF Execute, Decision
<1>11. CASE ExecuteRaises
  BY <1>11 DEF ExecuteRaises, Unanswered, Decision
<1>12. CASE Record
  BY <1>12 DEF Record, EndRequest
<1>13. CASE RecordRaises
  BY <1>13 DEF RecordRaises, EndRequest
<1>14. CASE Crash
  BY <1>14 DEF Crash, Unanswered, EndRequest
<1>15. CASE Start
  BY <1>15 DEF Start
<1>16. CASE LateInput
  BY <1>16 DEF LateInput
<1>18. ASSUME KillCheckRaises \/ DecideRaises \/ AskRaises PROVE StopInv'
  BY <1>18 DEF KillCheckRaises, DecideRaises, AskRaises, Raise, EndRequest
<1>17. CASE UNCHANGED vars
  BY <1>17 DEF vars
<1> QED
  BY <1>1, <1>2, <1>3, <1>4, <1>5, <1>6, <1>7, <1>8, <1>9, <1>10, <1>11,
     <1>12, <1>13, <1>14, <1>15, <1>16, <1>17, <1>18
  DEF Next, Handling

\* request_action performs nothing for a request under a stop that stood from
\* its beginning to its end.
THEOREM StopComesFirst == Spec => []StopPreempts
<1>1. Init => StopInv
  BY DEF Init, StopInv, StopPreempts, Pending
<1>2. StopInv => StopPreempts
  BY DEF StopInv
<1> QED
  BY <1>1, <1>2, NextStop, PTL DEF Spec
-----------------------------------------------------------------------------
(* What is carried out.                                                    *)

\* The tier an action is held to is that of one of its readings, and no
\* reading has a higher one.
LEMMA RiskBounds ==
  ASSUME NEW a
  PROVE  /\ Risk(a) \in 0..3
         /\ AttestedTier(a) \in 0..3 /\ AttestedTier(a) <= Risk(a)
<1> DEFINE T == {Tier(a, a.finds[r]) : r \in Scored(a)}
<1>1. T \subseteq 0..3 /\ T # {}
  BY DEF Tier, Scored, Readings
<1>2. AttestedTier(a) \in T
  BY DEF AttestedTier, Scored, Readings
<1>3. \E x \in T : \A y \in T : x >= y
  <2> HIDE DEF T
  <2>1. CASE 3 \in T
    BY <1>1, <2>1
  <2>2. CASE 3 \notin T /\ 2 \in T
    BY <1>1, <2>2
  <2>3. CASE 3 \notin T /\ 2 \notin T /\ 1 \in T
    BY <1>1, <2>3
  <2>4. CASE 3 \notin T /\ 2 \notin T /\ 1 \notin T
    <3>1. \A y \in T : y = 0
      BY <1>1, <2>4
    <3>2. PICK x \in T : x = 0
      BY <1>1, <3>1
    <3>3. \A y \in T : x >= y
      BY <3>1, <3>2
    <3> QED
      BY <3>3
  <2> QED
    BY <2>1, <2>2, <2>3, <2>4
<1>4. Risk(a) = Max(T)
  BY DEF Risk
<1> HIDE DEF T
<1>5. Max(T) \in T /\ \A y \in T : Max(T) >= y
  BY <1>3 DEF Max
<1> QED
  BY <1>1, <1>2, <1>4, <1>5

\* What request_action found on its way to the prompt, and past it.
Allowed(v) ==
  /\ ~(Risk(action) = 3 /\ HardBlockT3)
  /\ v = "ask" <=> NeedsApproval(action)
  /\ Fresh(action) /\ ~Mistargets(action)

RunInv ==
  /\ pc = "ask" => Allowed("ask")
  /\ pc = "run" => Allowed("run") \/ (Allowed("ask") /\ yes)
  /\ Pending => frame = issued[admittedTo] /\ admittedTo \in 1..Len(issued)

LEMMA InVerdict ==
  ASSUME NEW v \in {"ask", "run"}, Verdict(action) = v
  PROVE  Allowed(v)
BY DEF Verdict, Allowed

LEMMA NextRun == TypeOK /\ RunInv /\ [Next]_vars => RunInv'
<1> SUFFICES ASSUME TypeOK, RunInv, [Next]_vars PROVE RunInv'
  OBVIOUS
<1>0. issued \in Seq(Nat) /\ Len(issued) \in Nat /\ admittedTo \in Nat
  BY LenProperties DEF TypeOK
<1> USE <1>0 DEF RunInv, Pending, envVars, reqVars, Allowed, Fresh
<1>1. CASE Engage
  BY <1>1 DEF Engage
<1>2. CASE Release
  BY <1>2 DEF Release
<1>3. CASE Observe
  <2>1. issued' = Append(issued, sequence + 1) /\ sequence + 1 \in Nat
    BY <1>3 DEF Observe, TypeOK
  <2>2. /\ Len(issued') = Len(issued) + 1
        /\ \A k \in 1..Len(issued) : issued'[k] = issued[k]
    BY <2>1, AppendProperties
  <2>3. UNCHANGED <<pc, action, frame, yes, admittedTo, latest>>
    BY <1>3 DEF Observe
  <2>4. Pending => frame = issued'[admittedTo] /\ admittedTo \in 1..Len(issued')
    BY <2>2
  <2> QED
    BY <2>3, <2>4
<1>4. CASE ObserverRestart
  BY <1>4 DEF ObserverRestart
<1>5. CASE \E k \in (admittedTo + 1)..Len(issued), a \in Actions : Submit(k, a)
  <2> PICK k \in (admittedTo + 1)..Len(issued), a \in Actions : Submit(k, a)
    BY <1>5
  <2>1. /\ admittedTo' = k /\ frame' = issued[k] /\ pc' = "kill"
        /\ issued' = issued
    BY DEF Submit
  <2>2. k \in 1..Len(issued)
    OBVIOUS
  <2> QED
    BY <2>1, <2>2
<1>6. CASE KillCheck
  BY <1>6 DEF KillCheck, Decision
<1>7. CASE Decide
  <2>1. pc' \in {"ask", "run"} => pc' = Verdict(action)
    BY <1>7 DEF Decide, Decision
  <2>2. UNCHANGED <<action, frame, yes, admittedTo, latest, issued>>
    BY <1>7 DEF Decide
  <2>3. pc = "decide"
    BY <1>7 DEF Decide
  <2>4. pc' \in {"ask", "run"} => Allowed(pc')
    BY <2>1, InVerdict
  <2> QED
    BY <2>2, <2>3, <2>4
<1>8. CASE Approve
  BY <1>8 DEF Approve
<1>9. CASE Deny
  BY <1>9 DEF Deny, Decision
<1>10. CASE Execute
  BY <1>10 DEF Execute, Decision
<1>11. CASE ExecuteRaises
  BY <1>11 DEF ExecuteRaises, Unanswered, Decision
<1>12. CASE Record
  BY <1>12 DEF Record, EndRequest
<1>13. CASE RecordRaises
  BY <1>13 DEF RecordRaises, EndRequest
<1>14. CASE Crash
  BY <1>14 DEF Crash, Unanswered, EndRequest
<1>15. CASE Start
  BY <1>15 DEF Start
<1>16. CASE LateInput
  BY <1>16 DEF LateInput
<1>18. ASSUME KillCheckRaises \/ DecideRaises \/ AskRaises PROVE RunInv'
  BY <1>18 DEF KillCheckRaises, DecideRaises, AskRaises, Raise, EndRequest
<1>17. CASE UNCHANGED vars
  BY <1>17 DEF vars
<1> QED
  BY <1>1, <1>2, <1>3, <1>4, <1>5, <1>6, <1>7, <1>8, <1>9, <1>10, <1>11,
     <1>12, <1>13, <1>14, <1>15, <1>16, <1>17, <1>18
  DEF Next, Handling

\* Whatever context the caller makes up, what request_action carries out is
\* what the configuration, or the human, lets through on the attested element.
THEOREM OnlyWhatIsAllowed == Spec => []RunJustified
<1>1. Init => RunInv
  BY DEF Init, RunInv, Pending
<1>2. TypeOK /\ RunInv => RunJustified
  <2> SUFFICES ASSUME TypeOK, RunInv, pc = "run"
               PROVE  /\ AttestedTier(action) = 3 =>
                           ~HardBlockT3 /\ (ApproveT3 => yes)
                      /\ AttestedTier(action) = 2 /\ ApproveT2 /\ ApproveT3 => yes
                      /\ action.frame_id = issued[admittedTo]
                      /\ action.kind \in InputKinds =>
                           action.target \in {"a11y", "ocr"}
                      /\ action.kind \in KeyboardKinds => action.target = "a11y"
    BY DEF RunJustified
  <2>1. Allowed("run") \/ (Allowed("ask") /\ yes)
    BY DEF RunInv
  <2>2. /\ Risk(action) \in 0..3 /\ AttestedTier(action) \in 0..3
        /\ AttestedTier(action) <= Risk(action)
    BY RiskBounds
  <2>3. AttestedTier(action) = 3 => ~HardBlockT3 /\ (ApproveT3 => yes)
    BY <2>1, <2>2 DEF Allowed, NeedsApproval
  <2>4. AttestedTier(action) = 2 /\ ApproveT2 /\ ApproveT3 => yes
    BY <2>1, <2>2 DEF Allowed, NeedsApproval
  <2>5. action.frame_id = issued[admittedTo]
    BY <2>1 DEF RunInv, Allowed, Fresh, Pending
  <2>6. action.target \in {"none", "ghost", "a11y", "ocr"}
    BY DEF TypeOK, Pending, Actions
  <2>7. /\ action.kind \in InputKinds => action.target \in {"a11y", "ocr"}
        /\ action.kind \in KeyboardKinds => action.target = "a11y"
    BY <2>1, <2>6 DEF Allowed, Mistargets
  <2> QED
    BY <2>3, <2>4, <2>5, <2>7
<1> QED
  BY <1>1, <1>2, NextRun, TypeCorrect, PTL DEF Spec
-----------------------------------------------------------------------------
(* What the log tells.                                                     *)

\* The record of a request comes after those of all before it.
LogOrder ==
  /\ \A j \in 1..Len(audit) : audit[j].n <= n /\ (Pending => audit[j].n < n)
  /\ \A j \in 1..Len(audit) : \A i \in 1..Len(audit) :
       i < j => audit[i].n < audit[j].n

\* What was performed is what the records, and the decision to be recorded,
\* say was performed.
LogTruth ==
  /\ \A j \in 1..Len(audit) :
       /\ audit[j].kind = "executed" => audit[j].n \in performed
       /\ audit[j].n \in performed =>
            audit[j].kind \in {"executed", "execution-failed"}
  /\ performed \subseteq 1..n
  /\ pc \in {"kill", "decide", "ask", "run"} => n \notin performed
  /\ pc = "record" /\ out = "executed" => n \in performed
  /\ pc = "record" /\ n \in performed => out \in {"executed", "execution-failed"}
  /\ Pending => n > 0
  /\ owed \subseteq 1..n
  /\ raised \subseteq 1..n /\ raised \intersect (performed \union owed) = {}
  /\ Pending => n \notin raised
  /\ n \in owed =>
       pc \in {"idle", "down"} \/ (pc = "record" /\ out = "execution-failed")
  /\ \A j \in 1..Len(audit) : audit[j].n \in owed =>
       audit[j].kind = "execution-failed"

\* No request goes missing.
LogWhole ==
  \A i \in 1..n : \/ i \in lost \union raised \/ Recorded(i, Outcomes)
                  \/ Pending /\ i = n

\* What one more record does to the log.
LEMMA Appended ==
  ASSUME TypeOK, Record
  PROVE  /\ Len(audit) \in Nat /\ Len(audit') = Len(audit) + 1
         /\ \A j \in 1..Len(audit) : audit'[j] = audit[j]
         /\ audit'[Len(audit) + 1].n = n /\ audit'[Len(audit) + 1].kind = out
         /\ out \in Outcomes
<1> DEFINE r == [n |-> n, kind |-> out]
<1>1. r \in [n : Nat, kind : Outcomes] /\ r.n = n /\ r.kind = out
      /\ out \in Outcomes
  BY DEF Record, TypeOK
<1> HIDE DEF r
<1>2. audit' = Append(audit, r) /\ audit \in Seq([n : Nat, kind : Outcomes])
  BY DEF Record, r, TypeOK
<1> QED
  BY <1>1, <1>2, AppendProperties, LenProperties

LEMMA NextOrder == TypeOK /\ LogOrder /\ [Next]_vars => LogOrder'
<1> SUFFICES ASSUME TypeOK, LogOrder, [Next]_vars PROVE LogOrder'
  OBVIOUS
<1>0. /\ n \in Nat /\ Len(audit) \in Nat
      /\ \A j \in 1..Len(audit) : audit[j].n \in Nat
  <2>1. audit \in Seq([n : Nat, kind : Outcomes]) /\ n \in Nat
    BY DEF TypeOK
  <2>2. \A j \in 1..Len(audit) : audit[j] \in [n : Nat, kind : Outcomes]
    BY <2>1, ElementOfSeq
  <2> QED
    BY <2>1, <2>2, LenProperties
<1> USE <1>0 DEF LogOrder, Pending, envVars, reqVars
<1>1. CASE Engage
  BY <1>1 DEF Engage
<1>2. CASE Release
  BY <1>2 DEF Release
<1>3. CASE Observe
  BY <1>3 DEF Observe
<1>4. CASE ObserverRestart
  BY <1>4 DEF ObserverRestart
<1>5. CASE \E k \in (admittedTo + 1)..Len(issued), a \in Actions : Submit(k, a)
  BY <1>5 DEF Submit
<1>6. CASE KillCheck
  BY <1>6 DEF KillCheck, Decision
<1>7. CASE Decide
  BY <1>7 DEF Decide, Decision
<1>8. CASE Approve
  BY <1>8 DEF Approve
<1>9. CASE Deny
  BY <1>9 DEF Deny, Decision
<1>10. CASE Execute
  BY <1>10 DEF Execute, Decision
<1>11. CASE ExecuteRaises
  BY <1>11 DEF ExecuteRaises, Unanswered, Decision
<1>12. CASE Record
  <2>1. Pending /\ n' = n /\ ~Pending'
    BY <1>12 DEF Record, EndRequest
  <2> QED
    BY <1>12, <2>1, Appended
<1>13. CASE RecordRaises
  BY <1>13 DEF RecordRaises, EndRequest
<1>14. CASE Crash
  BY <1>14 DEF Crash, Unanswered, EndRequest
<1>15. CASE Start
  BY <1>15 DEF Start
<1>16. CASE LateInput
  BY <1>16 DEF LateInput
<1>18. ASSUME KillCheckRaises \/ DecideRaises \/ AskRaises PROVE LogOrder'
  BY <1>18 DEF KillCheckRaises, DecideRaises, AskRaises, Raise, EndRequest
<1>17. CASE UNCHANGED vars
  BY <1>17 DEF vars
<1> QED
  BY <1>1, <1>2, <1>3, <1>4, <1>5, <1>6, <1>7, <1>8, <1>9, <1>10, <1>11,
     <1>12, <1>13, <1>14, <1>15, <1>16, <1>17, <1>18
  DEF Next, Handling

LEMMA NextTruth == TypeOK /\ LogOrder /\ LogTruth /\ [Next]_vars => LogTruth'
<1> SUFFICES ASSUME TypeOK, LogOrder, LogTruth, [Next]_vars PROVE LogTruth'
  OBVIOUS
<1>0. /\ n \in Nat /\ Len(audit) \in Nat
      /\ \A j \in 1..Len(audit) : audit[j].n \in Nat
  <2>1. audit \in Seq([n : Nat, kind : Outcomes]) /\ n \in Nat
    BY DEF TypeOK
  <2>2. \A j \in 1..Len(audit) : audit[j] \in [n : Nat, kind : Outcomes]
    BY <2>1, ElementOfSeq
  <2> QED
    BY <2>1, <2>2, LenProperties
<1>a. Pending => \A j \in 1..Len(audit) : audit[j].n # n
  BY <1>0 DEF LogOrder
<1>b. \A j \in 1..Len(audit) : audit[j].n <= n
  BY DEF LogOrder
<1> USE <1>0, <1>a, <1>b DEF LogTruth, Pending, envVars, reqVars
<1>1. CASE Engage
  BY <1>1 DEF Engage
<1>2. CASE Release
  BY <1>2 DEF Release
<1>3. CASE Observe
  BY <1>3 DEF Observe
<1>4. CASE ObserverRestart
  BY <1>4 DEF ObserverRestart
<1>5. CASE \E k \in (admittedTo + 1)..Len(issued), a \in Actions : Submit(k, a)
  <2>1. /\ pc = "idle" /\ pc' = "kill" /\ n' = n + 1
        /\ UNCHANGED <<audit, performed, owed, raised>>
    BY <1>5 DEF Submit
  <2>2. /\ performed \subseteq 1..(n + 1) /\ n + 1 \notin performed
        /\ owed \subseteq 1..(n + 1) /\ n + 1 \notin owed
        /\ raised \subseteq 1..(n + 1) /\ n + 1 \notin raised
    OBVIOUS
  <2> QED
    BY <2>1, <2>2
<1>6. CASE KillCheck
  BY <1>6 DEF KillCheck, Decision
<1>7. CASE Decide
  <2>1. Verdict(action) # "executed"
    BY DEF Verdict
  <2> QED
    BY <1>7, <2>1 DEF Decide, Decision
<1>8. CASE Approve
  BY <1>8 DEF Approve
<1>9. CASE Deny
  BY <1>9 DEF Deny, Decision
<1>10. CASE Execute
  BY <1>10 DEF Execute, Decision
<1>11. CASE ExecuteRaises
  <2>1. /\ pc = "run" /\ pc' = "record" /\ out' = "execution-failed"
        /\ UNCHANGED <<n, audit, raised>> /\ Unanswered
    BY <1>11 DEF ExecuteRaises, Decision
  <2>2. n \in 1..n
    BY <2>1
  <2>3. performed' \subseteq 1..n /\ owed' \subseteq 1..n
    BY <2>1, <2>2 DEF Unanswered
  <2>4. \A i : i # n => (i \in performed' <=> i \in performed)
                       /\ (i \in owed' <=> i \in owed)
    BY <2>1 DEF Unanswered
  <2> QED
    BY <2>1, <2>3, <2>4
<1>12. CASE Record
  <2>1. /\ pc = "record" /\ pc' = "idle" /\ n' = n
        /\ UNCHANGED <<performed, owed, raised>>
    BY <1>12 DEF Record, EndRequest
  <2> QED
    BY <1>12, <2>1, Appended
<1>13. CASE RecordRaises
  BY <1>13 DEF RecordRaises, EndRequest
<1>14. CASE Crash
  <2>1. pc' = "down" /\ UNCHANGED <<n, audit, raised>>
    BY <1>14 DEF Crash, EndRequest
  <2>2. CASE pc = "run"
    <3>1. n \in 1..n /\ Unanswered
      BY <1>14, <2>2 DEF Crash
    <3>2. performed' \subseteq 1..n /\ owed' \subseteq 1..n
      BY <3>1 DEF Unanswered
    <3>3. \A i : i # n => (i \in performed' <=> i \in performed)
                         /\ (i \in owed' <=> i \in owed)
      BY <3>1 DEF Unanswered
    <3> QED
      BY <2>1, <2>2, <3>2, <3>3
  <2>3. CASE pc # "run"
    <3>1. UNCHANGED <<performed, owed>>
      BY <1>14, <2>3 DEF Crash
    <3> QED
      BY <2>1, <3>1
  <2> QED
    BY <2>2, <2>3
<1>15. CASE Start
  BY <1>15 DEF Start
<1>16. CASE LateInput
  BY <1>16 DEF LateInput
<1>18. ASSUME KillCheckRaises \/ DecideRaises \/ AskRaises PROVE LogTruth'
  <2>1. /\ pc \in {"kill", "decide", "ask"} /\ pc' = "idle"
        /\ raised' = raised \union {n} /\ UNCHANGED <<n, audit, performed, owed>>
    BY <1>18 DEF KillCheckRaises, DecideRaises, AskRaises, Raise, EndRequest
  <2>2. n \in 1..n /\ n \notin performed \union owed
    BY <2>1
  <2> QED
    BY <2>1, <2>2
<1>17. CASE UNCHANGED vars
  BY <1>17 DEF vars
<1> QED
  BY <1>1, <1>2, <1>3, <1>4, <1>5, <1>6, <1>7, <1>8, <1>9, <1>10, <1>11,
     <1>12, <1>13, <1>14, <1>15, <1>16, <1>17, <1>18
  DEF Next, Handling

LEMMA NextWhole == TypeOK /\ LogWhole /\ [Next]_vars => LogWhole'
<1> SUFFICES ASSUME TypeOK, LogWhole, [Next]_vars PROVE LogWhole'
  OBVIOUS
<1>0. n \in Nat
  BY DEF TypeOK
<1> USE <1>0 DEF LogWhole, Recorded, Pending, envVars, reqVars
<1>1. CASE Engage
  BY <1>1 DEF Engage
<1>2. CASE Release
  BY <1>2 DEF Release
<1>3. CASE Observe
  BY <1>3 DEF Observe
<1>4. CASE ObserverRestart
  BY <1>4 DEF ObserverRestart
<1>5. CASE \E k \in (admittedTo + 1)..Len(issued), a \in Actions : Submit(k, a)
  BY <1>5 DEF Submit
<1>6. CASE KillCheck
  BY <1>6 DEF KillCheck, Decision
<1>7. CASE Decide
  BY <1>7 DEF Decide, Decision
<1>8. CASE Approve
  BY <1>8 DEF Approve
<1>9. CASE Deny
  BY <1>9 DEF Deny, Decision
<1>10. CASE Execute
  BY <1>10 DEF Execute, Decision
<1>11. CASE ExecuteRaises
  BY <1>11 DEF ExecuteRaises, Unanswered, Decision
<1>12. CASE Record
  <2> SUFFICES ASSUME NEW i \in 1..n, i \notin lost \union raised
               PROVE  Recorded(i, Outcomes)'
    BY <1>12 DEF Record
  <2>1. /\ Len(audit) \in Nat /\ Len(audit') = Len(audit) + 1
        /\ \A j \in 1..Len(audit) : audit'[j] = audit[j]
        /\ audit'[Len(audit) + 1].n = n /\ audit'[Len(audit) + 1].kind = out
        /\ out \in Outcomes
    BY <1>12, Appended
  <2>2. CASE i = n
    BY <2>1, <2>2
  <2>3. CASE i # n
    BY <2>1, <2>3
  <2> QED
    BY <2>2, <2>3
<1>13. CASE RecordRaises
  BY <1>13 DEF RecordRaises, EndRequest
<1>14. CASE Crash
  BY <1>14 DEF Crash, Unanswered, EndRequest
<1>15. CASE Start
  BY <1>15 DEF Start
<1>16. CASE LateInput
  BY <1>16 DEF LateInput
<1>18. ASSUME KillCheckRaises \/ DecideRaises \/ AskRaises PROVE LogWhole'
  BY <1>18 DEF KillCheckRaises, DecideRaises, AskRaises, Raise, EndRequest
<1>17. CASE UNCHANGED vars
  BY <1>17 DEF vars
<1> QED
  BY <1>1, <1>2, <1>3, <1>4, <1>5, <1>6, <1>7, <1>8, <1>9, <1>10, <1>11,
     <1>12, <1>13, <1>14, <1>15, <1>16, <1>17, <1>18
  DEF Next, Handling

\* With crashes, failed appends, lost answers and exceptions at any step, the
\* log still tells what was performed, in order; it misses only the decisions
\* that were lost and the requests that raised before one, of which nothing is
\* performed.
THEOREM LogTells == Spec => []AuditTells
<1> DEFINE LogInv == LogOrder /\ LogTruth /\ LogWhole
<1>1. Init => LogInv
  <2>1. Len(<< >>) = 0
    BY EmptySeq
  <2> QED
    BY <2>1 DEF Init, LogOrder, LogTruth, LogWhole, Pending
<1>2. TypeOK /\ LogInv /\ [Next]_vars => LogInv'
  BY NextOrder, NextTruth, NextWhole
<1>3. LogInv => AuditTells
  BY DEF AuditTells, LogOrder, LogTruth, LogWhole
<1> QED
  BY <1>1, <1>2, <1>3, TypeCorrect, PTL DEF Spec
=============================================================================

-------------------------- MODULE KillSwitchProofs --------------------------
(***************************************************************************)
(* Proofs about KillSwitch for any set of drills and of gatekeepers, as    *)
(* long as no two drill runs are alive at once (~Overlap).  With two at    *)
(* once the theorems are false: the runs KillSwitchOverlap* show how.      *)
(***************************************************************************)
EXTENDS KillSwitch, TLAPS

Running(d) == dpc[d] \notin Finished \union {"idle"}

OneRunning == \A d, e \in Drills : Running(d) /\ Running(e) => d = e

\* What the file a drill is about to touch may hold: its own marker, the
\* operator's text, or nothing any more.
DrillFiles ==
  \A d \in Drills :
    /\ dpc[d] = "rename" => path \in {d, Operator, None}
    /\ dpc[d] = "unlink" => claim[d] \in {d, None}
    /\ dpc[d] = "putback" => claim[d] \in {Operator, None} \union unread
    /\ d \in unread => dpc[d] \in {"putback"} \union Finished
    /\ claim[d] \in {d, Operator, None}
    /\ dpc[d] \in {"idle", "engage", "canary", "holds", "rename"}
         => claim[d] = None
    /\ dpc[d] \in {"idle", "engage"} => ~owned[d]

ReleaseUnwanted == opc # "idle" => ~wanted

\* No drill alive will rename the file at the path.
PathStable ==
  \A d \in Drills :
    /\ dpc[d] \notin {"holds", "rename"}
    /\ dpc[d] = "canary" => ~owned[d]

\* The operator's text, and the markers left to the operator.
Lasting == {Operator} \union unread

\* A stop that stands for the operator's is where a call that has still to look
\* at the claims S, and then at the path, will find it.
Sees(S) ==
  \/ \E e \in S : claim[e] \in Lasting
  \/ path \in Lasting /\ PathStable

\* A file holds something lasting as long as the operator wants a stop.
StopLasts ==
  wanted => path \in Lasting \/ \E e \in Drills : claim[e] \in Lasting
-----------------------------------------------------------------------------
USE DistinctContents

\* Every step of every process keeps the types.
LEMMA TypeStep == TypeOK /\ [Next]_vars => TypeOK'
<1> SUFFICES ASSUME TypeOK, [Next]_vars PROVE TypeOK'
  OBVIOUS
<1> USE DEF TypeOK, Callers, Contents, Finished, fileVars, drillVars,
            operVars, readVars, Goto, Answer
<1>1. ASSUME Watch PROVE (lapsed \in [Callers -> BOOLEAN])'
  BY <1>1 DEF Watch, InForce
<1>2. ASSUME NEW r \in Callers, Ask(r), Watch PROVE TypeOK'
  BY <1>1, <1>2 DEF Ask
<1>3. ASSUME NEW r \in Callers, FirstRead(r), Watch PROVE TypeOK'
  BY <1>1, <1>3 DEF FirstRead
<1>10. ASSUME NEW r \in Callers, GlobClaims(r), Watch PROVE TypeOK'
  BY <1>1, <1>10 DEF GlobClaims
<1>11. ASSUME NEW r \in Callers, StatClaim(r), Watch PROVE TypeOK'
  <2>1. PICK d \in listed[r] :
          /\ listed' = [listed EXCEPT ![r] = @ \ {d}]
          /\ \/ claim[d] # None /\ Answer(r, TRUE)
             \/ claim[d] = None /\ UNCHANGED <<rpc, answer>>
    BY <1>11 DEF StatClaim
  <2>2. (listed \in [Callers -> SUBSET Drills])'
    BY <2>1
  <2>3. (rpc \in [Callers -> {"idle", "first", "glob", "stat", "answered"}]
         /\ answer \in [Callers -> BOOLEAN])'
    BY <2>1
  <2>4. QED
    BY <1>1, <1>11, <2>2, <2>3 DEF StatClaim
<1>12. ASSUME NEW r \in Callers, SecondRead(r), Watch PROVE TypeOK'
  <2>1. (path # None) \in BOOLEAN
    OBVIOUS
  <2>2. QED
    BY <1>1, <1>12, <2>1 DEF SecondRead
<1>4. ASSUME OperatorStep, Watch PROVE TypeOK'
  BY <1>1, <1>4 DEF OperatorStep, Engage, DisengagePath, DisengageGlob,
                    DisengageClaim, DisengageDone, DisengageRaises
<1>5. ASSUME NEW d \in Drills, Start(d), Watch PROVE TypeOK'
  BY <1>1, <1>5 DEF Start
<1>20. ASSUME NEW d \in Drills, EngageExclusive(d), Watch PROVE TypeOK'
  BY <1>1, <1>20 DEF EngageExclusive
<1>21. ASSUME NEW d \in Drills, EngageRaises(d), Watch PROVE TypeOK'
  BY <1>1, <1>21 DEF EngageRaises
<1>22. ASSUME NEW d \in Drills, CanaryDone(d), Watch PROVE TypeOK'
  BY <1>1, <1>22 DEF CanaryDone, Lift
<1>29. ASSUME NEW d \in Drills, CanaryRaises(d), Watch PROVE TypeOK'
  BY <1>1, <1>29 DEF CanaryRaises, Lift
<1>23. ASSUME NEW d \in Drills, Holds(d), Watch PROVE TypeOK'
  BY <1>1, <1>23 DEF Holds, ReadsMarker
<1>24. ASSUME NEW d \in Drills, ClaimStop(d), Watch PROVE TypeOK'
  BY <1>1, <1>24 DEF ClaimStop
<1>25. ASSUME NEW d \in Drills, Recheck(d), Watch PROVE TypeOK'
  BY <1>1, <1>25 DEF Recheck, ReadsMarker
<1>26. ASSUME NEW d \in Drills, UnlinkClaim(d), Watch PROVE TypeOK'
  BY <1>1, <1>26 DEF UnlinkClaim
<1>27. ASSUME NEW d \in Drills, PutBack(d), Watch PROVE TypeOK'
  BY <1>1, <1>27 DEF PutBack
<1>28. ASSUME NEW d \in Drills, PutBackRaises(d), Watch PROVE TypeOK'
  BY <1>1, <1>28 DEF PutBackRaises
<1>7. ASSUME NEW d \in Drills, Crash(d), Watch PROVE TypeOK'
  BY <1>1, <1>7 DEF Crash
<1>8. CASE UNCHANGED vars
  BY <1>8 DEF vars
<1>9. QED
  BY <1>2, <1>3, <1>10, <1>11, <1>12, <1>4, <1>5, <1>7, <1>8,
     <1>20, <1>21, <1>22, <1>23, <1>24, <1>25, <1>26, <1>27, <1>28,
     <1>29
  DEF Next, Step, IsEngaged, DrillStep

\* Every variable keeps its type.
THEOREM TypeCorrect == Spec => []TypeOK
<1>1. Init => TypeOK
  BY DEF Init, TypeOK, Callers, Contents, Finished
<1>2. QED
  BY <1>1, TypeStep, PTL DEF Spec

\* What the file operations leave true when only one drill runs at a time.
FileInv == OneRunning /\ DrillFiles /\ ReleaseUnwanted /\ StopLasts

\* What stands for the operator's stop is what is held in the operator's name.
LEMMA LastsStands == TypeOK => (StopLasts <=> OperatorStopStands)
BY DEF TypeOK, StopLasts, OperatorStopStands, Lasting, Held, Holders, Contents

\* Each step of a drill, of the operator and of a call keeps FileInv.
LEMMA FileStep ==
  ASSUME ~Overlap, TypeOK, FileInv, [Next]_vars
  PROVE  FileInv'
<1> USE DEF TypeOK, FileInv, OneRunning, DrillFiles, ReleaseUnwanted,
            StopLasts, Lasting, Running, Finished, Contents,
            fileVars, drillVars, operVars, readVars, Goto
<1>1. ASSUME NEW r \in Callers, Ask(r) \/ IsEngaged(r) PROVE FileInv'
  <2>1. UNCHANGED <<path, claim, dpc, owned, unread, opc, wanted>>
    BY <1>1 DEF Ask, IsEngaged, FirstRead, GlobClaims, StatClaim, SecondRead
  <2>2. QED
    BY <2>1
<1>2. CASE Engage
  BY <1>2 DEF Engage
<1>3. CASE DisengagePath
  BY <1>3 DEF DisengagePath
<1>4. CASE DisengageGlob
  BY <1>4 DEF DisengageGlob
<1>5. CASE DisengageClaim
  BY <1>5 DEF DisengageClaim
<1>6. CASE DisengageDone
  BY <1>6 DEF DisengageDone
<1>21. CASE DisengageRaises
  BY <1>21 DEF DisengageRaises
<1>7. ASSUME NEW d \in Drills, Start(d) PROVE FileInv'
  BY <1>7 DEF Start
<1>8. ASSUME NEW d \in Drills, EngageExclusive(d) PROVE FileInv'
  BY <1>8 DEF EngageExclusive
<1>9. ASSUME NEW d \in Drills, EngageRaises(d) PROVE FileInv'
  BY <1>9 DEF EngageRaises
<1>10. ASSUME NEW d \in Drills, CanaryDone(d) PROVE FileInv'
  BY <1>10 DEF CanaryDone, Lift
<1>20. ASSUME NEW d \in Drills, CanaryRaises(d) PROVE FileInv'
  BY <1>20 DEF CanaryRaises, Lift
<1>11. ASSUME NEW d \in Drills, Holds(d) PROVE FileInv'
  BY <1>11 DEF Holds, ReadsMarker
<1>12. ASSUME NEW d \in Drills, ClaimStop(d) PROVE FileInv'
  BY <1>12 DEF ClaimStop
<1>13. ASSUME NEW d \in Drills, Recheck(d) PROVE FileInv'
  BY <1>13 DEF Recheck, ReadsMarker
<1>14. ASSUME NEW d \in Drills, UnlinkClaim(d) PROVE FileInv'
  BY <1>14 DEF UnlinkClaim
<1>15. ASSUME NEW d \in Drills, PutBack(d) PROVE FileInv'
  BY <1>15 DEF PutBack
<1>16. ASSUME NEW d \in Drills, PutBackRaises(d) PROVE FileInv'
  BY <1>16 DEF PutBackRaises
<1>17. ASSUME NEW d \in Drills, Crash(d) PROVE FileInv'
  BY <1>17 DEF Crash
<1>18. CASE UNCHANGED vars
  BY <1>18 DEF vars
<1>19. QED
  BY <1>1, <1>2, <1>3, <1>4, <1>5, <1>6, <1>7, <1>8, <1>9, <1>10, <1>11,
     <1>12, <1>13, <1>14, <1>15, <1>16, <1>17, <1>18, <1>20, <1>21
  DEF Next, Step, OperatorStep, DrillStep

\* A stop the operator asked for stays in place until the operator releases it
\* (OperatorStopStands), for any number of drills run one after another.
THEOREM OperatorStopStays ==
  ASSUME ~Overlap
  PROVE  Spec => []OperatorStopStands
<1>1. Init => TypeOK /\ FileInv
  BY DEF Init, TypeOK, Callers, Contents, Finished, FileInv, OneRunning,
         DrillFiles, ReleaseUnwanted, StopLasts, Running
<1>2. TypeOK /\ FileInv /\ [Next]_vars => (TypeOK /\ FileInv)'
  BY TypeStep, FileStep
<1>3. TypeOK /\ FileInv => OperatorStopStands
  BY LastsStands DEF FileInv
<1>4. QED
  BY <1>1, <1>2, <1>3, PTL DEF Spec
-----------------------------------------------------------------------------
\* What the history of a call says about one step.
LEMMA LapsedStep ==
  ASSUME TypeOK, Watch, NEW r \in Callers, ~lapsed'[r],
         rpc'[r] \in {"glob", "stat", "answered"}
  PROVE  /\ ~lapsed[r]
         /\ rpc[r] # "answered" => InForce(r)'
BY DEF TypeOK, Watch

\* No step on the files hides the operator's stop from a call that is on its
\* way to it, as long as the operator wants it.
LEMMA SeesStep ==
  ASSUME ~Overlap, TypeOK, FileInv, wanted, wanted',
         NEW S \in SUBSET Drills, Sees(S),
         OperatorStep \/ \E d \in Drills : Start(d) \/ DrillStep(d) \/ Crash(d)
  PROVE  Sees(S)'
<1> USE DEF TypeOK, FileInv, OneRunning, DrillFiles, ReleaseUnwanted, Running,
            Finished, Sees, Lasting, PathStable, fileVars, drillVars, operVars,
            readVars, Goto
<1>1. CASE Engage
  BY <1>1 DEF Engage
<1>2. CASE DisengagePath
  BY <1>2 DEF DisengagePath
<1>3. CASE DisengageGlob
  BY <1>3 DEF DisengageGlob
<1>4. CASE DisengageClaim
  BY <1>4 DEF DisengageClaim
<1>5. CASE DisengageDone
  BY <1>5 DEF DisengageDone
<1>19. CASE DisengageRaises
  BY <1>19 DEF DisengageRaises
<1>6. ASSUME NEW d \in Drills, Start(d) PROVE Sees(S)'
  BY <1>6 DEF Start
<1>7. ASSUME NEW d \in Drills, EngageExclusive(d) PROVE Sees(S)'
  BY <1>7 DEF EngageExclusive
<1>8. ASSUME NEW d \in Drills, EngageRaises(d) PROVE Sees(S)'
  BY <1>8 DEF EngageRaises
<1>9. ASSUME NEW d \in Drills, CanaryDone(d) PROVE Sees(S)'
  BY <1>9 DEF CanaryDone, Lift
<1>18. ASSUME NEW d \in Drills, CanaryRaises(d) PROVE Sees(S)'
  BY <1>18 DEF CanaryRaises, Lift
<1>10. ASSUME NEW d \in Drills, Holds(d) PROVE Sees(S)'
  BY <1>10 DEF Holds, ReadsMarker
<1>11. ASSUME NEW d \in Drills, ClaimStop(d) PROVE Sees(S)'
  BY <1>11 DEF ClaimStop
<1>12. ASSUME NEW d \in Drills, Recheck(d) PROVE Sees(S)'
  BY <1>12 DEF Recheck, ReadsMarker
<1>13. ASSUME NEW d \in Drills, UnlinkClaim(d) PROVE Sees(S)'
  BY <1>13 DEF UnlinkClaim
<1>14. ASSUME NEW d \in Drills, PutBack(d) PROVE Sees(S)'
  BY <1>14 DEF PutBack
<1>15. ASSUME NEW d \in Drills, PutBackRaises(d) PROVE Sees(S)'
  BY <1>15 DEF PutBackRaises
<1>16. ASSUME NEW d \in Drills, Crash(d) PROVE Sees(S)'
  BY <1>16 DEF Crash
<1>17. QED
  BY <1>1, <1>2, <1>3, <1>4, <1>5, <1>6, <1>7, <1>8, <1>9, <1>10, <1>11,
     <1>12, <1>13, <1>14, <1>15, <1>16, <1>18, <1>19
  DEF OperatorStep, DrillStep

\* While a drill waits for its canary no claim holds its marker, so the only
\* file that can is the path, and nothing but its own link puts it there.
LEMMA NotHeldStep ==
  ASSUME ~Overlap, TypeOK, FileInv, NEW r \in Callers, r \notin Holders,
         r \in Drills => dpc[r] = "canary",
         OperatorStep \/ \E d \in Drills : Start(d) \/ DrillStep(d) \/ Crash(d)
  PROVE  r \notin Holders'
<1> USE DEF TypeOK, FileInv, OneRunning, DrillFiles, Running, Finished,
            Holders, Callers, fileVars, drillVars, operVars, readVars, Goto
<1>1. CASE OperatorStep
  BY <1>1 DEF OperatorStep, Engage, DisengagePath, DisengageGlob,
              DisengageClaim, DisengageDone, DisengageRaises
<1>2. ASSUME NEW d \in Drills, Start(d) \/ DrillStep(d) \/ Crash(d)
      PROVE  r \notin Holders'
  BY <1>2 DEF Start, DrillStep, Crash, EngageExclusive, EngageRaises,
              CanaryDone, CanaryRaises, Lift, Holds, ReadsMarker, ClaimStop,
              Recheck, UnlinkClaim, PutBack, PutBackRaises
<1>3. QED
  BY <1>1, <1>2

\* A call past its first read, which found no file at the path, can miss the
\* stop no more; a drill makes its call while it waits for its canary; and a
\* call that has answered "not engaged" was right to.
CallOK(r) ==
  /\ rpc[r] \in {"glob", "stat"} /\ ~lapsed[r] => wanted /\ r \notin Holders
  /\ rpc[r] = "glob" /\ ~lapsed[r] => Sees(Drills)
  /\ rpc[r] = "stat" /\ ~lapsed[r] => Sees(listed[r])
  /\ r \in Drills /\ rpc[r] \in {"first", "glob", "stat"} => dpc[r] = "canary"
  /\ rpc[r] = "answered" /\ ~answer[r] => lapsed[r]

\* One step keeps what is known of one call: its own steps, the steps of other
\* calls, and the steps on the files.
LEMMA CallStep ==
  ASSUME ~Overlap, TypeOK, TypeOK', FileInv, Next, NEW r \in Callers, CallOK(r)
  PROVE  CallOK(r)'
<1> USE DEF TypeOK, CallOK, fileVars, drillVars, operVars, readVars
<1>0. Watch
  BY DEF Next
<1>1. CASE Ask(r)
  BY <1>1 DEF Ask, MayAsk, Callers
<1>2. CASE FirstRead(r)
  <2>1. ASSUME ~lapsed'[r], rpc'[r] = "glob"
        PROVE  wanted' /\ r \notin Holders' /\ Sees(Drills)'
    <3>1. path = None /\ UNCHANGED <<path, claim, dpc, owned, unread, wanted>>
      BY <1>2, <2>1 DEF FirstRead, Answer
    <3>2. r \notin Holders
      BY <1>2, <3>1 DEF FirstRead, Holders, Callers, FileInv, DrillFiles
    <3>3. wanted
      BY <1>0, <1>2, <2>1, <3>1, <3>2, LapsedStep
      DEF FirstRead, InForce, Holders
    <3>4. \E e \in Drills : claim[e] \in Lasting
      BY <3>1, <3>3 DEF FileInv, StopLasts, Lasting
    <3>5. QED
      BY <3>1, <3>2, <3>3, <3>4 DEF Sees, Lasting, Holders
  <2>2. rpc'[r] \in {"glob", "answered"} /\ (rpc'[r] = "answered" => answer'[r])
    BY <1>2 DEF FirstRead, Answer
  <2>3. QED
    BY <1>2, <2>1, <2>2 DEF FirstRead
<1>3. CASE GlobClaims(r)
  <2>1. UNCHANGED <<path, claim, dpc, owned, unread, wanted>> /\ rpc'[r] = "stat"
    BY <1>3 DEF GlobClaims
  <2>2. listed'[r] = {d \in Drills : claim[d] # None}
    BY <1>3 DEF GlobClaims
  <2>3. ASSUME ~lapsed'[r]
        PROVE  wanted' /\ r \notin Holders' /\ Sees(listed[r])'
    <3>1. ~lapsed[r] /\ rpc[r] = "glob"
      BY <1>0, <1>3, <2>1, <2>3, LapsedStep DEF GlobClaims
    <3>2. QED
      BY <2>1, <2>2, <3>1 DEF Sees, Lasting, PathStable, Holders
  <2>4. QED
    BY <1>3, <2>1, <2>3 DEF GlobClaims
<1>4. CASE StatClaim(r)
  <2>1. UNCHANGED <<path, claim, dpc, owned, unread, wanted>> /\ rpc[r] = "stat"
    BY <1>4 DEF StatClaim
  <2>2. PICK d \in listed[r] :
          /\ listed' = [listed EXCEPT ![r] = @ \ {d}]
          /\ \/ claim[d] # None /\ Answer(r, TRUE)
             \/ claim[d] = None /\ UNCHANGED <<rpc, answer>>
    BY <1>4 DEF StatClaim
  <2>3. CASE claim[d] # None
    BY <2>1, <2>2, <2>3 DEF Answer
  <2>4. CASE claim[d] = None
    <3>1. rpc'[r] = "stat" /\ listed'[r] = listed[r] \ {d}
      BY <2>1, <2>2, <2>4
    <3>2. ASSUME ~lapsed'[r]
          PROVE  wanted' /\ r \notin Holders' /\ Sees(listed[r])'
      <4>1. ~lapsed[r]
        BY <1>0, <3>1, <3>2, LapsedStep
      <4>2. QED
        BY <2>1, <2>4, <3>1, <4>1 DEF Sees, Lasting, PathStable, Holders
    <3>3. QED
      BY <2>1, <3>1, <3>2
  <2>5. QED
    BY <2>3, <2>4
<1>5. CASE SecondRead(r)
  <2>1. rpc'[r] = "answered" /\ (answer'[r] <=> path # None)
    BY <1>5 DEF SecondRead, Answer
  <2>2. ~lapsed'[r] => ~lapsed[r]
    BY <1>0, <2>1, LapsedStep
  <2>3. ~lapsed[r] => path # None
    BY <1>5 DEF SecondRead, Sees, Lasting
  <2>4. QED
    BY <2>1, <2>2, <2>3
<1>6. ASSUME NEW q \in Callers, q # r, Ask(q) \/ IsEngaged(q)
      PROVE  CallOK(r)'
  <2>1. UNCHANGED <<path, claim, dpc, owned, unread, wanted>>
    BY <1>6 DEF Ask, IsEngaged, FirstRead, GlobClaims, StatClaim, SecondRead
  <2>2. rpc'[r] = rpc[r] /\ listed'[r] = listed[r] /\ answer'[r] = answer[r]
    BY <1>6 DEF Ask, IsEngaged, FirstRead, GlobClaims, StatClaim, SecondRead,
                Answer
  <2>3. QED
    BY <1>0, <2>1, <2>2, LapsedStep DEF Watch, Sees, Lasting, PathStable, Holders
<1>7. CASE OperatorStep \/ \E d \in Drills : Start(d) \/ DrillStep(d) \/ Crash(d)
  <2>1. UNCHANGED <<listed, answer>> /\ (rpc'[r] = rpc[r] \/ rpc'[r] = "idle")
    BY <1>7 DEF OperatorStep, Engage, DisengagePath, DisengageGlob,
                DisengageClaim, DisengageDone, DisengageRaises, Start, DrillStep,
                Crash, EngageExclusive, EngageRaises, CanaryDone, CanaryRaises,
                Lift, Holds, ReadsMarker, ClaimStop, Recheck, UnlinkClaim,
                PutBack, PutBackRaises
  <2>2. CASE rpc'[r] = "idle"
    BY <2>2
  <2>5. r \in Drills /\ rpc'[r] \in {"first", "glob", "stat"}
          => dpc'[r] = "canary"
    BY <1>7, <2>1
    DEF OperatorStep, Engage, DisengagePath, DisengageGlob, DisengageClaim,
        DisengageDone, DisengageRaises, Start, DrillStep, Crash, Goto,
        EngageExclusive, EngageRaises, CanaryDone, CanaryRaises, Lift, Holds,
        ReadsMarker, ClaimStop, Recheck, UnlinkClaim, PutBack, PutBackRaises
  <2>3. CASE rpc'[r] = rpc[r] /\ rpc[r] \in {"glob", "stat"} /\ ~lapsed'[r]
    <3>1. ~lapsed[r] /\ InForce(r)'
      BY <1>0, <2>3, LapsedStep
    <3>2. wanted /\ r \notin Holders
      BY <2>3, <3>1
    <3>3. r \notin Holders'
      BY <1>7, <2>3, <3>2, NotHeldStep
    <3>4. wanted'
      BY <3>1, <3>3 DEF InForce
    <3>5. rpc[r] = "glob" => Sees(Drills)'
      BY <1>7, <3>1, <3>2, <3>4, SeesStep
    <3>6. rpc[r] = "stat" => Sees(listed[r])'
      <4>1. ASSUME rpc[r] = "stat" PROVE Sees(listed[r])'
        <5>1. PICK S \in SUBSET Drills : S = listed[r] /\ Sees(S)
          BY <3>1, <4>1
        <5>2. Sees(S)'
          BY <1>7, <3>2, <3>4, <5>1, SeesStep
        <5>3. S = listed'[r]
          BY <2>1, <5>1
        <5>4. QED
          BY <5>2, <5>3 DEF Sees, Lasting
      <4>2. QED
        BY <4>1
    <3>7. QED
      BY <2>3, <2>5, <3>3, <3>4, <3>5, <3>6
  <2>4. CASE /\ rpc'[r] = rpc[r]
             /\ rpc[r] \in {"glob", "stat"} => lapsed'[r]
    BY <1>0, <2>1, <2>4, <2>5, LapsedStep
  <2>6. QED
    BY <2>1, <2>2, <2>3, <2>4
<1>8. QED
  BY <1>1, <1>2, <1>3, <1>4, <1>5, <1>6, <1>7 DEF Next, Step, IsEngaged

\* is_engaged sees every stop that stands from before the call to its end
\* (StopHonoured), for any number of callers and of drills run one by one.
THEOREM EveryCallHonoursTheStop ==
  ASSUME ~Overlap
  PROVE  Spec => []StopHonoured
<1> DEFINE Inv == TypeOK /\ FileInv /\ \A r \in Callers : CallOK(r)
<1>1. Init => Inv
  BY DEF Init, TypeOK, Callers, Contents, Finished, FileInv, OneRunning,
         DrillFiles, ReleaseUnwanted, StopLasts, Running, CallOK
<1>2. Inv /\ [Next]_vars => Inv'
  <2> SUFFICES ASSUME Inv, [Next]_vars PROVE Inv'
    OBVIOUS
  <2>1. TypeOK' /\ FileInv'
    BY TypeStep, FileStep
  <2>2. CASE Next
    BY <2>1, <2>2, CallStep DEF Callers
  <2>3. CASE UNCHANGED vars
    BY <2>1, <2>3 DEF vars, Callers, CallOK, Sees, Lasting, PathStable, Holders
  <2>4. QED
    BY <2>1, <2>2, <2>3
<1>3. Inv => StopHonoured
  BY DEF CallOK, StopHonoured
<1>4. QED
  BY <1>1, <1>2, <1>3, PTL DEF Spec
-----------------------------------------------------------------------------
\* What a step on the files does to the stops held, by what it does to the
\* contents: nothing, one drill's marker added or gone, or some contents gone.
LEMMA HeldStep ==
  ASSUME DistinctContents, UNCHANGED unread
  PROVE  /\ Holders' = Holders => Held' = Held
         /\ Holders' \subseteq Holders => Held' \subseteq Held
         /\ \A d \in Drills \ unread :
              /\ Holders' = Holders \union {d} => Held' = Held \union {d}
              /\ Holders' = Holders \ {d} => Held' = Held \ {d}
BY DEF Held, DistinctContents

\* What a drill that reads its marker does to the stops held: nothing, or it
\* leaves its own to the operator.
LEMMA ReadStep ==
  ASSUME NEW d \in Drills, NEW content, content \in Holders \union {None},
         NEW here, NEW otherwise, ReadsMarker(d, content, here, otherwise),
         UNCHANGED <<path, claim, wanted>>
  PROVE  Abstract!DrillLeaves(d) \/ UNCHANGED <<Held, wanted>>
<1>1. Holders' = Holders
  BY DEF Holders
<1>2. CASE UNCHANGED unread
  BY <1>1, <1>2 DEF Held
<1>3. CASE content = d /\ unread' = unread \union {d}
  <2>1. d \in Holders /\ d # Operator
    BY <1>3
  <2>2. CASE d \in unread
    BY <1>1, <1>3, <2>2 DEF Held
  <2>3. CASE d \notin unread
    <3>1. d \in Held /\ Held' = (Held \ {d}) \union {Operator}
      BY <1>1, <1>3, <2>1, <2>3 DEF Held
    <3>2. QED
      BY <3>1 DEF Abstract!DrillLeaves
  <2>4. QED
    BY <2>2, <2>3
<1>4. QED
  BY <1>2, <1>3 DEF ReadsMarker

\* The files implement the abstract switch: every step takes, lifts or leaves
\* stops as StopSwitch allows (ImplementsStopSwitch).
THEOREM FilesImplementStopSwitch ==
  ASSUME ~Overlap
  PROVE  Spec => ImplementsStopSwitch
<1>1. Init => Abstract!Init
  BY DEF Init, Abstract!Init, Holders, Held
<1>2. TypeOK /\ FileInv /\ [Next]_vars => [Abstract!Next]_<<Held, wanted>>
  <2> SUFFICES ASSUME TypeOK, FileInv, [Next]_vars
               PROVE  [Abstract!Next]_<<Held, wanted>>
    OBVIOUS
  <2> USE DEF TypeOK, FileInv, DrillFiles, Contents, Finished, fileVars,
              drillVars, operVars, readVars
  <2>1. ASSUME UNCHANGED <<path, claim, unread, wanted>>
        PROVE  UNCHANGED <<Held, wanted>>
    BY <2>1 DEF Held, Holders
  <2>2. CASE Engage
    <3>1. Holders \ {path} \subseteq Holders' /\ Operator \in Holders'
          /\ Holders' \subseteq Holders \union {Operator}
      BY <2>2 DEF Engage, Holders
    <3>2. Abstract!Kill
      <4>1. wanted' = TRUE /\ unread' = unread /\ path' = Operator
        BY <2>2 DEF Engage
      <4>2. Operator \in Held' /\ Held' \subseteq Held \union {Operator}
        BY <3>1, <4>1 DEF Held
      <4>3. Held \ Held' \subseteq Drills
        BY <3>1, <4>1, <4>2 DEF Held, Holders
      <4>4. QED
        BY <4>1, <4>2, <4>3 DEF Abstract!Kill
    <3>3. QED
      BY <3>2 DEF Abstract!Next
  <2>3. CASE DisengagePath
    <3>1. Holders' \subseteq Holders /\ unread' = unread /\ wanted' = FALSE
      BY <2>3 DEF DisengagePath, Holders
    <3>2. Abstract!Resume
      BY <3>1, HeldStep DEF Abstract!Resume
    <3>3. QED
      BY <3>2 DEF Abstract!Next
  <2>4. CASE DisengageClaim
    <3>1. Holders' \subseteq Holders /\ UNCHANGED <<unread, wanted>> /\ ~wanted
      BY <2>4 DEF DisengageClaim, Holders, ReleaseUnwanted
    <3>2. Abstract!Lift
      BY <3>1, HeldStep DEF Abstract!Lift
    <3>3. QED
      BY <3>2 DEF Abstract!Next
  <2>5. ASSUME NEW d \in Drills, EngageExclusive(d) \/ EngageRaises(d)
        PROVE  [Abstract!Next]_<<Held, wanted>>
    <3>1. UNCHANGED <<claim, unread, wanted>> /\ d \notin unread
      BY <2>5 DEF EngageExclusive, EngageRaises
    <3>2. CASE path = None /\ path' = d
      <4>1. Holders' = Holders \union {d}
        BY <3>1, <3>2 DEF Holders
      <4>2. Abstract!DrillEngage(d)
        BY <3>1, <4>1, HeldStep DEF Abstract!DrillEngage
      <4>3. QED
        BY <4>2 DEF Abstract!Next
    <3>3. CASE UNCHANGED path
      BY <2>1, <3>1, <3>3
    <3>4. QED
      BY <2>5, <3>2, <3>3 DEF EngageExclusive, EngageRaises
  <2>6. ASSUME NEW d \in Drills, ClaimStop(d)
        PROVE  UNCHANGED <<Held, wanted>>
    <3>1. Holders' = Holders /\ UNCHANGED <<unread, wanted>>
      BY <2>6 DEF ClaimStop, Holders
    <3>2. QED
      BY <3>1, HeldStep
  <2>10. ASSUME NEW d \in Drills, Holds(d) \/ Recheck(d)
         PROVE  [Abstract!Next]_<<Held, wanted>>
    <3>1. UNCHANGED <<path, claim, wanted>>
      BY <2>10 DEF Holds, Recheck
    <3>2. Abstract!DrillLeaves(d) \/ UNCHANGED <<Held, wanted>>
      <4>1. path \in Holders \union {None} /\ claim[d] \in Holders \union {None}
        BY DEF Holders
      <4>2. CASE Holds(d)
        BY <3>1, <4>1, <4>2, ReadStep DEF Holds
      <4>3. CASE Recheck(d)
        BY <3>1, <4>1, <4>3, ReadStep DEF Recheck
      <4>4. QED
        BY <2>10, <4>2, <4>3
    <3>3. QED
      BY <3>2 DEF Abstract!Next
  <2>7. ASSUME NEW d \in Drills, UnlinkClaim(d)
        PROVE  [Abstract!Next]_<<Held, wanted>>
    <3>1. claim[d] \in {d, None} /\ d \notin unread
          /\ UNCHANGED <<path, unread, wanted>>
      BY <2>7 DEF UnlinkClaim
    <3>2. CASE UNCHANGED claim
      BY <2>1, <3>1, <3>2
    <3>3. CASE claim[d] # None /\ claim' = [claim EXCEPT ![d] = None]
      <4>1. \A e \in Drills \ {d} : claim[e] # d /\ claim'[e] = claim[e]
        BY <3>3
      <4>2. Holders' = Holders \ {d} \/ Holders' = Holders
        BY <3>1, <3>3, <4>1 DEF Holders
      <4>3. Abstract!DrillLift(d) \/ UNCHANGED <<Held, wanted>>
        BY <3>1, <4>2, HeldStep DEF Abstract!DrillLift
      <4>4. QED
        BY <4>3 DEF Abstract!Next
    <3>4. QED
      BY <2>7, <3>2, <3>3 DEF UnlinkClaim
  <2>8. ASSUME NEW d \in Drills, PutBack(d)
        PROVE  [Abstract!Next]_<<Held, wanted>>
    <3>1. /\ claim[d] \in {Operator} \union unread
          /\ path' = claim[d] /\ claim' = [claim EXCEPT ![d] = None]
          /\ UNCHANGED <<unread, wanted>>
      BY <2>8 DEF PutBack
    <3>2. \A e \in Drills \ {d} : claim'[e] = claim[e]
      BY <3>1
    <3>3. Holders \ {path} \subseteq Holders' /\ Holders' \subseteq Holders
      BY <3>1, <3>2 DEF Holders
    <3>4. Operator \in Held /\ Operator \in Held'
      BY <3>1 DEF Held, Holders
    <3>5. CASE path \in {Operator, None} \union unread \/ path \in Holders'
      <4>1. Held' = Held
        BY <3>1, <3>3, <3>4, <3>5 DEF Held, Holders
      <4>2. QED
        BY <3>1, <4>1
    <3>6. CASE path \in Drills \ unread /\ path \notin Holders'
      <4>1. PICK e \in Drills \ unread : e = path
        BY <3>6
      <4>2. Holders' = Holders \ {e}
        BY <3>3, <3>6, <4>1
      <4>3. Abstract!DrillLift(e)
        BY <3>1, <4>2, HeldStep DEF Abstract!DrillLift
      <4>4. QED
        BY <4>3 DEF Abstract!Next
    <3>7. QED
      BY <3>5, <3>6
  <2>11. CASE \/ DisengageGlob \/ DisengageDone \/ DisengageRaises
              \/ \E r \in Callers : Ask(r) \/ IsEngaged(r)
              \/ \E d \in Drills : \/ Start(d) \/ Crash(d) \/ CanaryDone(d)
                                   \/ CanaryRaises(d) \/ PutBackRaises(d)
    <3>1. UNCHANGED <<path, claim, unread, wanted>>
      BY <2>11 DEF DisengageGlob, DisengageDone, DisengageRaises, Ask, IsEngaged,
                   FirstRead, GlobClaims, StatClaim, SecondRead, Start, Crash,
                   CanaryDone, CanaryRaises, PutBackRaises
    <3>2. QED
      BY <2>1, <3>1
  <2>12. CASE UNCHANGED vars
    BY <2>1, <2>12 DEF vars
  <2>9. QED
    BY <2>2, <2>3, <2>4, <2>5, <2>6, <2>7, <2>8, <2>10, <2>11, <2>12
    DEF Next, Step, OperatorStep, DrillStep
<1>3. Init => TypeOK /\ FileInv
  BY DEF Init, TypeOK, Callers, Contents, Finished, FileInv, OneRunning,
         DrillFiles, ReleaseUnwanted, StopLasts, Running
<1>4. TypeOK /\ FileInv /\ [Next]_vars => (TypeOK /\ FileInv)'
  BY TypeStep, FileStep
<1>5. QED
  BY <1>1, <1>2, <1>3, <1>4, PTL
  DEF Spec, ImplementsStopSwitch, Abstract!Spec, Abstract!stopVars
=============================================================================

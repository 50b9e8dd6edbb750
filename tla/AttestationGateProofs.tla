----------------------- MODULE AttestationGateProofs -----------------------
(***************************************************************************)
(* Three properties of the gate, for any number of envelopes, restarts,    *)
(* crashes, power losses, failed writes and receipts, clock steps, and any *)
(* bound on the nonces that are remembered.                                *)
(*                                                                         *)
(* NoRollback rests on the watermark alone.  It is inductive with: every   *)
(* watermark, in memory, in the file and on the disk, covers what was      *)
(* admitted; the envelope being admitted is ahead of that; and before the  *)
(* memory is touched the disk already holds its mark.                      *)
(*                                                                         *)
(* NotLockedOut is the other direction: watermark, epoch and nonces all    *)
(* come from envelopes that passed the checks, so a newer one meets        *)
(* nothing that refuses it.  EvictionReceipted needs both: what is         *)
(* verified is new, and what is remembered is the envelope it names.       *)
(***************************************************************************)
EXTENDS AttestationGate, SequenceTheorems, FiniteSetTheorems, TLAPS

Covers(m) == \A i \in 1..Len(admitted) :
               m # None /\ ~Before(m, Mark(admitted[i]))

Ahead(e) == \A i \in 1..Len(admitted) : Before(Mark(admitted[i]), Mark(e))

GateInv ==
  /\ NoRollback
  /\ Covers(file) /\ Covers(disk)
  /\ pc # "down" => Covers(mark)
  /\ pc \in {"replace", "sync", "commit"} => Ahead(cur)
  /\ pc \in {"sync", "commit"} => file = Mark(cur)
  /\ pc = "commit" => disk = Mark(cur)

-----------------------------------------------------------------------------
\* Marks are ordered as the pairs they are.
LEMMA MarkType == \A e \in Envelopes : Mark(e) \in Marks
  BY DEF Mark, Marks, Envelopes

LEMMA BeforeOrder ==
  ASSUME NEW l \in Marks, NEW m \in Marks, NEW n \in Marks
  PROVE  /\ ~Before(m, m)
         /\ ~Before(m, l) /\ Before(m, n) => Before(l, n)
         /\ Before(l, m) => ~Before(m, l)
  BY DEF Before, Marks, Never

LEMMA AdmittedType ==
  ASSUME TypeOK, NEW i \in 1..Len(admitted)
  PROVE  admitted[i] \in Envelopes /\ Mark(admitted[i]) \in Marks
<1>1. admitted[i] \in Envelopes
  BY ElementOfSeq DEF TypeOK
<1> QED
  BY <1>1, MarkType

-----------------------------------------------------------------------------
LEMMA SubmittedType == TypeOK => issued \union Forged \subseteq Envelopes
<1> SUFFICES ASSUME TypeOK, NEW e \in Forged PROVE e \in Envelopes
  BY DEF TypeOK
<1>1. now + TTL \in Nat /\ MaxEnvelopes + 1 \in Nat /\ now \in Nat
  BY GateAssumption DEF TypeOK
<1> QED
  BY <1>1 DEF Forged, Envelopes

LEMMA InitTypes == Init => TypeOK
<1> SUFFICES ASSUME Init PROVE TypeOK
  OBVIOUS
<1>1. file \in Marks \union {None}
  BY GateAssumption DEF Init, Marks, Never
<1>2. admitted \in Seq(Envelopes)
  BY EmptySeq DEF Init
<1>3. IsFiniteSet(issued)
  BY FS_EmptySet DEF Init
<1>4. pin \in Nat \union {None}
  BY DEF Init, Expected
<1> QED
  BY GateAssumption, <1>1, <1>2, <1>3, <1>4 DEF Init, TypeOK

LEMMA NextTypes == TypeOK /\ [Next]_vars => TypeOK'
<1> SUFFICES ASSUME TypeOK, [Next]_vars PROVE TypeOK'
  OBVIOUS
<1>0. pinned' \in BOOLEAN
  BY DEF TypeOK, Next, vars
<1> USE DEF TypeOK, clockVars, obsVars, memVars, diskVars, histVars
<1>1. CASE Tick
  BY <1>0, <1>1 DEF Tick
<1>2. CASE SetBack
  BY <1>0, <1>2 DEF SetBack
<1>3. CASE Observe
  <2>1. /\ now + TTL \in Nat /\ sequence + 1 \in Nat
        /\ Cardinality(issued) + 1 \in Nat
        /\ (IF pinned THEN 1 ELSE life) \in Nat
    BY GateAssumption, FS_CardinalityType
  <2> DEFINE e == [signer |-> Key, key |-> Key,
                   epoch |-> IF pinned THEN 1 ELSE life, at |-> now,
                   until |-> now + TTL, frame |-> sequence + 1,
                   nonce |-> Cardinality(issued) + 1]
  <2>2. e \in Envelopes
    BY <2>1 DEF Envelopes
  <2>3. issued' = issued \union {e}
    BY <1>3 DEF Observe
  <2> HIDE DEF e
  <2>4. issued' \subseteq Envelopes /\ IsFiniteSet(issued')
    BY <2>2, <2>3, FS_AddElement
  <2> QED
    BY <1>0, <1>3, <2>1, <2>4 DEF Observe
<1>4. CASE ObserverRestart
  BY <1>0, <1>4 DEF ObserverRestart
<1>5. ASSUME NEW e \in issued \union Forged, Refuse(e) PROVE TypeOK'
  BY <1>0, <1>5 DEF Refuse
<1>6. ASSUME NEW e \in issued \union Forged, Accept(e) PROVE TypeOK'
  <2>1. e \in Envelopes /\ None \notin Envelopes
    BY SubmittedType, NoneIsNone
  <2> QED
    BY <1>0, <1>6, <2>1 DEF Accept
<1>7. CASE ReplaceFile
  BY <1>0, <1>7, MarkType DEF ReplaceFile
<1>8. CASE SyncDir
  BY <1>0, <1>8 DEF SyncDir
<1>9. CASE WriteFails
  BY <1>0, <1>9 DEF WriteFails, EndCall
<1>10. CASE Commit
  <2>1. cur \in Envelopes
    BY <1>10 DEF Commit
  <2>2. mark' \in Marks /\ admitted' \in Seq(Envelopes)
    BY <1>10, <2>1, MarkType, AppendProperties DEF Commit
  <2>3. pin' \in Nat \union {None}
    BY <1>10, <2>1 DEF Commit, Envelopes
  <2> QED
    BY <1>0, <1>10, <2>2, <2>3 DEF Commit, EndCall
<1>11. CASE Start
  BY <1>0, <1>11 DEF Start, Expected
<1>12. CASE Crash
  BY <1>0, <1>12 DEF Crash, Die, EndCall, Expected
<1>13. CASE PowerLoss
  BY <1>0, <1>13 DEF PowerLoss, Die, EndCall, Expected
<1>14. CASE UNCHANGED vars
  BY <1>0, <1>14 DEF vars
<1> QED
  BY <1>0, <1>1, <1>2, <1>3, <1>4, <1>5, <1>6, <1>7, <1>8, <1>9, <1>10, <1>11,
     <1>12, <1>13, <1>14 DEF Next, Step, Admit, GateStep

\* The clock, the observer's and the gate's memory, the state file and the
\* admitted envelopes keep their types in every step of attestation_gate.py
\* and services/observer.py.
THEOREM TypeCorrect == Spec => []TypeOK
  BY InitTypes, NextTypes, PTL DEF Spec

-----------------------------------------------------------------------------
\* What a step leaves alone, it leaves as good as it was.
LEMMA Untouched ==
  ASSUME GateInv,
         UNCHANGED <<pc, cur, mark, file, disk, admitted>>
  PROVE  GateInv'
  BY DEF GateInv, NoRollback, Covers, Ahead

\* An envelope that passes the checks is ahead of everything admitted.
LEMMA PassingIsAhead ==
  ASSUME TypeOK, Covers(mark), NEW e \in Envelopes, Advances(e)
  PROVE  Ahead(e)
<1> SUFFICES ASSUME NEW i \in 1..Len(admitted)
             PROVE  Before(Mark(admitted[i]), Mark(e))
  BY DEF Ahead
<1> DEFINE a == Mark(admitted[i])
<1>1. mark # None /\ ~Before(mark, a) /\ mark \in Marks
  BY DEF Covers, TypeOK
<1>2. a \in Marks /\ a.at \in Nat /\ Mark(e) \in Marks
  BY AdmittedType, MarkType DEF Mark, Envelopes
<1> HIDE DEF a
<1>3. mark.at # Never
  BY <1>1, <1>2 DEF Before, Never, Marks
<1>4. Before(mark, Mark(e))
  BY <1>1, <1>3 DEF Advances
<1> QED
  BY <1>1, <1>2, <1>4, BeforeOrder DEF a

\* The watermark of an envelope ahead of everything covers everything.
LEMMA AheadCovers ==
  ASSUME TypeOK, NEW e \in Envelopes, Ahead(e)
  PROVE  Covers(Mark(e))
<1> SUFFICES ASSUME NEW i \in 1..Len(admitted)
             PROVE  Mark(e) # None /\ ~Before(Mark(e), Mark(admitted[i]))
  BY DEF Covers
<1>1. Mark(admitted[i]) \in Marks /\ Mark(e) \in Marks
  BY AdmittedType, MarkType
<1>2. Before(Mark(admitted[i]), Mark(e))
  BY DEF Ahead
<1> QED
  BY <1>1, <1>2, BeforeOrder, NoneIsNone

\* Admitting an envelope that is ahead keeps the order, and its own watermark
\* covers it too.
LEMMA AdmittedNext ==
  ASSUME TypeOK, NoRollback, cur \in Envelopes, Ahead(cur),
         admitted' = Append(admitted, cur)
  PROVE  /\ NoRollback'
         /\ \A i \in 1..Len(admitted') :
              Mark(cur) # None /\ ~Before(Mark(cur), Mark(admitted'[i]))
<1>1. /\ Len(admitted) \in Nat /\ Len(admitted') = Len(admitted) + 1
      /\ \A i \in 1..Len(admitted) : admitted'[i] = admitted[i]
      /\ admitted'[Len(admitted) + 1] = cur
  BY AppendProperties, LenProperties DEF TypeOK
<1>2. NoRollback'
  <2> SUFFICES ASSUME NEW i \in 1..Len(admitted'), NEW j \in 1..Len(admitted'),
                      i < j
               PROVE  Before(Mark(admitted'[i]), Mark(admitted'[j]))
    BY DEF NoRollback, Mark, Before
  <2>1. i \in 1..Len(admitted) /\ admitted'[i] = admitted[i]
    BY <1>1
  <2>2. CASE j \in 1..Len(admitted)
    BY <1>1, <2>1, <2>2 DEF NoRollback
  <2>3. CASE j = Len(admitted) + 1
    BY <1>1, <2>1, <2>3 DEF Ahead
  <2> QED
    BY <1>1, <2>2, <2>3
<1>3. ASSUME NEW i \in 1..Len(admitted')
      PROVE  Mark(cur) # None /\ ~Before(Mark(cur), Mark(admitted'[i]))
  <2>1. Mark(cur) \in Marks
    BY MarkType
  <2>2. CASE i \in 1..Len(admitted)
    BY <1>1, <2>2, AheadCovers DEF Covers
  <2>3. CASE i = Len(admitted) + 1
    BY <1>1, <2>1, <2>3, BeforeOrder, NoneIsNone
  <2> QED
    BY <1>1, <2>2, <2>3
<1> QED
  BY <1>2, <1>3

LEMMA NextKeeps ==
  ASSUME TypeOK, GateInv, [Next]_vars
  PROVE  GateInv'
<1>1. CASE Tick \/ SetBack \/ Observe \/ ObserverRestart \/ UNCHANGED vars
  <2>1. UNCHANGED <<pc, cur, mark, file, disk, admitted>>
    BY <1>1 DEF Tick, SetBack, Observe, ObserverRestart, vars, clockVars,
                obsVars, memVars, diskVars, histVars
  <2> QED
    BY <2>1, Untouched
<1>2. ASSUME NEW e \in issued \union Forged, Refuse(e) PROVE GateInv'
  <2>1. UNCHANGED <<pc, cur, mark, file, disk, admitted>>
    BY <1>2 DEF Refuse, memVars, diskVars
  <2> QED
    BY <2>1, Untouched
<1>3. ASSUME NEW e \in issued \union Forged, Accept(e) PROVE GateInv'
  <2>1. Ahead(e)
    BY <1>3, SubmittedType, PassingIsAhead DEF Accept, Passes, GateInv
  <2>2. /\ pc' = "replace" /\ cur' = e
        /\ UNCHANGED <<mark, file, disk, admitted>>
    BY <1>3 DEF Accept, memVars, diskVars
  <2>3. Covers(mark)
    BY <1>3 DEF Accept, GateInv
  <2> QED
    BY <2>1, <2>2, <2>3 DEF GateInv, NoRollback, Covers, Ahead
<1>4. CASE ReplaceFile
  <2>1. Covers(Mark(cur)) /\ Ahead(cur) /\ Covers(mark)
    BY <1>4, AheadCovers DEF ReplaceFile, GateInv, TypeOK
  <2>2. /\ pc' = "sync" /\ file' = Mark(cur)
        /\ UNCHANGED <<cur, mark, disk, admitted>>
    BY <1>4 DEF ReplaceFile, memVars, histVars
  <2> QED
    BY <2>1, <2>2 DEF GateInv, NoRollback, Covers, Ahead
<1>5. CASE SyncDir
  <2>1. /\ pc' = "commit" /\ disk' = file
        /\ UNCHANGED <<cur, mark, file, admitted>>
    BY <1>5 DEF SyncDir, memVars, histVars
  <2>2. Ahead(cur) /\ Covers(mark) /\ file = Mark(cur)
    BY <1>5 DEF SyncDir, GateInv
  <2> QED
    BY <2>1, <2>2 DEF GateInv, NoRollback, Covers, Ahead
<1>6. CASE WriteFails
  <2>1. /\ pc' = "idle" /\ UNCHANGED <<mark, file, disk, admitted>>
    BY <1>6 DEF WriteFails, EndCall, memVars, diskVars, histVars
  <2>2. Covers(mark)
    BY <1>6 DEF WriteFails, GateInv
  <2> QED
    BY <2>1, <2>2 DEF GateInv, NoRollback, Covers
<1>7. CASE Commit
  <2>1. /\ pc' = "idle" /\ mark' = Mark(cur) /\ UNCHANGED <<file, disk>>
    BY <1>7 DEF Commit, EndCall, diskVars
  <2>2. /\ cur \in Envelopes /\ Ahead(cur)
        /\ file = Mark(cur) /\ disk = Mark(cur)
    BY <1>7 DEF Commit, GateInv, TypeOK
  <2>3. CASE admitted' = Append(admitted, cur)
    BY <2>1, <2>2, <2>3, AdmittedNext DEF GateInv, Covers
  <2>4. CASE admitted' = admitted
    <3>1. Covers(Mark(cur))
      BY <2>2, AheadCovers
    <3> QED
      BY <2>1, <2>2, <2>4, <3>1 DEF GateInv, NoRollback, Covers
  <2> QED
    BY <1>7, <2>3, <2>4 DEF Commit
<1>8. CASE Start
  BY <1>8 DEF Start, diskVars, GateInv, NoRollback, Covers
<1>9. CASE Crash
  BY <1>9 DEF Crash, Die, EndCall, diskVars, histVars, GateInv, NoRollback,
              Covers
<1>10. CASE PowerLoss
  BY <1>10 DEF PowerLoss, Die, EndCall, histVars, GateInv, NoRollback, Covers
<1> QED
  BY <1>1, <1>2, <1>3, <1>4, <1>5, <1>6, <1>7, <1>8, <1>9, <1>10
  DEF Next, Step, Admit, GateStep

\* admit returns envelopes in the order they were issued and none twice, over
\* any restarts, crashes, power losses and failed writes of the gate, and
\* with any number of remembered nonces (_advances, _write_state).
THEOREM NoEnvelopeReturns == Spec => []NoRollback
<1>1. Init => GateInv
  BY DEF Init, GateInv, NoRollback, Covers
<1>2. TypeOK /\ GateInv /\ [Next]_vars => GateInv'
  BY NextKeeps
<1>3. GateInv => NoRollback
  BY DEF GateInv
<1> QED
  BY <1>1, <1>2, <1>3, TypeCorrect, PTL DEF Spec

-----------------------------------------------------------------------------
(***************************************************************************)
(* Who is let in, and what is forgotten.  All that the gate holds comes    *)
(* from envelopes that passed its checks, and those were signed by the     *)
(* observer: none of the planner's own ever leaves a trace.                *)
(***************************************************************************)
IssuedInv ==
  /\ \A e \in issued : /\ e.signer = Key /\ e.key = Key
                       /\ pinned => e.epoch = 1
                       /\ e.nonce \in 1..Cardinality(issued)
  /\ \A e, f \in issued : e.nonce = f.nonce => e = f

VerifiedInv ==
  /\ \A v \in verified : v[1] \in issued /\ v[2] <= starts
  /\ pc \in {"replace", "sync", "commit"} => <<cur, starts>> \in verified

Vouched(m) == m # None /\ m.at # Never => \E v \in verified : m = Mark(v[1])

MarkInv == Vouched(mark) /\ Vouched(file) /\ Vouched(disk)

PinInv ==
  IF pinned THEN pin = 1
  ELSE pin # None => \E v \in verified : v[2] = starts /\ v[1].epoch = pin

SeenInv ==
  \A i \in DOMAIN seen :
    i \in Nat \ {0} /\ \E v \in verified : seen[i] = v[1]

WelcomeInv == IssuedInv /\ VerifiedInv /\ MarkInv /\ PinInv /\ SeenInv

\* The two that eviction needs besides.
MomentInv == pc \in {"replace", "sync", "commit"} => moment <= latest

ForgottenInv ==
  pc # "down" => \A e \in Mine :
    latest < e.until => Remembered(e) \/ e.nonce \in dropped

LEMMA IssuedKept ==
  ASSUME TypeOK, IssuedInv, [Next]_vars
  PROVE  IssuedInv'
<1>0. pinned' = pinned
  BY DEF Next, vars
<1>1. CASE issued' = issued
  BY <1>0, <1>1 DEF IssuedInv
<1>2. CASE Observe
  <2> DEFINE n == Cardinality(issued)
             e == [signer |-> Key, key |-> Key,
                   epoch |-> IF pinned THEN 1 ELSE life, at |-> now,
                   until |-> now + TTL, frame |-> sequence + 1,
                   nonce |-> n + 1]
  <2>1. issued' = issued \union {e}
    BY <1>2 DEF Observe
  <2>2. n \in Nat
    BY FS_CardinalityType DEF TypeOK
  <2>3. /\ e.signer = Key /\ e.key = Key /\ e.nonce = n + 1
        /\ pinned => e.epoch = 1
    OBVIOUS
  <2>4. \A f \in issued : f.nonce \in 1..n
    BY DEF IssuedInv
  <2> HIDE DEF e
  <2>5. e \notin issued
    BY <2>2, <2>3, <2>4
  <2>6. Cardinality(issued') = n + 1
    BY <2>1, <2>5, FS_AddElement DEF TypeOK
  <2> HIDE DEF n
  <2>7. \A f \in issued' : f.nonce \in 1..(n + 1)
    BY <2>1, <2>2, <2>3, <2>4
  <2>8. \A f, g \in issued' : f.nonce = g.nonce => f = g
    BY <2>1, <2>2, <2>3, <2>4 DEF IssuedInv
  <2>9. \A f \in issued' : f.signer = Key /\ f.key = Key /\ (pinned => f.epoch = 1)
    BY <2>1, <2>3 DEF IssuedInv
  <2> QED
    BY <1>0, <2>6, <2>7, <2>8, <2>9 DEF IssuedInv
<1>3. issued' = issued \/ Observe
  BY DEF Next, Step, Tick, SetBack, ObserverRestart, Admit, Refuse, Accept,
         GateStep, ReplaceFile, SyncDir, WriteFails, Commit, Start, Crash,
         PowerLoss, vars, obsVars
<1> QED
  BY <1>1, <1>2, <1>3

\* An envelope of the planner's own making passes no check.
LEMMA PassingIsIssued ==
  ASSUME NEW e \in issued \union Forged, Passes(e)
  PROVE  e \in issued
  BY GateAssumption DEF Passes, SignatureMatches, Forged

\* Nothing that was verified, and no lifetime of the gate, is taken back.
LEMMA VerifiedGrows ==
  ASSUME TypeOK, [Next]_vars
  PROVE  /\ pinned' = pinned
         /\ issued \subseteq issued' /\ verified \subseteq verified'
         /\ starts \in Nat /\ (starts' = starts \/ Start)
<1> USE DEF obsVars, histVars
<1>1. pinned' = pinned /\ starts \in Nat
  BY DEF Next, vars, TypeOK
<1>2. issued \subseteq issued'
  BY DEF Next, Step, Tick, SetBack, Observe, ObserverRestart, Admit, Refuse,
         Accept, GateStep, ReplaceFile, SyncDir, WriteFails, Commit, Start,
         Crash, PowerLoss, vars
<1>3. verified \subseteq verified'
  BY DEF Next, Step, Tick, SetBack, Observe, ObserverRestart, Admit, Refuse,
         Accept, GateStep, ReplaceFile, SyncDir, WriteFails, Commit, Start,
         Crash, PowerLoss, vars
<1>4. starts' = starts \/ Start
  BY DEF Next, Step, Tick, SetBack, Observe, ObserverRestart, Admit, Refuse,
         Accept, GateStep, ReplaceFile, SyncDir, WriteFails, Commit,
         Crash, PowerLoss, vars
<1> QED
  BY <1>1, <1>2, <1>3, <1>4

LEMMA VerifiedKept ==
  ASSUME TypeOK, VerifiedInv, [Next]_vars
  PROVE  VerifiedInv'
<1>0. issued \subseteq issued' /\ starts \in Nat
  BY VerifiedGrows
<1> USE DEF VerifiedInv, clockVars, obsVars, memVars, diskVars, histVars
<1>1. CASE Tick
  BY <1>1 DEF Tick
<1>2. CASE SetBack
  BY <1>2 DEF SetBack
<1>3. CASE Observe
  BY <1>0, <1>3 DEF Observe
<1>4. CASE ObserverRestart
  BY <1>4 DEF ObserverRestart
<1>5. ASSUME NEW e \in issued \union Forged, Refuse(e) PROVE VerifiedInv'
  BY <1>5 DEF Refuse
<1>6. ASSUME NEW e \in issued \union Forged, Accept(e) PROVE VerifiedInv'
  <2>1. e \in issued
    BY <1>6, PassingIsIssued DEF Accept
  <2>2. /\ verified' = verified \union {<<e, starts>>}
        /\ cur' = e /\ UNCHANGED <<issued, starts>>
    BY <1>6 DEF Accept
  <2> QED
    BY <1>0, <2>1, <2>2
<1>7. CASE ReplaceFile
  BY <1>7 DEF ReplaceFile
<1>8. CASE SyncDir
  BY <1>8 DEF SyncDir
<1>9. CASE WriteFails
  BY <1>9 DEF WriteFails, EndCall
<1>10. CASE Commit
  BY <1>10 DEF Commit, EndCall
<1>11. CASE Start
  <2>1. /\ pc' = "idle" /\ starts' = starts + 1
        /\ UNCHANGED <<issued, verified>>
    BY <1>11 DEF Start
  <2>2. \A v \in verified : v[2] \in Nat
    BY DEF TypeOK
  <2> QED
    BY <1>0, <2>1, <2>2
<1>12. CASE Crash
  BY <1>12 DEF Crash, Die, EndCall
<1>13. CASE PowerLoss
  BY <1>13 DEF PowerLoss, Die, EndCall
<1>14. CASE UNCHANGED vars
  BY <1>14 DEF vars
<1> QED
  BY <1>1, <1>2, <1>3, <1>4, <1>5, <1>6, <1>7, <1>8, <1>9, <1>10, <1>11,
     <1>12, <1>13, <1>14 DEF Next, Step, Admit, GateStep

LEMMA MarkKept ==
  ASSUME TypeOK, VerifiedInv, MarkInv, [Next]_vars
  PROVE  MarkInv'
<1>0. verified \subseteq verified'
  BY VerifiedGrows
<1>1. ASSUME NEW m, Vouched(m)
      PROVE  m # None /\ m.at # Never => \E v \in verified' : m = Mark(v[1])
  BY <1>0, <1>1 DEF Vouched
<1>2. \A v : Mark(v[1])' = Mark(v[1])
  BY DEF Mark
<1>3. ASSUME pc \in {"replace", "sync", "commit"}
      PROVE  \E v \in verified' : Mark(cur) = Mark(v[1])
  BY <1>0, <1>3 DEF VerifiedInv
<1>4. mark' \in {mark, None, file} \/ Commit
  BY DEF Next, Step, Tick, SetBack, Observe, ObserverRestart, Admit, Refuse,
         Accept, GateStep, ReplaceFile, SyncDir, WriteFails, Start, Crash,
         Die, PowerLoss, vars, memVars
<1>5. file' \in {file, disk} \/ ReplaceFile
  BY DEF Next, Step, Tick, SetBack, Observe, ObserverRestart, Admit, Refuse,
         Accept, GateStep, SyncDir, WriteFails, Commit, Start, Crash,
         PowerLoss, vars, diskVars
<1>6. disk' \in {file, disk}
  BY DEF Next, Step, Tick, SetBack, Observe, ObserverRestart, Admit, Refuse,
         Accept, GateStep, ReplaceFile, SyncDir, WriteFails, Commit, Start,
         Crash, PowerLoss, vars, diskVars
<1>7. Vouched(mark)'
  <2>1. mark' = Mark(cur) \/ mark' \in {mark, None, file}
    BY <1>4 DEF Commit
  <2>2. CASE mark' \in {mark, None, file}
    BY <1>1, <2>2 DEF MarkInv, Vouched, Mark
  <2>3. CASE Commit
    BY <1>3, <2>3 DEF Commit, Vouched, Mark
  <2> QED
    BY <1>4, <2>2, <2>3
<1>8. Vouched(file)'
  <2>1. CASE file' \in {file, disk}
    BY <1>1, <2>1 DEF MarkInv, Vouched, Mark
  <2>2. CASE ReplaceFile
    BY <1>3, <2>2 DEF ReplaceFile, Vouched, Mark
  <2> QED
    BY <1>5, <2>1, <2>2
<1>9. Vouched(disk)'
  BY <1>1, <1>6 DEF MarkInv, Vouched, Mark
<1> QED
  BY <1>7, <1>8, <1>9 DEF MarkInv

LEMMA PinKept ==
  ASSUME TypeOK, IssuedInv, VerifiedInv, PinInv, [Next]_vars
  PROVE  PinInv'
<1>0. pinned' = pinned /\ verified \subseteq verified' /\ (starts' = starts \/ Start)
  BY VerifiedGrows
<1>1. CASE pin' = pin /\ starts' = starts
  BY <1>0, <1>1 DEF PinInv
<1>2. CASE pin' = Expected
  BY <1>0, <1>2 DEF PinInv, Expected
<1>3. CASE Commit
  <2>1. <<cur, starts>> \in verified /\ cur \in issued
    BY <1>3 DEF Commit, VerifiedInv
  <2>2. /\ pin' = IF pin = None THEN cur.epoch ELSE pin
        /\ starts' = starts
    BY <1>3 DEF Commit
  <2>3. CASE pinned
    BY <1>0, <2>1, <2>2, <2>3 DEF PinInv, IssuedInv
  <2>4. CASE ~pinned
    BY <1>0, <2>1, <2>2, <2>4 DEF PinInv
  <2> QED
    BY <2>3, <2>4
<1>4. (pin' = pin /\ starts' = starts) \/ pin' = Expected \/ Commit
  BY DEF Next, Step, Tick, SetBack, Observe, ObserverRestart, Admit, Refuse,
         Accept, GateStep, ReplaceFile, SyncDir, WriteFails, Start, Crash,
         Die, PowerLoss, vars, memVars
<1> QED
  BY <1>1, <1>2, <1>3, <1>4

\* What is remembered after the commit entered with it or was remembered.
LEMMA EnteredAges ==
  ASSUME SeenInv
  PROVE  /\ DOMAIN Entered \subseteq Nat \ {0}
         /\ 1 \in DOMAIN Entered /\ Entered[1] = cur
         /\ \A i \in DOMAIN seen : /\ i + 1 \in DOMAIN Entered
                                   /\ Entered[i + 1] = seen[i]
         /\ \A i \in DOMAIN Entered :
              Entered[i] = cur \/ \E k \in DOMAIN seen : Entered[i] = seen[k]
<1> DEFINE ages == {1} \union {k + 1 : k \in DOMAIN seen}
<1>1. DOMAIN Entered = ages
  BY DEF Entered
<1>2. \A i \in ages : Entered[i] = IF i = 1 THEN cur ELSE seen[i - 1]
  BY DEF Entered
<1>3. \A i \in DOMAIN seen : i \in Nat \ {0}
  BY DEF SeenInv
<1>4. \A i \in DOMAIN seen : i + 1 \in ages /\ i + 1 # 1 /\ (i + 1) - 1 = i
  BY <1>3
<1>5. \A i \in ages : i = 1 \/ \E k \in DOMAIN seen : i = k + 1 /\ i - 1 = k
  BY <1>3
<1>6. ages \subseteq Nat \ {0}
  BY <1>3
<1> QED
  BY <1>1, <1>2, <1>4, <1>5, <1>6

LEMMA SeenKept ==
  ASSUME TypeOK, VerifiedInv, SeenInv, [Next]_vars
  PROVE  SeenInv'
<1>0. verified \subseteq verified'
  BY VerifiedGrows
<1>1. CASE seen' = seen
  BY <1>0, <1>1 DEF SeenInv
<1>2. CASE seen' = << >>
  BY <1>2 DEF SeenInv
<1>3. CASE Commit
  <2>1. <<cur, starts>> \in verified
    BY <1>3 DEF Commit, VerifiedInv
  <2>2. Remaining \subseteq DOMAIN Entered
    BY DEF Remaining, Unexpired, ButOldest
  <2>3. DOMAIN seen' = Remaining /\ \A i \in Remaining : seen'[i] = Entered[i]
    BY <1>3 DEF Commit
  <2>4. ASSUME NEW i \in Remaining
        PROVE  i \in Nat \ {0} /\ \E v \in verified : Entered[i] = v[1]
    BY <2>1, <2>2, EnteredAges DEF SeenInv
  <2> QED
    BY <1>0, <2>3, <2>4 DEF SeenInv
<1>4. seen' = seen \/ seen' = << >> \/ Commit
  BY DEF Next, Step, Tick, SetBack, Observe, ObserverRestart, Admit, Refuse,
         Accept, GateStep, ReplaceFile, SyncDir, WriteFails, Start, Crash,
         Die, PowerLoss, vars, memVars
<1> QED
  BY <1>1, <1>2, <1>3, <1>4

LEMMA WelcomeInit == Init => WelcomeInv
<1> SUFFICES ASSUME Init PROVE WelcomeInv
  OBVIOUS
<1>1. IssuedInv /\ VerifiedInv /\ PinInv /\ SeenInv
  BY DEF Init, IssuedInv, VerifiedInv, PinInv, Expected, SeenInv
<1>2. ASSUME NEW m \in [at : {Never}, frame : LegacyFrames] PROVE m.at = Never
  OBVIOUS
<1>3. MarkInv
  BY <1>2 DEF Init, MarkInv, Vouched
<1> QED
  BY <1>1, <1>3 DEF WelcomeInv

LEMMA WelcomeNext ==
  ASSUME TypeOK, WelcomeInv, [Next]_vars
  PROVE  WelcomeInv'
<1>1. IssuedInv /\ VerifiedInv /\ MarkInv /\ PinInv /\ SeenInv
  BY DEF WelcomeInv
<1>2. IssuedInv' /\ VerifiedInv'
  BY <1>1, IssuedKept, VerifiedKept
<1>3. MarkInv' /\ PinInv' /\ SeenInv'
  BY <1>1, MarkKept, PinKept, SeenKept
<1> QED
  BY <1>2, <1>3 DEF WelcomeInv

LEMMA WelcomePasses ==
  ASSUME TypeOK, WelcomeInv
  PROVE  NotLockedOut
<1> SUFFICES ASSUME ~(mark # None /\ mark.at = Never), NEW e \in issued,
                    Welcome(e)
             PROVE  Passes(e)
  BY DEF NotLockedOut
<1>1. InLifetime(e) /\ SignatureMatches(e)
  BY DEF Welcome, WelcomeInv, IssuedInv, SignatureMatches
<1>2. EpochMatches(e)
  <2>1. CASE pinned
    BY <2>1 DEF EpochMatches, WelcomeInv, IssuedInv, PinInv
  <2>2. CASE ~pinned
    BY <2>2 DEF EpochMatches, WelcomeInv, PinInv, Welcome
  <2> QED
    BY <2>1, <2>2
<1>3. ~Remembered(e)
  <2> SUFFICES ASSUME NEW i \in DOMAIN seen, seen[i].nonce = e.nonce
               PROVE  FALSE
    BY DEF Remembered
  <2>1. PICK v \in verified : seen[i] = v[1]
    BY DEF WelcomeInv, SeenInv
  <2>2. v[1] \in issued
    BY DEF WelcomeInv, VerifiedInv
  <2>3. v[1] = e
    BY <2>1, <2>2 DEF WelcomeInv, IssuedInv
  <2>4. Before(Mark(e), Mark(e)) /\ Mark(e) \in Marks
    BY <2>3, MarkType DEF Welcome, TypeOK
  <2> QED
    BY <2>4, BeforeOrder
<1>4. Advances(e)
  BY DEF Advances, WelcomeInv, MarkInv, Vouched, Welcome
<1> QED
  BY <1>1, <1>2, <1>3, <1>4 DEF Passes

\* A fresh envelope of the trusted epoch is never refused, whatever the
\* planner submitted before it, whatever failed or was lost, and however often
\* observer and gate restarted (attestation_gate _verify, _advances, the
\* epoch trusted on first use).
THEOREM ObserverGetsIn == Spec => []NotLockedOut
<1>1. TypeOK /\ WelcomeInv /\ [Next]_vars => WelcomeInv'
  BY WelcomeNext
<1>2. TypeOK /\ WelcomeInv => NotLockedOut
  BY WelcomePasses
<1> QED
  BY <1>1, <1>2, WelcomeInit, TypeCorrect, PTL DEF Spec

-----------------------------------------------------------------------------
LEMMA MomentKept ==
  ASSUME TypeOK, MomentInv, [Next]_vars
  PROVE  MomentInv'
<1>1. CASE UNCHANGED <<pc, moment>> /\ latest' = latest
  BY <1>1 DEF MomentInv
<1>2. CASE pc' \notin {"replace", "sync", "commit"}
  BY <1>2 DEF MomentInv
<1>3. ASSUME NEW e \in issued \union Forged, Refuse(e) PROVE MomentInv'
  <2>1. pc' = "idle"
    BY <1>3 DEF Refuse
  <2> QED
    BY <2>1 DEF MomentInv
<1>4. ASSUME NEW e \in issued \union Forged, Accept(e) PROVE MomentInv'
  <2>1. moment' = now /\ latest' = IF now > latest THEN now ELSE latest
    BY <1>4 DEF Accept
  <2> QED
    BY <2>1 DEF MomentInv, TypeOK
<1>5. CASE ReplaceFile \/ SyncDir
  <2>1. pc \in {"replace", "sync", "commit"} /\ UNCHANGED <<moment, latest>>
    BY <1>5 DEF ReplaceFile, SyncDir, histVars
  <2> QED
    BY <2>1 DEF MomentInv
<1>6. CASE WriteFails \/ Commit \/ Start \/ Crash \/ PowerLoss
  BY <1>2, <1>6 DEF WriteFails, Commit, Start, Crash, PowerLoss, Die, EndCall
<1>7. CASE Tick \/ SetBack \/ Observe \/ ObserverRestart \/ UNCHANGED vars
  BY <1>1, <1>7 DEF Tick, SetBack, Observe, ObserverRestart, vars, clockVars,
                    histVars
<1> QED
  BY <1>3, <1>4, <1>5, <1>6, <1>7 DEF Next, Step, Admit, GateStep

\* Nothing admitted is as new as an envelope that is ahead of it all.
LEMMA AheadIsNew ==
  ASSUME TypeOK, NEW e \in Envelopes, Ahead(e)
  PROVE  \A i \in 1..Len(admitted) : admitted[i] # e
<1> SUFFICES ASSUME NEW i \in 1..Len(admitted), admitted[i] = e PROVE FALSE
  OBVIOUS
<1>1. Before(Mark(e), Mark(e)) /\ Mark(e) \in Marks
  BY MarkType DEF Ahead
<1> QED
  BY <1>1, BeforeOrder

\* A step that neither verifies, admits, remembers nor forgets an envelope,
\* and in which time does not go back, forgets none.
LEMMA NothingForgotten ==
  ASSUME TypeOK, VerifiedInv, ForgottenInv, pc # "down",
         UNCHANGED <<starts, verified, admitted, seen, dropped>>,
         latest' \in Nat, latest <= latest'
  PROVE  ForgottenInv'
<1> SUFFICES ASSUME NEW e \in Mine', latest' < e.until
             PROVE  Remembered(e)' \/ e.nonce \in dropped'
  BY DEF ForgottenInv
<1>1. e \in Mine
  BY DEF Mine, VerifiedInv
<1>2. e.until \in Nat
  BY <1>1 DEF Mine, TypeOK, Envelopes
<1>3. latest < e.until
  BY <1>2 DEF TypeOK
<1> QED
  BY <1>1, <1>3 DEF ForgottenInv, Remembered

LEMMA ForgottenKept ==
  ASSUME TypeOK, GateInv, WelcomeInv, MomentInv, ForgottenInv, [Next]_vars
  PROVE  ForgottenInv'
<1>0. /\ IssuedInv /\ VerifiedInv /\ SeenInv /\ VerifiedInv'
      /\ latest \in Nat /\ now \in Nat
  BY WelcomeNext DEF WelcomeInv, TypeOK
<1>1. CASE pc' = "down"
  BY <1>1 DEF ForgottenInv
<1>2. CASE pc # "down" /\ (Tick \/ SetBack \/ Observe \/ ObserverRestart
                             \/ ReplaceFile \/ SyncDir \/ WriteFails
                             \/ UNCHANGED vars)
  <2>1. UNCHANGED <<starts, verified, admitted, seen, dropped, latest>>
    BY <1>2 DEF Tick, SetBack, Observe, ObserverRestart, ReplaceFile, SyncDir,
                WriteFails, vars, memVars, histVars
  <2> QED
    BY <1>0, <1>2, <2>1, NothingForgotten
<1>3. ASSUME NEW e \in issued \union Forged, Refuse(e) PROVE ForgottenInv'
  <2>1. /\ UNCHANGED <<starts, verified, admitted, seen, dropped>>
        /\ latest' = IF now > latest THEN now ELSE latest
        /\ pc # "down"
    BY <1>3 DEF Refuse, memVars
  <2> QED
    BY <1>0, <2>1, NothingForgotten
<1>4. ASSUME NEW f \in issued \union Forged, Accept(f) PROVE ForgottenInv'
  <2>1. /\ UNCHANGED <<issued, starts, admitted, seen, dropped>>
        /\ verified' = verified \union {<<f, starts>>}
        /\ latest' = IF now > latest THEN now ELSE latest
        /\ pc = "idle"
    BY <1>4 DEF Accept, memVars, obsVars
  <2>2. f \in Envelopes /\ Ahead(f)
    BY <1>4, <2>1, SubmittedType, PassingIsAhead DEF Accept, Passes, GateInv
  <2>3. \A i \in 1..Len(admitted) : admitted[i] # f
    BY <2>2, AheadIsNew
  <2> SUFFICES ASSUME NEW e \in Mine', latest' < e.until
               PROVE  Remembered(e)' \/ e.nonce \in dropped'
    BY DEF ForgottenInv
  <2>4. e \in Mine
    BY <2>1, <2>3 DEF Mine
  <2>5. e.until \in Nat
    BY <2>4 DEF Mine, TypeOK, Envelopes
  <2>6. latest < e.until
    BY <1>0, <2>1, <2>5
  <2> QED
    BY <2>1, <2>4, <2>6 DEF ForgottenInv, Remembered
<1>5. CASE Commit
  <2>1. /\ UNCHANGED <<issued, starts, verified, latest>>
        /\ dropped' = dropped \union Evicted
        /\ DOMAIN seen' = Remaining
        /\ \A i \in Remaining : seen'[i] = Entered[i]
        /\ admitted' \in {Append(admitted, cur), admitted}
        /\ pc = "commit" /\ cur \in Envelopes
    BY <1>5 DEF Commit, obsVars, TypeOK
  <2> SUFFICES ASSUME NEW e \in Mine', latest' < e.until
               PROVE  Remembered(e)' \/ e.nonce \in dropped'
    BY DEF ForgottenInv
  <2>2. e \in Mine \/ e = cur
    <3>1. e \in issued /\ <<e, starts>> \in verified
      BY <2>1 DEF Mine
    <3>2. PICK i \in 1..Len(admitted') : admitted'[i] = e
      BY DEF Mine
    <3>3. CASE admitted' = admitted
      BY <3>1, <3>2, <3>3 DEF Mine
    <3>4. CASE admitted' = Append(admitted, cur)
      <4>1. /\ Len(admitted) \in Nat /\ Len(admitted') = Len(admitted) + 1
            /\ \A k \in 1..Len(admitted) : admitted'[k] = admitted[k]
            /\ admitted'[Len(admitted) + 1] = cur
        BY <2>1, <3>4, AppendProperties, LenProperties DEF TypeOK
      <4>2. i \in 1..Len(admitted) \/ i = Len(admitted) + 1
        BY <4>1
      <4> QED
        BY <3>1, <3>2, <4>1, <4>2 DEF Mine
    <3> QED
      BY <2>1, <3>3, <3>4
  <2>3. e \in issued /\ e.until \in Nat
    BY <2>1 DEF Mine, TypeOK, Envelopes
  <2>4. latest < e.until /\ moment < e.until
    BY <1>0, <2>1, <2>3 DEF MomentInv, TypeOK
  <2>5. e \in Mine => e.nonce \in dropped \/ \E k \in DOMAIN seen : seen[k] = e
    <3> SUFFICES ASSUME NEW k \in DOMAIN seen, seen[k].nonce = e.nonce
                 PROVE  seen[k] = e
      BY <2>1, <2>4 DEF ForgottenInv, Remembered
    <3>1. PICK v \in verified : seen[k] = v[1]
      BY <1>0 DEF SeenInv
    <3>2. v[1] \in issued
      BY <1>0 DEF VerifiedInv
    <3> QED
      BY <1>0, <2>3, <3>1, <3>2 DEF IssuedInv
  <2>6. CASE e.nonce \in dropped
    BY <2>1, <2>6
  <2>7. CASE \E i \in DOMAIN Entered : Entered[i] = e
    <3>1. PICK i \in DOMAIN Entered : Entered[i] = e
      BY <2>7
    <3>2. i \in Unexpired
      BY <2>3, <2>4, <3>1 DEF Unexpired, TypeOK
    <3>3. CASE i \in Remaining
      BY <2>1, <3>1, <3>3 DEF Remembered
    <3>4. CASE i \notin Remaining
      BY <2>1, <3>1, <3>2, <3>4 DEF Evicted
    <3> QED
      BY <3>3, <3>4
  <2> QED
    BY <1>0, <2>2, <2>5, <2>6, <2>7, EnteredAges
<1>6. CASE Start
  <2>1. /\ starts' = starts + 1 /\ UNCHANGED verified
        /\ starts \in Nat /\ \A v \in verified : v[2] \in Nat /\ v[2] <= starts
    BY <1>0, <1>6 DEF Start, VerifiedInv, TypeOK
  <2>2. \A e : <<e, starts'>> \notin verified'
    BY <2>1
  <2> QED
    BY <2>2 DEF ForgottenInv, Mine
<1>7. CASE Crash \/ PowerLoss
  BY <1>1, <1>7 DEF Crash, PowerLoss, Die, EndCall
<1>8. pc' = pc \/ pc # "down" \/ Start \/ Crash \/ PowerLoss
  BY DEF Next, Step, Tick, SetBack, Observe, ObserverRestart, Admit, Refuse,
         Accept, GateStep, ReplaceFile, SyncDir, WriteFails, Commit, vars
<1> QED
  BY <1>1, <1>2, <1>3, <1>4, <1>5, <1>6, <1>7, <1>8
  DEF Next, Step, Admit, GateStep

\* While the gate runs, the nonce of an envelope it admitted is remembered
\* until the envelope expires, or a receipt says that it was dropped
\* (_evict_nonces: "receipted instead of done quietly").  A nonce that goes
\* because its envelope expired was of no more use: the lifetime check comes
\* first.
THEOREM ForgettingIsTold == Spec => []EvictionReceipted
<1>1. Init => GateInv /\ MomentInv /\ ForgottenInv
  BY DEF Init, GateInv, NoRollback, Covers, MomentInv, ForgottenInv
<1>2. TypeOK /\ GateInv /\ WelcomeInv /\ MomentInv /\ ForgottenInv /\ [Next]_vars
        => GateInv' /\ WelcomeInv' /\ MomentInv' /\ ForgottenInv'
  BY NextKeeps, WelcomeNext, MomentKept, ForgottenKept
<1>3. ForgottenInv => EvictionReceipted
  BY DEF ForgottenInv, EvictionReceipted
<1> QED
  BY <1>1, <1>2, <1>3, WelcomeInit, TypeCorrect, PTL DEF Spec
=============================================================================

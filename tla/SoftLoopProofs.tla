--------------------------- MODULE SoftLoopProofs ---------------------------
(***************************************************************************)
(* What holds of the soft loop for any budget, any lanes, any reports and  *)
(* any answers of coder, gate, judge and reviewer; and of the adapters for *)
(* any prose a tool may print around its markers.                          *)
(***************************************************************************)
EXTENDS Adapters, FiniteSetTheorems, SequenceTheorems, WellFoundedInduction, TLAPS

-----------------------------------------------------------------------------
\* A coder round adds one to rounds and keeps the types, whoever asks for it.
LEMMA CoderRoundType ==
  ASSUME TypeOK, NEW c \in BOOLEAN, CoderRound(c)
  PROVE  /\ rounds' = rounds + 1 /\ rounds' \in Nat /\ base' \in Nat
         /\ lost' \in BOOLEAN /\ stale' \in BOOLEAN
         /\ nets' \subseteq Nat /\ changes' \subseteq Nat
BY DEF TypeOK, CoderRound, Absorb

\* The last attempt is one, if there is any.
LEMMA LastType ==
  ASSUME history \in Seq(Attempts), history # << >>
  PROVE  Len(history) \in Nat \ {0} /\ Last \in Attempts
<1>1. Len(history) \in Nat /\ Len(history) # 0
  BY EmptySeq, LenProperties
<1> QED
  BY <1>1, ElementOfSeq DEF Last

\* Where the loop stands at the ladder or past a gate check, there was one.
Begun == at \in {"assess", "review", "ladder", "completed"} => history # << >>

TypeInv == TypeOK /\ Begun /\ (at = "ladder" => Last.report \in Reports)

LEMMA InitTypes == Init => TypeInv
<1>1. << >> \in Seq(Attempts)
  BY EmptySeq
<1>2. Init => TypeOK
  <2> SUFFICES ASSUME Init PROVE TypeOK
    OBVIOUS
  <2> USE DEF Init
  <2>1. lane \in 1..Lanes /\ history \in Seq(Attempts)
    BY <1>1
  <2>2. {rounds, splits, revisions, todo, base} \subseteq Nat
    OBVIOUS
  <2>3. {judged, changed, lost, stale} \subseteq BOOLEAN
    OBVIOUS
  <2>4. {nets, changes} \subseteq SUBSET Nat
    OBVIOUS
  <2> QED
    BY <2>1, <2>2, <2>3, <2>4 DEF TypeOK
<1>3. Init => at = "top"
  BY DEF Init
<1> QED
  BY <1>2, <1>3 DEF TypeInv, Begun

LEMMA NextTypes == TypeInv /\ [Next]_vars => TypeInv'
<1> SUFFICES ASSUME TypeInv, [Next]_vars PROVE TypeInv'
  OBVIOUS
<1> USE DEF TypeInv, TypeOK, Begun, NoCoder, netVars, budgetVars, LadderVars,
            Last
<1>1. CASE OutOfRounds
  BY <1>1 DEF OutOfRounds
<1>2. CASE Attempt
  <2> PICK c \in BOOLEAN : CoderRound(c) /\ changed' = c
    BY <1>2 DEF Attempt
  <2> QED
    BY <1>2, CoderRoundType DEF Attempt
<1>3. CASE Reverify
  BY <1>3 DEF Reverify
<1>4. CASE GateCheck
  <2> PICK r \in Reports \union {None} :
        /\ history' = Append(history, [lane |-> lane, changed |-> changed,
                                       report |-> r])
        /\ at' = IF r = None THEN "assess" ELSE "ladder"
    BY <1>4 DEF GateCheck
  <2> DEFINE a == [lane |-> lane, changed |-> changed, report |-> r]
  <2>1. a \in Attempts /\ a.report = r
    BY DEF Attempts
  <2> HIDE DEF a
  <2>2. history' = Append(history, a)
    BY DEF a
  <2>3. /\ history' \in Seq(Attempts) /\ history' # << >>
        /\ history'[Len(history')] = a
    BY <2>1, <2>2, AppendProperties
  <2>4. at' = "ladder" => r \in Reports
    OBVIOUS
  <2> QED
    BY <1>4, <2>1, <2>3, <2>4 DEF GateCheck
<1>5. CASE Assess
  BY <1>5 DEF Assess
<1>6. CASE Review
  BY <1>6 DEF Review
<1>7. CASE FixPass
  <2> PICK c \in BOOLEAN :
        CoderRound(c) /\ reverify' = IF c THEN "changed" ELSE "unchanged"
    BY <1>7 DEF FixPass
  <2> QED
    BY <1>7, CoderRoundType DEF FixPass
<1>8. CASE Retry
  BY <1>8 DEF Retry
<1>9. CASE Escalate
  <2>1. history # << >> /\ Last \in Attempts
    BY <1>9, LastType DEF Escalate
  <2>2. Last.lane \in 1..Lanes /\ Last.lane < Lanes
    BY <1>9, <2>1 DEF Escalate, Rung, Attempts
  <2>3. lane' \in 1..Lanes
    BY <1>9, <2>2, LoopAssumption DEF Escalate
  <2> QED
    BY <1>9, <2>3 DEF Escalate
<1>10. CASE Judge
  BY <1>10 DEF Judge
<1>11. CASE HandOver
  BY <1>11 DEF HandOver
<1>12. CASE Split
  <2>1. Len(Last.report) \in Nat
    BY <1>12, LoopAssumption DEF Split
  <2> QED
    BY <1>12, <2>1 DEF Split
<1>13. CASE SplitFix
  <2> PICK c \in BOOLEAN : CoderRound(c) /\ changed' = (changed \/ c)
    BY <1>13 DEF SplitFix
  <2> QED
    BY <1>13, CoderRoundType DEF SplitFix
<1>14. CASE SplitEnds
  <2>1. reverify' \in {"none", "changed", "unchanged"}
    BY <1>14 DEF SplitEnds
  <2>2. changed' \in BOOLEAN /\ todo' \in Nat /\ at' = "top"
    BY <1>14 DEF SplitEnds
  <2>3. UNCHANGED <<lane, history, splits, revisions, judged, rounds, base,
                    lost, nets, changes, stale>>
    BY <1>14 DEF SplitEnds
  <2> QED
    BY <2>1, <2>2, <2>3
<1>15. CASE UNCHANGED vars
  BY <1>15 DEF vars
<1> QED
  BY <1>1, <1>2, <1>3, <1>4, <1>5, <1>6, <1>7, <1>8, <1>9, <1>10, <1>11,
     <1>12, <1>13, <1>14, <1>15 DEF Next

\* The attempts, the counters and the tags of SoftLoop.run keep their types,
\* and the lane stays one of the lanes, in every step.
THEOREM TypeCorrect == Spec => []TypeOK
<1>1. TypeInv => TypeOK
  BY DEF TypeInv
<1> QED
  BY <1>1, InitTypes, NextTypes, PTL DEF Spec

\* The inductive invariant behind it, which the results below use as well.
THEOREM TypeInvariant == Spec => []TypeInv
BY InitTypes, NextTypes, PTL DEF Spec
-----------------------------------------------------------------------------
(* The budget.                                                             *)

\* A coder round is asked for only where there is one left.
BudgetInv == WithinBudget /\ (at = "fix" => rounds < MaxRounds)

LEMMA BudgetNext == TypeInv /\ BudgetInv /\ [Next]_vars => BudgetInv'
<1> SUFFICES ASSUME TypeInv, BudgetInv, [Next]_vars PROVE BudgetInv'
  OBVIOUS
<1>0. /\ rounds \in Nat /\ splits \in Nat /\ revisions \in Nat
      /\ MaxRounds \in Nat /\ MaxSplits \in Nat /\ MaxRevisions \in Nat
  BY LoopAssumption DEF TypeInv, TypeOK
<1> USE <1>0 DEF BudgetInv, WithinBudget, NoCoder, Spent, budgetVars,
                 LadderVars, CoderRound
<1>1. CASE OutOfRounds
  BY <1>1 DEF OutOfRounds
<1>2. CASE Attempt
  BY <1>2 DEF Attempt
<1>3. CASE Reverify
  BY <1>3 DEF Reverify
<1>4. CASE GateCheck
  BY <1>4 DEF GateCheck
<1>5. CASE Assess
  BY <1>5 DEF Assess
<1>6. CASE Review
  BY <1>6 DEF Review
<1>7. CASE FixPass
  BY <1>7 DEF FixPass
<1>8. CASE Retry
  BY <1>8 DEF Retry
<1>9. CASE Escalate
  BY <1>9 DEF Escalate
<1>10. CASE Judge
  BY <1>10 DEF Judge
<1>11. CASE HandOver
  BY <1>11 DEF HandOver
<1>12. CASE Split
  BY <1>12 DEF Split
<1>13. CASE SplitFix
  BY <1>13 DEF SplitFix
<1>14. CASE SplitEnds
  BY <1>14 DEF SplitEnds
<1>15. CASE UNCHANGED vars
  BY <1>15 DEF vars
<1> QED
  BY <1>1, <1>2, <1>3, <1>4, <1>5, <1>6, <1>7, <1>8, <1>9, <1>10, <1>11,
     <1>12, <1>13, <1>14, <1>15 DEF Next

\* No run of SoftLoop.run makes a coder round, a split or a revision more than
\* its Budget has, whatever the budget is.
THEOREM BudgetHolds == Spec => []WithinBudget
<1>1. Init => BudgetInv
  BY LoopAssumption DEF Init, BudgetInv, WithinBudget
<1>2. BudgetInv => WithinBudget
  BY DEF BudgetInv
<1> QED
  BY <1>1, <1>2, BudgetNext, TypeInvariant, PTL DEF Spec
-----------------------------------------------------------------------------
(* What was completed is what the gate passed.                             *)

\* From the passing check on, and until a fix pass goes back to the top, the
\* code is that of the check.
VerifiedInv ==
  at \in {"assess", "review", "completed"} =>
    ~stale /\ history # << >> /\ Last.report = None

LEMMA VerifiedNext == TypeInv /\ VerifiedInv /\ [Next]_vars => VerifiedInv'
<1> SUFFICES ASSUME TypeInv, VerifiedInv, [Next]_vars PROVE VerifiedInv'
  OBVIOUS
<1> USE DEF VerifiedInv, NoCoder, LadderVars, Last
<1>1. CASE OutOfRounds
  BY <1>1 DEF OutOfRounds
<1>2. CASE Attempt
  BY <1>2 DEF Attempt
<1>3. CASE Reverify
  BY <1>3 DEF Reverify
<1>4. CASE GateCheck
  <2> PICK r \in Reports \union {None} :
        /\ history' = Append(history, [lane |-> lane, changed |-> changed,
                                       report |-> r])
        /\ at' = IF r = None THEN "assess" ELSE "ladder"
    BY <1>4 DEF GateCheck
  <2> DEFINE a == [lane |-> lane, changed |-> changed, report |-> r]
  <2>1. a \in Attempts /\ a.report = r
    BY DEF Attempts, TypeInv, TypeOK
  <2> HIDE DEF a
  <2>2. history' = Append(history, a) /\ history \in Seq(Attempts)
    BY DEF a, TypeInv, TypeOK
  <2>3. history' # << >> /\ history'[Len(history')] = a
    BY <2>1, <2>2, AppendProperties
  <2>4. at' = "assess" => r = None
    OBVIOUS
  <2>5. at' \in {"assess", "ladder"} /\ stale' = FALSE
    BY <1>4 DEF GateCheck
  <2> QED
    BY <2>1, <2>3, <2>4, <2>5
<1>5. CASE Assess
  BY <1>5 DEF Assess
<1>6. CASE Review
  BY <1>6 DEF Review
<1>7. CASE FixPass
  BY <1>7 DEF FixPass
<1>8. CASE Retry
  BY <1>8 DEF Retry
<1>9. CASE Escalate
  BY <1>9 DEF Escalate
<1>10. CASE Judge
  BY <1>10 DEF Judge
<1>11. CASE HandOver
  BY <1>11 DEF HandOver
<1>12. CASE Split
  BY <1>12 DEF Split
<1>13. CASE SplitFix
  BY <1>13 DEF SplitFix
<1>14. CASE SplitEnds
  BY <1>14 DEF SplitEnds
<1>15. CASE UNCHANGED vars
  BY <1>15 DEF vars
<1> QED
  BY <1>1, <1>2, <1>3, <1>4, <1>5, <1>6, <1>7, <1>8, <1>9, <1>10, <1>11,
     <1>12, <1>13, <1>14, <1>15 DEF Next

\* Whatever is retried, split, fixed or escalated on the way, a run that ends
\* as completed ends on code the gate passed, unchanged since.
THEOREM CompletedMeansVerified == Spec => []CompletedIsVerified
<1>1. Init => VerifiedInv
  BY DEF Init, VerifiedInv
<1>2. VerifiedInv => CompletedIsVerified
  BY DEF VerifiedInv, CompletedIsVerified
<1> QED
  BY <1>1, <1>2, VerifiedNext, TypeInvariant, PTL DEF Spec
-----------------------------------------------------------------------------
(* What the reviewer is shown.                                             *)

\* With a base, it is no later than any change; with none and none lost,
\* there is no change yet; and a lost base is never found again.
BaseInv ==
  /\ base <= rounds
  /\ base = 0 /\ ~lost => changes = {}
  /\ lost => base = 0
  /\ base > 0 => \A i \in changes : i >= base

\* A coder round keeps BaseInv, whether or not it changes code or is netted.
LEMMA CoderRoundBase ==
  ASSUME TypeOK, BaseInv, NEW c \in BOOLEAN, CoderRound(c)
  PROVE  BaseInv'
<1> PICK tag \in BOOLEAN : Absorb(c, tag)
  BY DEF CoderRound
<1>0. rounds \in Nat /\ base \in Nat /\ changes \subseteq Nat
      /\ lost \in BOOLEAN
  BY DEF TypeOK
<1> USE <1>0 DEF BaseInv, CoderRound, Absorb
<1>1. (base <= rounds)'
  OBVIOUS
<1>2. (base = 0 /\ ~lost => changes = {})'
  OBVIOUS
<1>3. (lost => base = 0)'
  OBVIOUS
<1>4. (base > 0 => \A i \in changes : i >= base)'
  <2> SUFFICES ASSUME base' > 0, NEW i \in changes' PROVE i >= base'
    OBVIOUS
  <2>1. i = rounds + 1 \/ i \in changes
    OBVIOUS
  <2>2. CASE base > 0
    BY <2>1, <2>2
  <2>3. CASE base = 0
    <3>1. tag /\ ~lost /\ base' = rounds + 1
      BY <2>3
    <3>2. changes = {}
      BY <2>3, <3>1
    <3> QED
      BY <2>1, <3>1, <3>2
  <2> QED
    BY <2>2, <2>3
<1> QED
  BY <1>1, <1>2, <1>3, <1>4

LEMMA BaseNext == TypeInv /\ BaseInv /\ [Next]_vars => BaseInv'
<1> SUFFICES ASSUME TypeInv, BaseInv, [Next]_vars PROVE BaseInv'
  OBVIOUS
<1>0. TypeOK
  BY DEF TypeInv
<1>a. UNCHANGED <<rounds, base, lost, changes>> => BaseInv'
  BY DEF BaseInv
<1> USE <1>0, <1>a DEF NoCoder, netVars, budgetVars
<1>1. CASE OutOfRounds
  BY <1>1 DEF OutOfRounds
<1>2. CASE Attempt
  BY <1>2, CoderRoundBase DEF Attempt
<1>3. CASE Reverify
  BY <1>3 DEF Reverify
<1>4. CASE GateCheck
  BY <1>4 DEF GateCheck
<1>5. CASE Assess
  BY <1>5 DEF Assess
<1>6. CASE Review
  BY <1>6 DEF Review
<1>7. CASE FixPass
  BY <1>7, CoderRoundBase DEF FixPass
<1>8. CASE Retry
  BY <1>8 DEF Retry
<1>9. CASE Escalate
  BY <1>9 DEF Escalate
<1>10. CASE Judge
  BY <1>10 DEF Judge
<1>11. CASE HandOver
  BY <1>11 DEF HandOver
<1>12. CASE Split
  BY <1>12 DEF Split
<1>13. CASE SplitFix
  BY <1>13, CoderRoundBase DEF SplitFix
<1>14. CASE SplitEnds
  BY <1>14 DEF SplitEnds
<1>15. CASE UNCHANGED vars
  BY <1>15 DEF vars
<1> QED
  BY <1>1, <1>2, <1>3, <1>4, <1>5, <1>6, <1>7, <1>8, <1>9, <1>10, <1>11,
     <1>12, <1>13, <1>14, <1>15 DEF Next

\* Wherever a review is asked for, what _review_and_revise has it look at is
\* the whole change of the task, for any mix of netted and un-netted rounds.
THEOREM ReviewSeesTheWholeChange == Spec => []ReviewSeesAll
<1>1. Init => BaseInv
  BY DEF Init, BaseInv
<1>2. TypeInv /\ BaseInv => ReviewSeesAll
  <2> SUFFICES ASSUME TypeOK, BaseInv, ~NoReview PROVE Shown = changes
    BY DEF TypeInv, ReviewSeesAll
  <2>1. CASE base = 0
    BY <2>1 DEF BaseInv, NoReview, Shown, TypeOK
  <2>2. CASE base # 0
    BY <2>2 DEF BaseInv, Shown, TypeOK
  <2> QED
    BY <2>1, <2>2
<1> QED
  BY <1>1, <1>2, BaseNext, TypeInvariant, PTL DEF Spec
-----------------------------------------------------------------------------
(* The ladder.                                                             *)

\* Two different attempts of the last lane are two tries.
LEMMA TwoTries ==
  ASSUME TypeOK, history # << >>,
         NEW i \in 1..Len(history), i # Len(history),
         history[i].lane = Last.lane
  PROVE  Tries >= 2
<1> DEFINE T == {j \in 1..Len(history) : history[j].lane = Last.lane}
<1>1. Len(history) \in Nat \ {0}
  BY LastType DEF TypeOK
<1>2. IsFiniteSet(T)
  <2>1. IsFiniteSet(1..Len(history)) /\ T \in SUBSET (1..Len(history))
    BY <1>1, FS_Interval
  <2> QED
    BY <2>1, FS_Subset
<1>3. {i, Len(history)} \subseteq T
  BY <1>1 DEF Last
<1>4. Cardinality({i, Len(history)}) = 2
  <2>1. IsFiniteSet({i}) /\ Cardinality({i}) = 1
    BY FS_Singleton
  <2>2. {i, Len(history)} = {i} \union {Len(history)}
    OBVIOUS
  <2>3. Cardinality({i} \union {Len(history)}) = Cardinality({i}) + 1
    BY <2>1, FS_AddElement
  <2> QED
    BY <2>1, <2>2, <2>3
<1>5. Cardinality({i, Len(history)}) <= Cardinality(T)
  BY <1>2, <1>3, FS_Subset
<1> QED
  BY <1>2, <1>4, <1>5, FS_CardinalityType DEF Tries

\* A lane that was tried once and not yet retried is not left by any rung.
THEOREM LaneIsRetried == Spec => []LaneGetsItsRetry
<1>1. TypeInv => LaneGetsItsRetry
  <2> SUFFICES ASSUME TypeOK, history # << >>,
                      Rung \in {"escalate", "judge", "review"}
               PROVE  Tries >= 2
    BY DEF TypeInv, Begun, LaneGetsItsRetry
  <2> DEFINE T == {j \in 1..Len(history) : history[j].lane = Last.lane}
  <2>1. Len(history) \in Nat \ {0}
    BY LastType DEF TypeOK
  <2>2. Stalled \/ Tries # 1
    BY DEF Rung
  <2>3. CASE Stalled
    BY <2>1, <2>3, TwoTries DEF Stalled
  <2>4. CASE Tries # 1
    <3>1. IsFiniteSet(T)
      <4>1. /\ IsFiniteSet(1..Len(history))
            /\ T \in SUBSET (1..Len(history))
        BY <2>1, FS_Interval
      <4> QED
        BY <4>1, FS_Subset
    <3>2. Len(history) \in T
      BY <2>1 DEF Last
    <3>3. Cardinality(T) \in Nat /\ Cardinality(T) # 0
      BY <3>1, <3>2, FS_CardinalityType, FS_EmptySet
    <3> QED
      BY <2>4, <3>3 DEF Tries
  <2> QED
    BY <2>2, <2>3, <2>4
<1> QED
  BY <1>1, TypeInvariant, PTL
-----------------------------------------------------------------------------
(* The adapters.                                                           *)

\* The adapters only fix what the four may answer: so whatever holds of
\* the soft loop holds of it with pxx, the shell command and the vision model.
THEOREM AdaptersRunTheLoop == PxxSpec => Spec
<1>1. PxxInit => Init  BY DEF PxxInit
<1>2. [PxxNext]_<<vars, pxxVars>> => [Next]_vars
  BY DEF PxxNext, CoderSteps, GateSteps, JudgeSteps, ReviewSteps, LoopSteps, Next
<1> QED  BY <1>1, <1>2, PTL DEF PxxSpec, Spec

\* The first tag is the base, unless it came too late; none is older.
TagInv ==
  /\ base = 0 /\ ~lost => nets = {}
  /\ base > 0 => \A i \in nets : i >= base

\* A coder round keeps TagInv, whether or not it changes code or is netted.
LEMMA CoderRoundTags ==
  ASSUME TypeOK, BaseInv, TagInv, NEW c \in BOOLEAN, CoderRound(c)
  PROVE  TagInv'
<1> PICK tag \in BOOLEAN : Absorb(c, tag)
  BY DEF CoderRound
<1>1. rounds \in Nat /\ base \in Nat /\ nets \subseteq Nat /\ lost \in BOOLEAN
  BY DEF TypeOK
<1>2. (base = 0 /\ ~lost => nets = {})'
  BY <1>1 DEF TagInv, BaseInv, Absorb
<1>3. (base > 0 => \A i \in nets : i >= base)'
  <2> SUFFICES ASSUME base' > 0, NEW i \in nets' PROVE i >= base'
    OBVIOUS
  <2>1. i = rounds + 1 \/ i \in nets
    BY DEF Absorb
  <2>2. CASE base > 0
    BY <1>1, <2>1, <2>2 DEF TagInv, BaseInv, Absorb
  <2>3. CASE base = 0
    <3>1. tag /\ ~lost /\ base' = rounds + 1 /\ nets = {}
      BY <1>1, <2>3 DEF TagInv, Absorb
    <3> QED
      BY <1>1, <2>1, <3>1
  <2> QED
    BY <1>1, <2>2, <2>3
<1> QED
  BY <1>2, <1>3 DEF TagInv

\* Only a coder round takes a tag.
LEMMA TagNext == TypeInv /\ BaseInv /\ TagInv /\ [Next]_vars => TagInv'
<1> SUFFICES ASSUME TypeInv, BaseInv, TagInv, [Next]_vars PROVE TagInv'
  OBVIOUS
<1>1. TypeOK
  BY DEF TypeInv
<1>2. UNCHANGED <<base, lost, nets>> => TagInv'
  BY DEF TagInv
<1>3. CASE Attempt \/ FixPass \/ SplitFix
  BY <1>1, <1>3, CoderRoundTags DEF Attempt, FixPass, SplitFix
<1>4. CASE OutOfRounds \/ Reverify \/ GateCheck \/ Assess \/ Review \/ Retry \/ Escalate
  BY <1>2, <1>4 DEF OutOfRounds, Reverify, GateCheck, Assess, Review, Retry, Escalate,
     NoCoder, netVars
<1>5. CASE Judge \/ HandOver \/ Split \/ SplitEnds
  BY <1>2, <1>5 DEF Judge, HandOver, Split, SplitEnds, NoCoder, netVars
<1>6. CASE UNCHANGED vars
  BY <1>2, <1>6 DEF vars, netVars
<1> QED
  BY <1>3, <1>4, <1>5, <1>6 DEF Next

\* What _absorb keeps of the base, of the changes and of the tags.
THEOREM BaseInvariant == Spec => [](TypeInv /\ BaseInv /\ TagInv)
<1>1. Init => BaseInv /\ TagInv
  BY DEF Init, BaseInv, TagInv
<1> QED
  BY <1>1, BaseNext, TagNext, TypeInvariant, PTL DEF Spec

-----------------------------------------------------------------------------
(* What a coder reports.                                                   *)

\* A nonempty set of positions has a last.
LEMMA GreatestOf ==
  ASSUME NEW n \in Nat, NEW T, T \subseteq 1..n, T # {}
  PROVE  \E x \in T : \A y \in T : y <= x
<1> DEFINE R == OpToRel(<, Nat)
           U == {n - x : x \in T}
<1>1. IsWellFoundedOn(R, Nat)  BY NatLessThanWellFounded
<1>2. \A x, y \in Nat : <<x, y>> \in R <=> x < y  BY Zenon DEF OpToRel
<1>3. U \subseteq Nat /\ U # {}
  <2>1. \A x \in T : n - x \in Nat  BY SMT
  <2> QED  BY <2>1
<1> HIDE DEF R, U
<1>4. PICK u \in U : \A v \in U : ~(<<v, u>> \in R)  BY <1>1, <1>3, WFMin
<1>5. \A v \in U : u \in Nat /\ v \in Nat /\ ~(v < u)  BY <1>2, <1>3, <1>4
<1>6. PICK x \in T : u = n - x  BY <1>4 DEF U
<1>7. ASSUME NEW y \in T PROVE y <= x
  <2>1. n - y \in U  BY DEF U
  <2>2. ~(n - y < n - x)  BY <1>5, <1>6, <2>1
  <2>3. x \in Int /\ y \in Int  BY <1>6, SMT
  <2> QED  BY <2>2, <2>3, SMT
<1> QED  BY <1>6, <1>7

\* What a tool prints last is found, whatever its prose repeated before.
LEMMA TailMarker ==
  ASSUME NEW e \in Seq(Markers), NEW t \in Seq(Markers), NEW kind, NEW i \in 1..Len(t),
         t[i].kind = kind, \A j \in 1..Len(t) : t[j].kind = kind => j <= i
  PROVE  /\ LastMarker(kind, e \o t) = Len(e) + i
         /\ (e \o t)[Len(e) + i] = t[i]
<1> DEFINE out == e \o t
           spot == Len(e) + i
<1>1. /\ Len(e) \in Nat /\ Len(t) \in Nat /\ DOMAIN out = 1..(Len(e) + Len(t))
      /\ \A j \in 1..(Len(e) + Len(t)) : out[j] = IF j <= Len(e) THEN e[j] ELSE t[j - Len(e)]
  <2>1. out \in Seq(Markers) /\ Len(out) = Len(e) + Len(t)
        /\ \A j \in 1..(Len(e) + Len(t)) : out[j] = IF j <= Len(e) THEN e[j] ELSE t[j - Len(e)]
    BY ConcatProperties
  <2> QED  BY <2>1, LenProperties
<1> HIDE DEF out
<1>2. spot \in 1..(Len(e) + Len(t)) /\ spot > Len(e) /\ spot - Len(e) = i  BY <1>1, SMT
<1>3. out[spot] = t[i] /\ spot \in Where(kind, out)
  <2>1. out[spot] = t[i]  BY <1>1, <1>2
  <2> QED  BY <1>1, <1>2, <2>1 DEF Where
<1>4. ASSUME NEW j \in Where(kind, out) PROVE j \in Int /\ j <= spot
  <2>1. j \in 1..(Len(e) + Len(t)) /\ out[j].kind = kind  BY <1>1 DEF Where
  <2>2. CASE j <= Len(e)  BY <1>1, <2>1, <2>2, SMT
  <2>3. CASE ~(j <= Len(e))
    <3>1. j - Len(e) \in 1..Len(t)  BY <1>1, <2>1, <2>3, SMT
    <3>2. t[j - Len(e)].kind = kind  BY <1>1, <2>1, <2>3
    <3>3. j - Len(e) <= i  BY <3>1, <3>2
    <3> QED  BY <1>1, <2>1, <3>3, SMT
  <2> QED  BY <2>2, <2>3
<1> HIDE DEF spot
<1>5. \A x \in Where(kind, out) : (\A y \in Where(kind, out) : y <= x) => x = spot
  BY <1>3, <1>4, <1>2, SMT
<1>6. \A y \in Where(kind, out) : y <= spot  BY <1>4
<1>7. (CHOOSE x \in Where(kind, out) : \A y \in Where(kind, out) : y <= x) = spot
  BY <1>3, <1>5, <1>6
<1>8. LastMarker(kind, out) = spot  BY <1>3, <1>7 DEF LastMarker
<1> QED  BY <1>3, <1>8 DEF out, spot

\* What it does not print itself is found in its prose, or not at all.
LEMMA EchoMarker ==
  ASSUME NEW e \in Seq(Markers), NEW t \in Seq(Markers), NEW kind,
         \A j \in 1..Len(t) : t[j].kind # kind
  PROVE  /\ LastMarker(kind, e \o t) \in 0..Len(e)
         /\ Where(kind, e \o t) = Where(kind, e)
         /\ Where(kind, e) = {} => LastMarker(kind, e \o t) = 0
<1> DEFINE out == e \o t
<1>1. /\ Len(e) \in Nat /\ Len(t) \in Nat /\ DOMAIN out = 1..(Len(e) + Len(t))
      /\ DOMAIN e = 1..Len(e)
      /\ \A j \in 1..(Len(e) + Len(t)) : out[j] = IF j <= Len(e) THEN e[j] ELSE t[j - Len(e)]
  <2>1. out \in Seq(Markers) /\ Len(out) = Len(e) + Len(t)
        /\ \A j \in 1..(Len(e) + Len(t)) : out[j] = IF j <= Len(e) THEN e[j] ELSE t[j - Len(e)]
    BY ConcatProperties
  <2> QED  BY <2>1, LenProperties
<1> HIDE DEF out
<1>2. ASSUME NEW j \in Where(kind, out) PROVE j \in Where(kind, e)
  <2>1. j \in 1..(Len(e) + Len(t)) /\ out[j].kind = kind  BY <1>1 DEF Where
  <2>2. j <= Len(e)
    <3> SUFFICES ASSUME ~(j <= Len(e)) PROVE FALSE  OBVIOUS
    <3>1. j - Len(e) \in 1..Len(t)  BY <1>1, <2>1, SMT
    <3>2. t[j - Len(e)].kind = kind  BY <1>1, <2>1
    <3> QED  BY <3>1, <3>2
  <2>3. j \in 1..Len(e)  BY <1>1, <2>1, <2>2, SMT
  <2> QED  BY <1>1, <2>1, <2>2, <2>3 DEF Where
<1>3. ASSUME NEW j \in Where(kind, e) PROVE j \in Where(kind, out)
  <2>1. j \in 1..Len(e) /\ e[j].kind = kind  BY <1>1 DEF Where
  <2>2. j \in 1..(Len(e) + Len(t)) /\ j <= Len(e)  BY <1>1, <2>1, SMT
  <2> QED  BY <1>1, <2>1, <2>2 DEF Where
<1>4. Where(kind, out) = Where(kind, e)  BY <1>2, <1>3
<1>5. LastMarker(kind, out) \in 0..Len(e)
  <2>1. CASE Where(kind, out) = {}
    <3>1. LastMarker(kind, out) = 0  BY <2>1 DEF LastMarker
    <3> QED  BY <1>1, <3>1, SMT
  <2>2. CASE Where(kind, out) # {}
    <3>1. Where(kind, out) \subseteq 1..Len(e)  BY <1>1, <1>4 DEF Where
    <3>2. \E x \in Where(kind, out) : \A y \in Where(kind, out) : y <= x
      BY <1>1, <2>2, <3>1, GreatestOf
    <3>3. LastMarker(kind, out) \in Where(kind, out)  BY <2>2, <3>2 DEF LastMarker
    <3> QED  BY <1>1, <3>1, <3>3, SMT
  <2> QED  BY <2>1, <2>2
<1>6. Where(kind, out) = {} => LastMarker(kind, out) = 0  BY DEF LastMarker
<1> QED  BY <1>4, <1>5, <1>6 DEF out

\* The parts of a summary, put together.
LEMMA PartsJoin ==
  ASSUME NEW a, NEW b, NEW c
  PROVE  /\ << >> \o <<a>> = <<a>> /\ <<a>> \o << >> = <<a>> /\ << >> \o << >> = << >>
         /\ <<a>> \o <<b>> = <<a, b>> /\ <<a, b>> \o <<c>> = <<a, b, c>>
         /\ <<a, b>> \o << >> = <<a, b>>
<1>1. /\ << >> \in Seq({a}) /\ <<a>> \in Seq({a}) /\ <<a, b>> \in Seq({a, b})
      /\ <<a, b, c>> \in Seq({a, b, c})
  OBVIOUS
<1>2. /\ << >> \o <<a>> = <<a>> /\ <<a>> \o << >> = <<a>> /\ << >> \o << >> = << >>
      /\ <<a, b>> \o << >> = <<a, b>>
  BY <1>1, ConcatEmptySeq
<1>3. <<a>> \o <<b>> = <<a, b>>
  <2>1. <<a>> \o <<b>> \in Seq({a, b}) /\ Len(<<a>> \o <<b>>) = 2 /\ Len(<<a, b>>) = 2  OBVIOUS
  <2>2. \A i \in 1..2 : (<<a>> \o <<b>>)[i] = <<a, b>>[i]  OBVIOUS
  <2> QED  BY <1>1, <2>1, <2>2, SeqEqual
<1>4. <<a, b>> \o <<c>> = <<a, b, c>>
  <2>1. /\ <<a, b>> \o <<c>> \in Seq({a, b, c})
        /\ Len(<<a, b>> \o <<c>>) = 3 /\ Len(<<a, b, c>>) = 3
    OBVIOUS
  <2>2. \A i \in 1..3 : (<<a, b>> \o <<c>>)[i] = <<a, b, c>>[i]  OBVIOUS
  <2> QED  BY <1>1, <2>1, <2>2, SeqEqual
<1> QED  BY <1>2, <1>3, <1>4

\* What a run that ended says of itself after its prose, if its edits stay.
Told(s) ==
  (IF s.printed THEN <<Marker("net", "own")>> ELSE << >>) \o
  (IF s.commits THEN <<Marker("committed", "own")>>
   ELSE IF s.end = "completed" THEN <<Marker("not_committed", "secrets")>>
   ELSE IF s.net THEN <<Marker("not_restored", "own")>> ELSE << >>) \o
  <<Marker("diff_lines", IF s.commits \/ s.end = "failed" THEN 2 ELSE 0)>>

LEMMA SummaryIs ==
  ASSUME NEW s \in Session, Possible(s), Left(s), s.end \in {"completed", "failed"}
  PROVE  Summary(s) = Told(s)
<1> DEFINE nm == Marker("net", "own")
           rm == Marker("not_restored", "own")
           cm == Marker("committed", "own")
           km == Marker("not_committed", "secrets")
           dm == Marker("diff_lines", IF s.commits \/ s.end = "failed" THEN 2 ELSE 0)
           net == IF s.printed THEN <<nm>> ELSE << >>
<1>1. s.edited /\ ~s.restored /\ (s.commits => s.end = "completed")
  BY DEF Left, Possible
<1>2. Summary(s) = net \o (IF s.end = "failed" /\ s.net THEN <<rm>> ELSE << >>)
                     \o (IF s.commits THEN <<cm>> ELSE << >>)
                     \o (IF s.end = "completed" /\ ~s.commits THEN <<km>> ELSE << >>)
                     \o <<dm>>
  BY <1>1 DEF Summary, If
<1> HIDE DEF nm, rm, cm, km, dm
<1>3. CASE s.commits
  BY <1>1, <1>2, <1>3, PartsJoin DEF Told, nm, cm, dm
<1>4. CASE s.end = "completed" /\ ~s.commits
  BY <1>1, <1>2, <1>4, PartsJoin DEF Told, nm, km, dm
<1>5. CASE s.end = "failed"
  BY <1>1, <1>2, <1>5, PartsJoin DEF Told, nm, rm, dm
<1> QED  BY <1>3, <1>4, <1>5

\* Whatever stays of a run that ended is reported as a change: its own line is
\* found behind whatever its prose repeats.
LEMMA EditsAreTold ==
  ASSUME NEW s \in Session, Possible(s), Left(s), s.end \in {"completed", "failed"}
  PROVE  PxxCoder(s).changed
<1> DEFINE nm == Marker("net", "own")
           rm == Marker("not_restored", "own")
           cm == Marker("committed", "own")
           km == Marker("not_committed", "secrets")
           d2 == Marker("diff_lines", 2)
           d0 == Marker("diff_lines", 0)
           e == s.echo
           out == Output(s)
<1>1. e \in Seq(Markers)  BY EchoAssumption DEF EchoAssumption, Session
<1>2. out = e \o Told(s)  BY SummaryIs DEF Output
<1>3. nm \in Markers /\ rm \in Markers /\ cm \in Markers /\ km \in Markers
      /\ d2 \in Markers /\ d0 \in Markers
  BY DEF Marker, Markers
<1>4. nm.kind = "net" /\ rm.kind = "not_restored" /\ cm.kind = "committed"
      /\ km.kind = "not_committed" /\ km.value = "secrets"
      /\ d2.kind = "diff_lines" /\ d2.value = 2 /\ d0.kind = "diff_lines"
  BY DEF Marker
<1>5. Len(e) \in Nat  BY <1>1, LenProperties
<1>6. s.net \in BOOLEAN /\ s.printed \in BOOLEAN /\ s.commits \in BOOLEAN
      /\ (s.net <=> s.printed) /\ (s.commits => s.end = "completed" /\ s.net)
      /\ (Where("net", e) # {} => s.printed)
  BY DEF Possible, Session
<1> HIDE DEF nm, rm, cm, km, d2, d0, e, out
<1>7. CASE s.commits
  <2> DEFINE t == <<nm, cm, d2>>
  <2>1. Told(s) = t  BY <1>6, <1>7, PartsJoin DEF Told, nm, cm, d2
  <2>2. t \in Seq(Markers) /\ Len(t) = 3 /\ t[1] = nm /\ t[2] = cm /\ t[3] = d2  BY <1>3
  <2> HIDE DEF t
  <2>last. 3 \in 1..Len(t) /\ \A j \in 1..Len(t) : j <= 3  BY <2>2, SMT
  <2>3. LastMarker("diff_lines", out) = Len(e) + 3 /\ out[Len(e) + 3] = t[3]
    BY <1>1, <1>2, <1>4, <2>last, <2>1, <2>2, TailMarker
  <2>4. LastMarker("diff_lines", out) # 0 /\ out[LastMarker("diff_lines", out)].value > 0
    BY <1>4, <1>5, <2>2, <2>3, SMT
  <2> QED  BY <1>6, <1>7, <2>4 DEF PxxCoder, Parse, out
<1>8. CASE s.end = "completed" /\ ~s.commits
  <2>1. \E i \in {1, 2} : Told(s) \in Seq(Markers) /\ Len(Told(s)) = i + 1
          /\ Told(s)[i] = km /\ Told(s)[i + 1] = d0 /\ (i = 2 => Told(s)[1] = nm)
    <3>1. CASE s.printed
      <4>1. Told(s) = <<nm, km, d0>>  BY <1>6, <1>8, <3>1, PartsJoin DEF Told, nm, km, d0
      <4>2. <<nm, km, d0>> \in Seq(Markers)  BY <1>3
      <4> QED  BY <4>1, <4>2, SMT
    <3>2. CASE ~s.printed
      <4>1. Told(s) = <<km, d0>>  BY <1>6, <1>8, <3>2, PartsJoin DEF Told, km, d0
      <4>2. <<km, d0>> \in Seq(Markers)  BY <1>3
      <4> QED  BY <4>1, <4>2, SMT
    <3> QED  BY <3>1, <3>2
  <2> DEFINE t == Told(s)
  <2> HIDE DEF t
  <2>2. PICK i \in {1, 2} : t \in Seq(Markers) /\ Len(t) = i + 1
          /\ t[i] = km /\ t[i + 1] = d0 /\ (i = 2 => t[1] = nm)
    BY <2>1 DEF t
  <2>3. i \in 1..Len(t) /\ \A j \in 1..Len(t) : j = i \/ j = i + 1 \/ (i = 2 /\ j = 1)
    BY <2>2, SMT
  <2>4. LastMarker("not_committed", out) = Len(e) + i /\ out[Len(e) + i] = t[i]
    <3>1. \A j \in 1..Len(t) : t[j].kind = "not_committed" => j = i
      BY <1>4, <2>2, <2>3
    <3>2. i <= i  BY <2>2, SMT
    <3> QED  BY <1>1, <1>2, <1>4, <2>2, <2>3, <3>1, <3>2, TailMarker DEF t
  <2>5. LastMarker("committed", out) \in 0..Len(e)
    <3>1. \A j \in 1..Len(t) : t[j].kind # "committed"  BY <1>4, <2>2, <2>3
    <3> QED  BY <1>1, <1>2, <2>2, <3>1, EchoMarker DEF t
  <2>6. LastMarker("not_committed", out) > LastMarker("committed", out)
    BY <1>5, <2>2, <2>4, <2>5, SMT
  <2>7. out[LastMarker("not_committed", out)].value # "nothing_to_commit"
    BY <1>4, <2>2, <2>4
  <2> QED  BY <1>8, <2>6, <2>7 DEF PxxCoder, Parse, out
<1>9. CASE s.end = "failed" /\ s.net
  <2> DEFINE t == <<nm, rm, d2>>
  <2>1. Told(s) = t  BY <1>6, <1>9, PartsJoin DEF Told, nm, rm, d2
  <2>2. t \in Seq(Markers) /\ Len(t) = 3 /\ t[1] = nm /\ t[2] = rm /\ t[3] = d2  BY <1>3
  <2> HIDE DEF t
  <2>last. 3 \in 1..Len(t) /\ \A j \in 1..Len(t) : j <= 3  BY <2>2, SMT
  <2>3. LastMarker("diff_lines", out) = Len(e) + 3 /\ out[Len(e) + 3] = t[3]
    BY <1>1, <1>2, <1>4, <2>last, <2>1, <2>2, TailMarker
  <2>4. LastMarker("not_restored", out) = Len(e) + 2
    <3>1. 2 \in 1..Len(t) /\ \A j \in 1..Len(t) : j <= 2 \/ j = 3  BY <2>2, SMT
    <3>2. \A j \in 1..Len(t) : t[j].kind = "not_restored" => j <= 2
      BY <1>4, <2>2, <3>1
    <3> QED  BY <1>1, <1>2, <1>4, <2>1, <2>2, <3>1, <3>2, TailMarker
  <2>5. Where("not_restored", out) # {}
    BY <1>5, <2>4, SMT DEF LastMarker
  <2>6. LastMarker("diff_lines", out) # 0 /\ out[LastMarker("diff_lines", out)].value > 0
    BY <1>4, <1>5, <2>2, <2>3, SMT
  <2> QED  BY <1>9, <2>5, <2>6 DEF PxxCoder, Parse, out
<1>10. CASE s.end = "failed" /\ ~s.net
  <2> DEFINE t == <<d2>>
  <2>1. Told(s) = t  BY <1>6, <1>10, PartsJoin DEF Told, d2
  <2>2. t \in Seq(Markers) /\ Len(t) = 1 /\ t[1] = d2  BY <1>3
  <2> HIDE DEF t
  <2>last. 1 \in 1..Len(t) /\ \A j \in 1..Len(t) : j <= 1  BY <2>2, SMT
  <2>3. LastMarker("diff_lines", out) = Len(e) + 1 /\ out[Len(e) + 1] = t[1]
    BY <1>1, <1>2, <1>4, <2>last, <2>1, <2>2, TailMarker
  <2>4. LastMarker("net", out) = 0
    <3>1. \A j \in 1..Len(t) : t[j].kind # "net"  BY <1>4, <2>2
    <3>2. Where("net", e) = {}  BY <1>6, <1>10
    <3> QED  BY <1>1, <1>2, <2>1, <2>2, <3>1, <3>2, EchoMarker
  <2>5. LastMarker("diff_lines", out) # 0 /\ out[LastMarker("diff_lines", out)].value > 0
    BY <1>4, <1>5, <2>2, <2>3, SMT
  <2> QED  BY <1>10, <2>4, <2>5 DEF PxxCoder, Parse, out
<1> QED  BY <1>7, <1>8, <1>9, <1>10

\* What a coder leaves behind it reports, or it hung.
LEMMA OutcomeTold ==
  ASSUME NEW o \in Outcomes, o.left
  PROVE  o.changed \/ o.hung
<1>1. PICK s \in Session : Possible(s)
        /\ o = [net |-> PxxCoder(s).net # "none", changed |-> PxxCoder(s).changed,
                left |-> Left(s), hung |-> Left(s) /\ s.end = "hung"]
  BY DEF Outcomes
<1>2. o.changed = PxxCoder(s).changed /\ o.left = Left(s) /\ o.hung = (Left(s) /\ s.end = "hung")
  BY <1>1
<1>3. s.end \notin {"unmapped", "unlaunched"}
  BY <1>1, <1>2 DEF Possible, Left
<1>4. s.end = "hung" \/ s.end \in {"completed", "failed"}
  BY <1>3 DEF Session
<1> QED  BY <1>1, <1>2, <1>4, EditsAreTold

\* What stays is numbered like the rounds, and told.
LeftInv == left \subseteq Nat /\ NothingLeftUntold

\* A round that leaves edits tells of them, or hung; nothing else leaves any.
LEMMA LeftNext == TypeInv /\ LeftInv /\ [PxxNext]_<<vars, pxxVars>> => LeftInv'
<1> SUFFICES ASSUME TypeInv, LeftInv, [PxxNext]_<<vars, pxxVars>> PROVE LeftInv'
  OBVIOUS
<1>1. CASE CoderSteps
  <2>1. CoderAnswers /\ rounds \in Nat
    BY <1>1 DEF CoderSteps, TypeInv, TypeOK
  <2>2. PICK o \in Outcomes :
          /\ changes' = IF o.changed THEN changes \cup {rounds + 1} ELSE changes
          /\ left' = IF o.left THEN left \cup {rounds + 1} ELSE left
          /\ hung' = IF o.hung THEN hung \cup {rounds + 1} ELSE hung
    BY <2>1 DEF CoderAnswers
  <2>3. o.left => o.changed \/ o.hung  BY OutcomeTold
  <2>4. rounds + 1 \in Nat  BY <2>1
  <2> QED  BY <2>2, <2>3, <2>4 DEF LeftInv, NothingLeftUntold
<1>2. CASE GateSteps \/ JudgeSteps \/ ReviewSteps \/ LoopSteps
  <2>1. UNCHANGED <<left, hung>>
    BY <1>2 DEF GateSteps, JudgeSteps, ReviewSteps, LoopSteps, pxxVars
  <2>2. UNCHANGED changes
    BY <1>2 DEF GateSteps, JudgeSteps, ReviewSteps, LoopSteps, GateCheck, Assess, Judge, Review,
       OutOfRounds, Reverify, Retry, Escalate, HandOver, Split, SplitEnds, NoCoder, netVars
  <2> QED  BY <2>1, <2>2 DEF LeftInv, NothingLeftUntold
<1>3. CASE UNCHANGED <<vars, pxxVars>>
  BY <1>3 DEF vars, netVars, pxxVars, LeftInv, NothingLeftUntold
<1> QED
  BY <1>1, <1>2, <1>3 DEF PxxNext

\* What an approving review has read.
LEMMA ReviewReads ==
  ASSUME TypeInv, BaseInv, TagInv, LeftInv, ReviewSteps, at' = "completed", reviewed'
  PROVE  read' # {} /\ left \subseteq read' \cup (hung \ nets)
<1>1. ReviewAnswers /\ ~NoReview
  BY DEF ReviewSteps, ReviewAnswers
<1>2. PICK r \in ReviewRuns :
        /\ reviewed' = (at' = "completed" /\ PxxReviewer(r).approved /\ PxxReviewer(r).reviewed)
        /\ read' = IF at' = "completed" /\ Read(r) THEN ShownEdits ELSE {}
  BY <1>1 DEF ReviewAnswers
<1>3. r.end = "ran" /\ r.exit = 0 /\ Verdict(r.verdicts) = "APPROVE"
  BY <1>2 DEF PxxReviewer
<1>4. Read(r)
  <2>1. r.verdicts # << >> /\ r.verdicts[1] = "APPROVE"
    BY <1>3 DEF Verdict
  <2> QED  BY <1>3, <2>1 DEF Read
<1>5. read' = ShownEdits /\ ShownEdits # {}
  BY <1>2, <1>3, <1>4 DEF ReviewRuns
<1>6. ASSUME NEW i \in left, i \notin ShownEdits PROVE i \in hung \ nets
  <2>1. i \in Nat /\ base \in Nat /\ (i \in changes \/ i \in hung) /\ lost \in BOOLEAN
    BY DEF LeftInv, NothingLeftUntold, TypeInv, TypeOK
  <2>2. CASE base = 0
    <3>1. nets = {}  BY <1>1, <2>1, <2>2 DEF TagInv, NoReview
    <3> QED  BY <1>6, <2>2, <3>1 DEF ShownEdits
  <2>3. CASE base # 0
    <3>1. base > 0 /\ ~(i >= base)  BY <1>6, <2>1, <2>3 DEF ShownEdits
    <3> QED  BY <2>1, <3>1 DEF BaseInv, TagInv
  <2> QED  BY <2>2, <2>3
<1> QED  BY <1>5, <1>6

\* A run completes by its review, and by nothing else.
LEMMA ReviewedNext ==
  TypeInv /\ BaseInv /\ TagInv /\ LeftInv /\ ApprovedIsReviewed /\ [PxxNext]_<<vars, pxxVars>>
    => ApprovedIsReviewed'
<1> SUFFICES ASSUME TypeInv, BaseInv, TagInv, LeftInv, ApprovedIsReviewed,
                    [PxxNext]_<<vars, pxxVars>>
             PROVE  ApprovedIsReviewed'
  OBVIOUS
<1>1. CASE CoderSteps
  <2>1. at' # "completed"
    BY <1>1 DEF CoderSteps, Attempt, FixPass, SplitFix
  <2> QED  BY <2>1 DEF ApprovedIsReviewed
<1>2. CASE GateSteps \/ JudgeSteps \/ LoopSteps
  <2>1. at' # "completed"
    BY <1>2 DEF GateSteps, JudgeSteps, LoopSteps, GateCheck, Assess, Judge, OutOfRounds,
       Reverify, Retry, Escalate, HandOver, Split, SplitEnds
  <2> QED  BY <2>1 DEF ApprovedIsReviewed
<1>3. CASE ReviewSteps
  <2>1. UNCHANGED <<left, hung, nets>>
    BY <1>3 DEF ReviewSteps, Review, NoCoder, netVars
  <2> QED  BY <1>3, <2>1, ReviewReads DEF ApprovedIsReviewed
<1>4. CASE UNCHANGED <<vars, pxxVars>>
  BY <1>4 DEF vars, netVars, pxxVars, ApprovedIsReviewed
<1> QED
  BY <1>1, <1>2, <1>3, <1>4 DEF PxxNext

\* Whatever the model's prose repeats of pxx's own markers, and however a run
\* ends, PxxCoder reports a change where edits stay, unless the coder hung.
THEOREM CoderTells == PxxSpec => []NothingLeftUntold
<1>1. PxxInit => LeftInv
  BY DEF PxxInit, LeftInv, NothingLeftUntold
<1>2. LeftInv => NothingLeftUntold
  BY DEF LeftInv
<1> QED
  BY <1>1, <1>2, LeftNext, AdaptersRunTheLoop, BaseInvariant, PTL DEF PxxSpec

\* For any mix of netted, un-netted, failed and hung rounds: a review that
\* counts as an approval in the evidence is a model's, of a diff with every edit
\* that stays but those of a coder that hung before its tag.
THEOREM ApprovalIsOfTheWhole == PxxSpec => []ApprovedIsReviewed
<1>1. PxxInit => LeftInv /\ ApprovedIsReviewed
  BY DEF PxxInit, LeftInv, NothingLeftUntold, ApprovedIsReviewed
<1> QED
  BY <1>1, LeftNext, ReviewedNext, AdaptersRunTheLoop, BaseInvariant, PTL DEF PxxSpec
=============================================================================

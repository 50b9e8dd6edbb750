------------------------------ MODULE SoftLoop ------------------------------
(***************************************************************************)
(* harness/softloop.py and harness/ladder.py: one task is driven through   *)
(* rounds of a coder, a gate, a vision judge and a local reviewer until it *)
(* is completed or handed to a human as failed.  What the four answer is   *)
(* any choice; what is done with the answers is the loop's and the         *)
(* ladder's.                                                               *)
(*                                                                         *)
(* A lane is its rank.  A gate's report is None for a pass and otherwise   *)
(* the list of violations it collected, which may be empty.  Coder rounds  *)
(* are numbered, and a rewind tag is the number of the round it was taken  *)
(* before.                                                                 *)
(***************************************************************************)
EXTENDS Integers, Sequences, FiniteSets

CONSTANTS
  Lanes,         \* rank of the most capable lane
  Vision,        \* is a vision judge configured?
  MaxRounds, MaxSplits, MaxRevisions,   \* Budget
  Reports,       \* lists of violations a failing gate may report
  None           \* no report: the gate passes

ASSUME LoopAssumption ==
  /\ Lanes \in Nat \ {0} /\ Vision \in BOOLEAN
  /\ {MaxRounds, MaxSplits, MaxRevisions} \subseteq Nat
  /\ \A r \in Reports : Len(r) \in Nat
  /\ None \notin Reports

VARIABLES
  at,          \* where run() is
  lane,
  history,     \* run.history: one attempt per gate check
  rounds, splits, revisions, judged,
  reverify,    \* reverify_changed
  changed,     \* changed, of the attempt being verified, or any_changed
  todo,        \* how many subtasks of a split are left
  base, lost,  \* run.review_base and run.review_base_lost
  nets,        \* run.net_tags
  changes,     \* history: the rounds that changed code
  stale        \* history: code changed since the gate was last run

budgetVars == <<rounds, splits, revisions, judged>>
netVars    == <<base, lost, nets, changes>>
vars == <<at, lane, history, budgetVars, reverify, changed, todo, netVars,
          stale>>

Attempts == [lane : 1..Lanes, changed : BOOLEAN, report : Reports \union {None}]

Init ==
  /\ at = "top" /\ lane \in 1..Lanes /\ history = << >>
  /\ rounds = 0 /\ splits = 0 /\ revisions = 0 /\ judged = FALSE
  /\ reverify = "none" /\ changed = FALSE /\ todo = 0
  /\ base = 0 /\ lost = FALSE /\ nets = {}
  /\ changes = {} /\ stale = FALSE

Spent == rounds >= MaxRounds

-----------------------------------------------------------------------------
(* A coder round, wherever it is made: it may change code and may leave a  *)
(* tag, and _absorb keeps the base of the whole change.                    *)

\* Mutant: the first tag is the base, whatever was changed before it.
AbsorbFirstTag(change, tag) ==
  /\ base' = IF base = 0 /\ tag THEN rounds + 1 ELSE base
  /\ lost' = lost
  /\ nets' = IF tag THEN nets \union {rounds + 1} ELSE nets

Absorb(change, tag) ==
  /\ base' = IF base = 0 /\ ~lost /\ tag THEN rounds + 1 ELSE base
  /\ lost' = (lost \/ (base = 0 /\ ~tag /\ change))
  /\ nets' = IF tag THEN nets \union {rounds + 1} ELSE nets

CoderRound(change) ==
  /\ rounds' = rounds + 1
  /\ \E tag \in BOOLEAN : Absorb(change, tag)
  /\ changes' = IF change THEN changes \union {rounds + 1} ELSE changes
  /\ stale' = (stale \/ change)

NoCoder == UNCHANGED <<rounds, netVars, stale>>

-----------------------------------------------------------------------------
(* The ladder.                                                             *)

Last == history[Len(history)]

\* Mutant: the lanes of the two attempts are not compared.
StalledAcrossLanes ==
  Len(history) >= 2 /\
    LET a == history[Len(history) - 1] IN
    /\ ~a.changed /\ ~Last.changed
    /\ a.report = Last.report /\ Last.report # << >>

Stalled ==
  Len(history) >= 2 /\
    LET a == history[Len(history) - 1] IN
    /\ a.lane = Last.lane
    /\ ~a.changed /\ ~Last.changed
    /\ a.report = Last.report /\ Last.report # << >>

Tries == Cardinality({i \in 1..Len(history) : history[i].lane = Last.lane})

Rung ==
  IF ~Stalled /\ Tries = 1 THEN "retry"
  ELSE IF Len(Last.report) > 1 THEN "split"
  ELSE IF Last.lane < Lanes THEN "escalate"
  ELSE IF Vision /\ ~judged THEN "judge"
  ELSE "review"

-----------------------------------------------------------------------------
(* SoftLoop.run.                                                           *)

OutOfRounds ==
  /\ at = "top" /\ reverify = "none" /\ Spent
  /\ at' = "failed"
  /\ NoCoder
  /\ UNCHANGED <<lane, history, splits, revisions, judged, reverify, changed,
                 todo>>

Attempt ==
  /\ at = "top" /\ reverify = "none" /\ ~Spent
  /\ at' = "gate"
  /\ \E c \in BOOLEAN : CoderRound(c) /\ changed' = c
  /\ UNCHANGED <<lane, history, splits, revisions, judged, reverify, todo>>

\* After a split or a fix pass the gate is run again with no coder round.
Reverify ==
  /\ at = "top" /\ reverify # "none"
  /\ at' = "gate" /\ changed' = (reverify = "changed") /\ reverify' = "none"
  /\ NoCoder
  /\ UNCHANGED <<lane, history, splits, revisions, judged, todo>>

GateCheck ==
  /\ at = "gate"
  /\ \E r \in Reports \union {None} :
       /\ history' = Append(history, [lane |-> lane, changed |-> changed,
                                      report |-> r])
       /\ at' = IF r = None THEN "assess" ELSE "ladder"
  /\ stale' = FALSE /\ changed' = FALSE
  /\ UNCHANGED <<lane, budgetVars, reverify, todo, netVars>>

\* The vision judge on a passing gate.
Assess ==
  /\ at = "assess"
  /\ \/ at' = "review"
     \/ Vision /\ at' = IF Spent THEN "failed" ELSE "fix"
  /\ NoCoder
  /\ UNCHANGED <<lane, history, splits, revisions, judged, reverify, changed,
                 todo>>

\* What a review of the diff since the base shows; with no base, of the
\* uncommitted work, which is that of rounds that left no tag.
Shown == IF base = 0 THEN changes \ nets ELSE {i \in changes : i >= base}

NoReview == lost /\ nets # {}

\* Mutant: the rounds left are not looked at before a fix pass.
ReviewUnbudgeted ==
  /\ at = "review"
  /\ \/ at' = "completed" /\ UNCHANGED revisions
     \/ /\ ~NoReview /\ revisions < MaxRevisions
        /\ at' = "fix" /\ revisions' = revisions + 1
  /\ NoCoder
  /\ UNCHANGED <<lane, history, splits, judged, reverify, changed, todo>>

\* Approved, not reviewed, or handed on with what is left of the findings;
\* or findings that a fix pass may still address.
Review ==
  /\ at = "review"
  /\ \/ at' = "completed" /\ UNCHANGED revisions
     \/ /\ ~NoReview /\ revisions < MaxRevisions /\ ~Spent
        /\ at' = "fix" /\ revisions' = revisions + 1
  /\ NoCoder
  /\ UNCHANGED <<lane, history, splits, judged, reverify, changed, todo>>

\* A pass on the findings of the reviewer, of the judge, or of both.
FixPass ==
  /\ at = "fix"
  /\ at' = "top"
  /\ \E c \in BOOLEAN :
       CoderRound(c) /\ reverify' = IF c THEN "changed" ELSE "unchanged"
  /\ UNCHANGED <<lane, history, splits, revisions, judged, changed, todo>>

LadderVars == <<history, revisions, reverify, changed>>

Retry ==
  /\ at = "ladder" /\ Rung = "retry"
  /\ at' = "top"
  /\ NoCoder /\ UNCHANGED <<LadderVars, lane, splits, judged, todo>>

Escalate ==
  /\ at = "ladder" /\ Rung = "escalate"
  /\ at' = "top" /\ lane' = Last.lane + 1
  /\ NoCoder /\ UNCHANGED <<LadderVars, splits, judged, todo>>

\* If the judge accepts, the gate is suspect; if not, one informed retry.
Judge ==
  /\ at = "ladder" /\ Rung = "judge"
  /\ judged' = TRUE
  /\ \/ at' = "failed"
     \/ ~Spent /\ at' = "fix"
  /\ NoCoder /\ UNCHANGED <<LadderVars, lane, splits, todo>>

HandOver ==
  /\ at = "ladder" /\ Rung = "review"
  /\ at' = "failed"
  /\ NoCoder /\ UNCHANGED <<LadderVars, lane, splits, judged, todo>>

Split ==
  /\ at = "ladder" /\ Rung = "split"
  /\ IF splits >= MaxSplits THEN at' = "failed" /\ UNCHANGED <<splits, todo>>
     ELSE /\ at' = "split" /\ splits' = splits + 1
          /\ todo' = Len(Last.report)
  /\ NoCoder /\ UNCHANGED <<LadderVars, lane, judged>>

SplitFix ==
  /\ at = "split" /\ todo > 0 /\ ~Spent
  /\ todo' = todo - 1
  /\ \E c \in BOOLEAN : CoderRound(c) /\ changed' = (changed \/ c)
  /\ UNCHANGED <<at, lane, history, splits, revisions, judged, reverify>>

\* Mutant: a split waits for all its subtasks, rounds or no rounds.
SplitEndsWhenDone ==
  /\ at = "split" /\ todo = 0
  /\ at' = "top" /\ changed' = FALSE
  /\ reverify' = IF changed THEN "changed" ELSE "unchanged"
  /\ NoCoder
  /\ UNCHANGED <<lane, history, splits, revisions, judged, todo>>

\* Mutant: the parent counts as verified by its subtasks.
SplitEndsPassed ==
  /\ at = "split" /\ (todo = 0 \/ Spent)
  /\ at' = "assess" /\ todo' = 0 /\ changed' = FALSE
  /\ NoCoder
  /\ UNCHANGED <<lane, history, splits, revisions, judged, reverify>>

SplitEnds ==
  /\ at = "split" /\ (todo = 0 \/ Spent)
  /\ at' = "top" /\ todo' = 0 /\ changed' = FALSE
  /\ reverify' = IF changed THEN "changed" ELSE "unchanged"
  /\ NoCoder
  /\ UNCHANGED <<lane, history, splits, revisions, judged>>

Next ==
  \/ OutOfRounds \/ Attempt \/ Reverify \/ GateCheck \/ Assess \/ Review
  \/ FixPass \/ Retry \/ Escalate \/ Judge \/ HandOver \/ Split \/ SplitFix
  \/ SplitEnds

Spec == Init /\ [][Next]_vars

\* Coder, gate, judge and reviewer answer, and the loop goes on.
FairSpec == Spec /\ WF_vars(Next)
-----------------------------------------------------------------------------
Ended == at \in {"completed", "failed"}

TypeOK ==
  /\ at \in {"top", "gate", "assess", "review", "fix", "ladder", "split",
             "completed", "failed"}
  /\ lane \in 1..Lanes
  /\ history \in Seq(Attempts)
  /\ {rounds, splits, revisions, todo, base} \subseteq Nat
  /\ {judged, changed, lost, stale} \subseteq BOOLEAN
  /\ reverify \in {"none", "changed", "unchanged"}
  /\ {nets, changes} \subseteq SUBSET Nat

\* The ceilings hold in every state: no path through splits, reviews, judges
\* and retries makes one coder round more than max_rounds (softloop.Budget:
\* "Hard ceilings"; "stop here rather than overrun by one").
WithinBudget ==
  rounds <= MaxRounds /\ splits <= MaxSplits /\ revisions <= MaxRevisions

\* A completed run ends on the very code the gate passed last: no fix pass,
\* split or retry came after that check (model.Task: 'done' must be
\* machine-checkable "else COMPLETED means nothing").
CompletedIsVerified ==
  at = "completed" => ~stale /\ history # << >> /\ Last.report = None

\* Where a local review is asked for, the base it is given shows it every
\* change the task made so far (softloop: "an
\* un-netted change FOLLOWED by a tag has no ref that covers it: record that
\* rather than review part of the change as if it were all").
ReviewSeesAll == at = "review" /\ ~NoReview => Shown = changes

\* No lane is left, for a better one or for a human, before it had two
\* attempts, one of them its retry (ladder._stalled: "must still get its
\* retry (else a DEEP-lane run ends at REVIEW one attempt early)").
LaneGetsItsRetry ==
  at = "ladder" /\ Rung \in {"escalate", "judge", "review"} => Tries >= 2

\* Every run ends, whatever the four answer (docs/software-violoop-harness.md:
\* "Thrashing is a bug, not a fallback").
Terminates == <>Ended
=============================================================================

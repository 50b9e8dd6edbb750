------------------------------- MODULE Adapters -------------------------------
(* src/psoperator/harness/adapters.py: the tools behind the soft loop's four *)
(* seams, and what is made of their output: pxx as the coder and as the      *)
(* reviewer, a shell command as the gate, a vision model as the judge. What  *)
(* a tool does is any choice; pxx, which is not part of the repository, does *)
(* what the comments of this file and its tests say of it.                   *)
EXTENDS SoftLoop
SE == INSTANCE SequencesExt

CONSTANTS
  Echoes,     \* markers that prose in the output may repeat before the tail
  MaxStray,   \* bound: rounds that have no net or whose coder hung
  GateLines   \* what a failing gate's output may hold, one item a line that is lifted

VARIABLES
  left,      \* rounds whose edits are in the tree or in a commit
  hung,      \* those of them whose coder hung
  reviewed,  \* the evidence says that a review approved
  read       \* rounds whose edits the model of the last review read

pxxVars == <<left, hung, reviewed, read>>

----------------------------------------------------------------------------
(* One run of pxx: how it ends, and what it does. The output is the markers  *)
(* in the order they were printed, those of the model's prose first.         *)
Session == [end: {"unmapped", "unlaunched", "hung", "completed", "failed"}, net: BOOLEAN, edited: BOOLEAN,
            commits: BOOLEAN, restored: BOOLEAN, printed: BOOLEAN, echo: Echoes]
Marker(kind, value) == [kind |-> kind, value |-> value]
If(condition, marker) == IF condition THEN <<marker>> ELSE << >>
Markers == [kind: {"net", "not_restored", "committed", "not_committed"},
            value: {"own", "echo", "secrets", "nothing_to_commit"}]
             \cup [kind: {"diff_lines"}, value: Nat]
Where(kind, out) == {i \in DOMAIN out : out[i].kind = kind}

ASSUME EchoAssumption == Echoes \subseteq Seq(Markers)

\* pxx nets the tree, commits when it completed and has edits, and puts a failed
\* run's edits back if it has a net. A run without a net does not commit.
Possible(s) ==
  /\ s.commits => s.end = "completed" /\ s.edited /\ s.net
  /\ s.restored => s.end = "failed" /\ s.net
  /\ s.printed => s.net
  /\ s.net /\ s.end # "hung" => s.printed
  /\ s.end \in {"unmapped", "unlaunched"} => ~s.net /\ ~s.edited /\ s.echo = << >>
  /\ Where("net", s.echo) # {} => s.printed     \* bound: a tag is echoed by a run that prints its own
Summary(s) ==
  If(s.printed, Marker("net", "own"))
  \o If(s.end = "failed" /\ s.net /\ ~s.restored, Marker("not_restored", "own"))
  \o If(s.end = "completed" /\ s.commits, Marker("committed", "own"))
  \o If(s.end = "completed" /\ ~s.commits, Marker("not_committed", IF s.edited THEN "secrets" ELSE "nothing_to_commit"))
  \o If(s.end \in {"completed", "failed"}, Marker("diff_lines", IF s.edited /\ (s.commits \/ s.end = "failed") THEN 2 ELSE 0))
Output(s) == s.echo \o Summary(s)
Left(s) == s.edited /\ ~s.restored

----------------------------------------------------------------------------
(* PxxCoder.                                                                 *)

\* Mutant: the first match counts.
LastFirst(kind, out) ==
  IF Where(kind, out) = {} THEN 0
  ELSE CHOOSE i \in Where(kind, out) : \A j \in Where(kind, out) : i <= j

\* The position of the last marker of a kind, 0 if there is none.
LastMarker(kind, out) ==
  IF Where(kind, out) = {} THEN 0
  ELSE CHOOSE i \in Where(kind, out) : \A j \in Where(kind, out) : j <= i

Parse(out, exit) ==
  LET net == LastMarker("net", out)
      committed == LastMarker("committed", out)
      skipped == LastMarker("not_committed", out)
      diff == LastMarker("diff_lines", out)
      edits == diff # 0 /\ out[diff].value > 0
      kept == skipped > committed /\ out[skipped].value # "nothing_to_commit"
  IN  [net |-> IF net = 0 THEN "none" ELSE out[net].value,
       changed |-> IF exit = 0 THEN edits \/ committed > skipped \/ kept
                   ELSE edits /\ ~(net # 0 /\ Where("not_restored", out) = {})]

\* A coder that hung reports no change, and the tag its output had so far.
PxxCoder(s) ==
  IF s.end \in {"unmapped", "unlaunched"} THEN [net |-> "none", changed |-> FALSE]
  ELSE IF s.end = "hung" THEN [net |-> Parse(Output(s), 1).net, changed |-> FALSE]
  ELSE Parse(Output(s), IF s.end = "completed" THEN 0 ELSE 1)

\* What a coder round may amount to: what is reported, and what is left behind.
Outcomes ==
  {[net |-> PxxCoder(s).net # "none", changed |-> PxxCoder(s).changed,
    left |-> Left(s), hung |-> Left(s) /\ s.end = "hung"] : s \in {x \in Session : Possible(x)}}
CoderAnswers ==
  /\ \E o \in Outcomes :
       LET With(set, condition) == IF condition THEN set \cup {rounds + 1} ELSE set
       IN  /\ changes' = With(changes, o.changed)
           /\ nets' = With(nets, o.net)
           /\ left' = With(left, o.left)
           /\ hung' = With(hung, o.hung)
  /\ Cardinality((1..rounds' \ nets') \cup hung') <= MaxStray

----------------------------------------------------------------------------
(* CommandGate: a pass only for exit 0; a gate that hangs, cannot be         *)
(* launched or fails without a line to lift is one violation.                *)
DefaultViolations(lines) ==
  SE!FoldLeft(LAMBDA found, line : IF SE!Contains(found, line) THEN found ELSE Append(found, line), << >>, lines)
CommandGate(g) ==
  IF ~g.ran THEN <<"broken">>
  ELSE IF g.exit = 0 THEN None
  ELSE IF DefaultViolations(g.lines) = << >> THEN <<"exited">> ELSE DefaultViolations(g.lines)
GateAnswers ==
  \E g \in [ran: BOOLEAN, exit: {0, 1}, lines: GateLines] :
    history' = Append(history, [lane |-> lane, changed |-> changed, report |-> CommandGate(g)])

(* OllamaVisionJudge: whatever it cannot do, it has nothing against it.      *)
Acceptable(j) == ~(j.captured /\ j.replied /\ j.verdict = "problem")
JudgeAnswers(accepted) ==
  \E j \in [captured: BOOLEAN, replied: BOOLEAN, verdict: {"ok", "problem", "unreadable"}] :
    Acceptable(j) = accepted

----------------------------------------------------------------------------
(* PxxReviewer. pxx review shows the diff since the tag or, with none, what  *)
(* is not committed, and exits 64 if there is nothing.                       *)
ShownEdits == IF base = 0 THEN left \ nets ELSE {i \in left : i >= base}

\* Mutant: whatever line begins with verdict counts.
VerdictAny(lines) == IF "APPROVE" \in {lines[i] : i \in DOMAIN lines} THEN "APPROVE" ELSE "missing"

\* The first verdict line: a finding may hold another.
Verdict(lines) == IF lines = << >> THEN "missing" ELSE lines[1]

PxxReviewer(r) ==
  [approved |-> r.end # "ran" \/ r.exit # 2,
   reviewed |-> r.end = "ran" /\ (r.exit = 2 \/ (r.exit = 0 /\ Verdict(r.verdicts) = "APPROVE"))]

\* A model that read the diff says APPROVE or REVISE in the header, and a
\* finding may quote a verdict; NO_REVIEW is that of no model, with exit 0.
Read(r) == r.end = "ran" /\ r.verdicts # << >> /\ r.verdicts[1] # "NO_REVIEW"
ReviewRuns ==
  {r \in [end: {"unmapped", "hung", "ran"}, exit: {0, 1, 2, 64},
          verdicts: {<< >>} \cup {<<v>> \o q : v \in {"APPROVE", "REVISE", "NO_REVIEW"}, q \in {<< >>, <<"APPROVE">>}}] :
     /\ r.exit = 64 <=> ShownEdits = {}
     /\ Read(r) /\ r.verdicts[1] = "APPROVE" => r.exit = 0
     /\ Read(r) /\ r.verdicts[1] = "REVISE" <=> r.end = "ran" /\ r.exit = 2}
ReviewAnswers ==
  IF NoReview THEN at' = "completed" /\ reviewed' = FALSE /\ read' = {}
  ELSE \E r \in ReviewRuns :
         LET result == PxxReviewer(r)
         IN  /\ at' = "fix" => ~result.approved
             /\ at' = "completed" => result.approved \/ revisions >= MaxRevisions \/ Spent
             /\ reviewed' = (at' = "completed" /\ result.approved /\ result.reviewed)
             /\ read' = IF at' = "completed" /\ Read(r) THEN ShownEdits ELSE {}

----------------------------------------------------------------------------
PxxInit == Init /\ left = {} /\ hung = {} /\ reviewed = FALSE /\ read = {}

CoderSteps  == (Attempt \/ FixPass \/ SplitFix) /\ CoderAnswers /\ UNCHANGED <<reviewed, read>>
GateSteps   == GateCheck /\ GateAnswers /\ UNCHANGED pxxVars
JudgeSteps  ==
  /\ \/ Assess /\ JudgeAnswers(at' = "review")
     \/ Judge /\ (at' = "fix" => JudgeAnswers(FALSE)) /\ (at' = "failed" => Spent \/ JudgeAnswers(TRUE))
  /\ UNCHANGED pxxVars
ReviewSteps == Review /\ ReviewAnswers /\ UNCHANGED <<left, hung>>
LoopSteps   ==
  /\ OutOfRounds \/ Reverify \/ Retry \/ Escalate \/ HandOver \/ Split \/ SplitEnds
  /\ UNCHANGED pxxVars

PxxNext == CoderSteps \/ GateSteps \/ JudgeSteps \/ ReviewSteps \/ LoopSteps

PxxSpec == PxxInit /\ [][PxxNext]_<<vars, pxxVars>> /\ WF_<<vars, pxxVars>>(PxxNext)

----------------------------------------------------------------------------
\* No edit that stays is kept from the loop: whatever a run that ended left in
\* the tree or committed it reports as a change, though its prose repeats the
\* markers and the failed run's own line says edits and no restore
\* (adapters.py:205-229). Only a coder that hung leaves some untold.
NothingLeftUntold == left \subseteq changes \cup hung

\* An approval in the evidence is a model's approval of the whole change: it
\* read a diff, and the diff held every edit that stays, those of rounds with
\* and without a net, of failed ones and of hung ones (softloop.py:156-171,
\* adapters.py:172-183, :493-533). A coder that hung before it printed its tag
\* is the exception: it passes for a round that changed nothing.
ApprovedIsReviewed ==
  at = "completed" /\ reviewed => read # {} /\ left \subseteq read \cup (hung \ nets)
=============================================================================

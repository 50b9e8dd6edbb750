----------------------------- MODULE AgentLoop -----------------------------
(***************************************************************************)
(* runtime/loop.py with the keyframe filter of perception/diff.py: one     *)
(* AgentLoop object whose run is called any number of times.  The model    *)
(* may answer anything, or not at all; the screen changes while it thinks. *)
(***************************************************************************)
EXTENDS Desk

CONSTANTS
  ModelActions,    \* what the model asks for, without the frame id
  MaxSteps,        \* max_steps
  DiffThreshold,   \* nearer than this to the frame before: static
  PhashThreshold,  \* within this of the keyframe: the same scene
  HasImagehash     \* is imagehash installed?

ASSUME LoopAssumption ==
  /\ {MaxSteps, DiffThreshold, PhashThreshold} \subseteq Nat
  /\ HasImagehash \in BOOLEAN
  /\ \A a \in ModelActions : WellFormed(a)

NoScreen == -1

VARIABLES
  loop,                  \* "off", "top", "thinking", "failing", "acting"
  step,                  \* the step of the range
  lastFrame, lastKey,    \* KeyframeFilter._last_frame and _last_keyframe
  shown,                 \* history: the frame the model was last shown
  calls, skipped,        \* model_calls and skipped_frames
  hist,                  \* decisions of this run: kind, and if terminal
  loopResult             \* "none", or how run ended: "finished", "stopped",
                         \* "steps", "degraded", "raised"

loopVars == <<loop, step, lastFrame, lastKey, shown, calls, skipped, hist,
              loopResult>>
filterVars == <<lastFrame, lastKey>>

LoopInit ==
  /\ loop = "off" /\ step = 0 /\ lastFrame = NoScreen /\ lastKey = NoScreen
  /\ shown = 0 /\ calls = 0 /\ skipped = 0 /\ hist = << >> /\ loopResult = "none"

\* Everything of Desk that a client leaves alone when it grabs, or asks.
GrabLeaves == UNCHANGED <<screen, changes, stop, stops, gate, req, ans, queue,
                          targetVars>>
AskLeaves == UNCHANGED <<screen, changes, stop, stops, frame, shot, targetVars>>

-----------------------------------------------------------------------------
RunLoop ==
  /\ loop = "off" /\ gate = "idle"
  /\ loop' = "top" /\ step' = 1
  /\ calls' = 0 /\ skipped' = 0 /\ hist' = << >> /\ loopResult' = "none"
  /\ UNCHANGED <<filterVars, shown, deskVars>>

\* KeyframeFilter.should_query of the image s.
ShouldQuery(s) ==
  \/ lastFrame = NoScreen
  \/ /\ Distance(lastFrame, s) >= DiffThreshold
     /\ HasImagehash /\ lastKey # NoScreen => Distance(lastKey, s) > PhashThreshold

\* Both ways out of the loop are at its top.
LoopGrabs ==
  /\ loop = "top" /\ step <= MaxSteps
  /\ Grabs /\ GrabLeaves
  /\ lastFrame' = shot'
  /\ \/ /\ ShouldQuery(shot')
        /\ lastKey' = shot' /\ loop' = "thinking" /\ UNCHANGED <<step, skipped>>
     \/ /\ ~ShouldQuery(shot')
        /\ skipped' = skipped + 1 /\ step' = step + 1 /\ UNCHANGED <<lastKey, loop>>
  /\ UNCHANGED <<shown, calls, hist, loopResult>>

Ends(result) == loop' = "off" /\ loopResult' = result

\* The capture card has no frame to give, and run does not catch it.
LoopGrabRaises ==
  /\ loop = "top" /\ step <= MaxSteps
  /\ Ends("raised")
  /\ UNCHANGED <<step, filterVars, shown, calls, skipped, hist, deskVars>>

\* Mutant: the range is one step longer than what the loop looks at.
StepsSpentLate ==
  /\ loop = "top" /\ step > MaxSteps + 1
  /\ Ends("steps")
  /\ UNCHANGED <<step, filterVars, shown, calls, skipped, hist, deskVars>>

StepsSpent ==
  /\ loop = "top" /\ step > MaxSteps
  /\ Ends("steps")
  /\ UNCHANGED <<step, filterVars, shown, calls, skipped, hist, deskVars>>

\* think raises VLMUnavailable, or something run does not catch.
ModelUnavailable ==
  /\ loop = "thinking"
  /\ Ends("degraded") \/ Ends("raised")
  /\ shown' = frame
  /\ UNCHANGED <<step, filterVars, calls, skipped, hist, deskVars>>

\* The model answers with one action and the frame id it likes; a call
\* expression is given the current one.
ModelActs ==
  /\ loop = "thinking"
  /\ \E a \in ModelActions, id \in {frame, frame - 1} :
       Ask([f \in DOMAIN a \union {"frame_id"} |->
              IF f = "frame_id" THEN id ELSE a[f]])
  /\ calls' = calls + 1 /\ shown' = frame /\ loop' = "acting"
  /\ AskLeaves
  /\ UNCHANGED <<step, filterVars, skipped, hist, loopResult>>

\* The answer does not parse: _synthetic_fail asks for a FAIL of its own.
ModelBabbles ==
  /\ loop = "thinking"
  /\ Ask([kind |-> "fail", frame_id |-> frame])
  /\ calls' = calls + 1 /\ shown' = frame /\ loop' = "failing"
  /\ AskLeaves
  /\ UNCHANGED <<step, filterVars, skipped, hist, loopResult>>

Terminal(a) == a.kind \in {"done", "fail"}

Notes == hist' = Append(hist, [kind |-> ans, terminal |-> Terminal(req)])

\* Mutant: an answer that does not parse costs no step.
LoopGoesOnFree ==
  /\ loop = "failing"
  /\ Take /\ Notes
  /\ loop' = "thinking"
  /\ AskLeaves
  /\ UNCHANGED <<step, filterVars, shown, calls, skipped, loopResult>>

\* continue, whatever the decision on the synthetic action was.
LoopGoesOn ==
  /\ loop = "failing"
  /\ Take /\ Notes
  /\ loop' = "top" /\ step' = step + 1
  /\ AskLeaves
  /\ UNCHANGED <<filterVars, shown, calls, skipped, loopResult>>

StoppedBy == {"rejected-stale", "rejected-target", "kill-switched"}

\* Mutant: the next model call is about the frame the action was decided on.
LoopDecidedNoGrab ==
  /\ loop = "acting"
  /\ Take /\ Notes
  /\ \/ Terminal(req) /\ Ends("finished") /\ UNCHANGED step
     \/ ~Terminal(req) /\ ans \in StoppedBy /\ Ends("stopped") /\ UNCHANGED step
     \/ /\ ~Terminal(req) /\ ans \notin StoppedBy
        /\ loop' = IF step < MaxSteps THEN "thinking" ELSE "top"
        /\ step' = step + 1 /\ UNCHANGED loopResult
  /\ AskLeaves
  /\ UNCHANGED <<filterVars, shown, calls, skipped>>

LoopDecided ==
  /\ loop = "acting"
  /\ Take /\ Notes
  /\ \/ Terminal(req) /\ Ends("finished") /\ UNCHANGED step
     \/ ~Terminal(req) /\ ans \in StoppedBy /\ Ends("stopped") /\ UNCHANGED step
     \/ /\ ~Terminal(req) /\ ans \notin StoppedBy
        /\ loop' = "top" /\ step' = step + 1 /\ UNCHANGED loopResult
  /\ AskLeaves
  /\ UNCHANGED <<filterVars, shown, calls, skipped>>

LoopSteps ==
  \/ LoopGrabs \/ LoopGrabRaises \/ StepsSpent \/ ModelUnavailable \/ ModelActs
  \/ ModelBabbles \/ LoopGoesOn \/ LoopDecided
=============================================================================

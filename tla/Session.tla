------------------------------ MODULE Session ------------------------------
(***************************************************************************)
(* A process that drives the target machine: examples/run_crashcart.py     *)
(* with an agent loop, or the replay of a skill over the same executor.    *)
(***************************************************************************)
EXTENDS AgentLoop, Replay

CONSTANT MaxRuns   \* bound: calls of run, or of replay

ASSUME SessionAssumption == MaxRuns \in Nat

VARIABLES client, runs

vars == <<deskVars, loopVars, replayVars, client, runs>>

Init ==
  /\ DeskInit /\ LoopInit /\ ReplayInit
  /\ client \in {"loop", "replay"} /\ runs = 0

ClientIdle == loop = "off" /\ rp = "off"

Call ==
  /\ runs < MaxRuns /\ runs' = runs + 1 /\ UNCHANGED client
  /\ \/ client = "loop" /\ RunLoop /\ UNCHANGED replayVars
     \/ /\ client = "replay" /\ \E text \in Params : StartReplay(text)
        /\ UNCHANGED loopVars

Works ==
  /\ UNCHANGED <<client, runs>>
  /\ \/ LoopSteps /\ UNCHANGED replayVars
     \/ ReplaySteps /\ UNCHANGED loopVars
     \/ DeskSteps /\ UNCHANGED <<loopVars, replayVars>>

Around ==
  /\ ScreenChanges \/ Engage \/ Release
  /\ UNCHANGED <<client, runs, loopVars, replayVars>>

Next == Call \/ Works \/ Around

Spec == Init /\ [][Next]_vars

\* The process runs: the capture, the model and the human answer, or fail,
\* in time (model_timeout_s; a human at the prompt, who is another matter).
FairSpec == Spec /\ WF_vars(Works)
-----------------------------------------------------------------------------
TypeOK ==
  /\ DeskTypeOK
  /\ loop \in {"off", "top", "thinking", "failing", "acting"}
  /\ step \in 0..(MaxSteps + 1)
  /\ {lastFrame, lastKey} \subseteq Screens \union {NoScreen}
  /\ {shown, calls, skipped} \subseteq Nat /\ calls + skipped <= MaxSteps
  /\ Len(hist) <= calls
  /\ loopResult \in {"none", "finished", "stopped", "steps", "degraded", "raised"}
  /\ rp \in {"off", "step", "acting"}
  /\ rstep \in 0..(Len(Skill) + 1)
  /\ bound \in Params \union {Placeholder}
  /\ replayResult \in {"none", "ok", "error", "raised"}
  /\ loop = "off" \/ rp = "off"

\* The loop acts on what the model saw, and the model saw what the input
\* before it did: an action that is carried out was decided on the newest
\* frame, which was grabbed after the last input had ended (loop.py: "grab a
\* fresh frame so the next model call sees consequences").
ActsOnWhatItSaw ==
  gate = "executing" /\ client = "loop" =>
    req.frame_id = shown /\ shown = frame /\ shown > acted

\* A replay carries its steps out in their order, each once, none before the
\* one before it was approved, and is ok only if all were (replay.py: "Skills
\* get no back door").
StepsInOrder ==
  /\ rp = "acting" => carried = [i \in 1..(rstep - 1) |-> i]
  /\ replayResult = "ok" => carried = [i \in 1..Len(Skill) |-> i]

\* Every call of run or replay ends, with a result or an exception.
CallsReturn == ~ClientIdle ~> ClientIdle

\* A character that is not on the layout is refused (executor_ch9329.py:
\* "Raises on unsupported chars"; test_topology_b.py has the euro sign).
UnsupportedRefused ==
  ans = "executed" /\ req.kind = "type" =>
    \A i \in DOMAIN req.text : OnLayout(req.text[i])
=============================================================================

------------------------------- MODULE Replay -------------------------------
(***************************************************************************)
(* skills/replay.py: a ReplayEngine that replays one Skill object, again   *)
(* and again, each step grounded anew and asked of the gatekeeper like any *)
(* other action.  What the accessibility tree and OCR find on a frame is   *)
(* left open; the image layer has no matcher and the replay leaves the     *)
(* model layer out.  The placeholder of a step's text is the whole text.   *)
(***************************************************************************)
EXTENDS Desk

CONSTANTS
  Skill,    \* its steps: kind, hotkey, located, x, to, keys, text
  Params,   \* texts a caller may give for the placeholder
  Points    \* where a locator may be found

NoPoint == -1
Placeholder == <<-1>>   \* no text: -1 is no code point

ASSUME SkillAssumption ==
  /\ Len(Skill) \in Nat /\ DOMAIN Skill = 1..Len(Skill)
  /\ Points \subseteq Int
  /\ \A i \in DOMAIN Skill :
       /\ Skill[i].kind \in Kinds /\ {Skill[i].x, Skill[i].to} \subseteq Int
       /\ {Skill[i].hotkey, Skill[i].keys} \subseteq Seq(KeyNames)
       /\ Skill[i].text \in Seq(Chars) \union {Placeholder}
  /\ Params \subseteq Seq(Chars)

VARIABLES
  rp,             \* "off", "step", "acting"
  rstep,          \* the next step of the skill
  bound,          \* what its placeholder was replaced by, or Placeholder
  replayResult,   \* "none", "ok", "error", "raised"
  carried         \* history: steps of this replay that were approved

replayVars == <<rp, rstep, bound, replayResult, carried>>

ReplayInit ==
  /\ rp = "off" /\ rstep = 0 /\ bound = Placeholder
  /\ replayResult = "none" /\ carried = << >>

RGrabLeaves == UNCHANGED <<screen, changes, stop, stops, ans, queue, targetVars>>

-----------------------------------------------------------------------------
\* Grounder.resolve without the model, then the recorded coordinates: a hot
\* key wins over everything, and has no point.
Grounded(s) ==
  IF s.hotkey # << >> THEN {[keys |-> s.hotkey, point |-> NoPoint]}
  ELSE {[keys |-> << >>, point |-> p] :
          p \in (IF s.located THEN Points ELSE {}) \union {s.x}}

Text(s) == IF s.text = Placeholder THEN bound' ELSE s.text

\* _to_action: RuntimeError is reported, what Action raises is not caught.
Keys(s, g) == IF s.keys # << >> THEN s.keys ELSE g.keys

Ungrounded(s, g) == s.kind \notin {"key", "type"} /\ g.point = NoPoint

Invalid(s, g) ==
  \/ s.kind = "key" /\ Keys(s, g) = << >>
  \/ s.kind = "type" /\ Text(s) = << >>
  \/ s.kind \in {"scroll", "wait"} /\ g.point # NoPoint
  \/ s.kind = "drag" /\ g.point # NoPoint /\ s.to = NoPoint

ToAction(s, g, id) ==
  CASE s.kind = "key"  -> [kind |-> "key", keys |-> Keys(s, g), frame_id |-> id]
    [] s.kind = "type" -> [kind |-> "type", text |-> Text(s), frame_id |-> id]
    [] s.kind = "drag" -> [kind |-> "drag", x |-> g.point, to |-> s.to,
                           frame_id |-> id]
    [] OTHER -> [kind |-> s.kind, x |-> g.point, frame_id |-> id]

ReplayEnds(result) == rp' = "off" /\ replayResult' = result

\* replay with the placeholder given as text: bind changes the skill itself,
\* and finds nothing to replace the second time.
StartReplay(text) ==
  /\ rp = "off" /\ gate = "idle"
  /\ bound' = IF bound = Placeholder THEN text ELSE bound
  /\ Grabs /\ RGrabLeaves /\ UNCHANGED <<gate, req>>
  /\ rstep' = 1 /\ carried' = << >>
  /\ \/ rp' = "step" /\ replayResult' = "none"
     \/ ReplayEnds("error")   \* a precondition fails

ReplayStep ==
  /\ rp = "step" /\ rstep <= Len(Skill)
  /\ Grabs /\ RGrabLeaves /\ UNCHANGED <<rstep, bound, carried>>
  /\ \E g \in Grounded(Skill[rstep]) :
       LET s == Skill[rstep] IN
       \/ Ungrounded(s, g) /\ ReplayEnds("error") /\ UNCHANGED <<gate, req>>
       \/ Invalid(s, g) /\ ReplayEnds("raised") /\ UNCHANGED <<gate, req>>
       \/ /\ ~Ungrounded(s, g) /\ ~Invalid(s, g)
          /\ gate = "idle" /\ ans = "none"
          /\ gate' = "asked" /\ req' = ToAction(s, g, frame')
          /\ rp' = "acting" /\ UNCHANGED replayResult

\* grab raises; it is outside of the try.
ReplayGrabRaises ==
  /\ rp = "step"
  /\ ReplayEnds("raised")
  /\ UNCHANGED <<deskVars, rstep, bound, carried>>

Approved == {"executed", "done"}

\* Mutant: the next step whatever the decision was.
ReplayDecidedAny ==
  /\ rp = "acting"
  /\ Take
  /\ carried' = IF ans \in Approved THEN Append(carried, rstep) ELSE carried
  /\ rstep' = rstep + 1 /\ rp' = "step" /\ UNCHANGED replayResult
  /\ UNCHANGED <<screen, changes, stop, stops, frame, shot, targetVars, bound>>

ReplayDecided ==
  /\ rp = "acting"
  /\ Take
  /\ \/ /\ ans \in Approved /\ carried' = Append(carried, rstep)
        /\ rstep' = rstep + 1 /\ rp' = "step" /\ UNCHANGED replayResult
     \/ ans \notin Approved /\ ReplayEnds("error") /\ UNCHANGED <<carried, rstep>>
  /\ UNCHANGED <<screen, changes, stop, stops, frame, shot, targetVars, bound>>

\* The postconditions, on a frame of their own.
ReplayChecks ==
  /\ rp = "step" /\ rstep > Len(Skill)
  /\ Grabs /\ RGrabLeaves
  /\ ReplayEnds("ok") \/ ReplayEnds("error")
  /\ UNCHANGED <<gate, req, rstep, bound, carried>>

ReplaySteps ==
  ReplayStep \/ ReplayGrabRaises \/ ReplayDecided \/ ReplayChecks
=============================================================================

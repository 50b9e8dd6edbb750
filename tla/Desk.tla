-------------------------------- MODULE Desk --------------------------------
(***************************************************************************)
(* What the agent loop and the replay engine share when they run in one    *)
(* process (examples/run_crashcart.py, examples/replay_skill.py): the      *)
(* capture with its frame ids, the freshness tracker, a Gatekeeper and its *)
(* CH9329 executor, and the machine that is driven.  A screen is a number, *)
(* two screens differ by the distance between theirs.                      *)
(*                                                                         *)
(* Every grab is followed by FreshnessTracker.observe, and frame ids only  *)
(* grow, so the tracker's newest frame is the last one grabbed.  Risk,     *)
(* policy and the human are an answer that may be no (Gatekeeper has them  *)
(* in detail); writing the decision to the log is left to AuditLog.        *)
(***************************************************************************)
EXTENDS Hid

CONSTANTS
  Screens,      \* what the screen may show
  MaxChanges,   \* bound: times the screen changes on its own
  MaxTears,     \* bound: writes to the serial port that raise
  MaxStops      \* bound: times the operator engages the stop

ASSUME DeskAssumption ==
  /\ Screens \subseteq Nat /\ Screens # {}
  /\ MaxChanges \in Nat /\ MaxTears \in Nat /\ MaxStops \in Nat

VARIABLES
  screen, changes,     \* what it shows, and how often it changed on its own
  stop, stops,         \* the kill switch, and how often it was engaged
  frame, shot,         \* the last frame grabbed: its id and its image
  gate,                \* request_action: "idle", "asked", "executing"
  req, ans,            \* the action asked for, and the decision
  queue,               \* reports execute has still to write
  kbd, buttons,        \* the target: the last keyboard report, buttons down
  tears, torn,         \* failed writes; devices whose last action had one
  got, whole,          \* history: what happened since execute began, and
                       \* whether nothing was down when it did
  acted                \* history: the newest frame when input last ended

deskVars == <<screen, changes, stop, stops, frame, shot, gate, req, ans,
              queue, kbd, buttons, tears, torn, got, whole, acted>>
targetVars == <<kbd, buttons, tears, torn, got, whole, acted>>

NoAction == [kind |-> "none"]

DeskInit ==
  /\ screen \in Screens /\ changes = 0
  /\ stop = FALSE /\ stops = 0
  /\ frame = 0 /\ shot = screen
  /\ gate = "idle" /\ req = NoAction /\ ans = "none" /\ queue = << >>
  /\ kbd = AllUp /\ buttons = {} /\ tears = 0 /\ torn = {}
  /\ got = << >> /\ whole = TRUE /\ acted = 0

Distance(s, t) == Larger(s - t, t - s)

-----------------------------------------------------------------------------
ScreenChanges ==
  /\ changes < MaxChanges
  /\ screen' \in Screens \ {screen} /\ changes' = changes + 1
  /\ UNCHANGED <<stop, stops, frame, shot, gate, req, ans, queue, targetVars>>

Engage ==
  /\ ~stop /\ stops < MaxStops
  /\ stop' = TRUE /\ stops' = stops + 1
  /\ UNCHANGED <<screen, changes, frame, shot, gate, req, ans, queue, targetVars>>

Release ==
  /\ stop
  /\ stop' = FALSE
  /\ UNCHANGED <<screen, changes, stops, frame, shot, gate, req, ans, queue,
                 targetVars>>

\* grab, and observe.
Grabs == frame' = frame + 1 /\ shot' = screen

\* A client calls request_action, and takes its decision.
Ask(a) ==
  /\ gate = "idle" /\ ans = "none"
  /\ gate' = "asked" /\ req' = a
  /\ UNCHANGED <<ans, queue>>

Take == ans # "none" /\ ans' = "none" /\ UNCHANGED <<gate, req, queue>>

-----------------------------------------------------------------------------
(* request_action, from the kill switch to the call of execute.            *)

Inside(a) ==
  /\ "x" \in DOMAIN a => a.x \in 0..(Width - 1)
  /\ a.kind = "drag" => a.to \in 0..(Width - 1)

Fresh(a) == a.frame_id = frame

Answers(decision) ==
  /\ gate' = "idle" /\ ans' = decision /\ queue' = << >>
  /\ UNCHANGED <<got, whole>>

Refuses ==
  \/ stop /\ Answers("kill-switched")
  \/ ~stop /\ ~Fresh(req) /\ Answers("rejected-stale")
  \/ ~stop /\ Fresh(req) /\ ~Inside(req) /\ Answers("rejected-target")
  \/ /\ ~stop /\ Fresh(req) /\ Inside(req)
     /\ \/ req.kind = "done" /\ Answers("done")
        \/ req.kind = "fail" /\ Answers("failed")
        \/ req.kind \notin {"done", "fail"} /\ Answers("denied")

Executes ==
  /\ ~stop /\ Fresh(req) /\ Inside(req) /\ req.kind \notin {"done", "fail"}
  /\ gate' = "executing" /\ queue' = Reports(req)
  /\ got' = << >> /\ whole' = (kbd = AllUp /\ buttons = {})
  /\ UNCHANGED ans

Decides ==
  /\ gate = "asked"
  /\ Refuses \/ Executes
  /\ UNCHANGED <<screen, changes, stop, stops, frame, shot, req, kbd, buttons,
                 tears, torn, acted>>

-----------------------------------------------------------------------------
(* execute.                                                                *)

Device(a) == IF a.kind \in {"type", "key"} THEN "kbd" ELSE "mouse"

Delivered(r) ==
  LET h == Happens(r, kbd.keys, buttons) IN
  /\ got' = IF h = {} THEN got ELSE Append(got, h)
  /\ kbd' = IF r.dev = "kbd" THEN r ELSE kbd
  /\ buttons' = IF r.dev = "mouse" THEN r.buttons ELSE buttons

Writes ==
  /\ gate = "executing" /\ queue # << >>
  /\ Delivered(Head(queue)) /\ queue' = Tail(queue)
  /\ UNCHANGED <<screen, changes, stop, stops, frame, shot, gate, req, ans,
                 tears, torn, whole, acted>>

\* write raises, and the report is out or is not; what is left is not written.
WriteRaises ==
  /\ gate = "executing" /\ queue # << >> /\ tears < MaxTears
  /\ Delivered(Head(queue)) \/ UNCHANGED <<got, kbd, buttons>>
  /\ gate' = "idle" /\ ans' = "execution-failed" /\ queue' = << >>
  /\ tears' = tears + 1 /\ torn' = torn \union {Device(req)} /\ acted' = frame
  /\ UNCHANGED <<screen, changes, stop, stops, frame, shot, req, whole>>

\* execute returns, or raises for what it could not translate; the screen
\* shows what the input did, which may be nothing.
ExecuteEnds ==
  /\ gate = "executing" /\ queue = << >>
  /\ gate' = "idle"
  /\ ans' = IF Raises(req) THEN "execution-failed" ELSE "executed"
  /\ torn' = IF Reports(req) = << >> THEN torn ELSE torn \ {Device(req)}
  /\ acted' = frame
  /\ screen' \in Screens
  /\ UNCHANGED <<changes, stop, stops, frame, shot, req, queue, kbd, buttons,
                 tears, got, whole>>

DeskSteps == Decides \/ Writes \/ WriteRaises \/ ExecuteEnds

Outcomes == {"kill-switched", "rejected-stale", "rejected-target", "denied",
             "done", "failed", "executed", "execution-failed"}

DeskTypeOK ==
  /\ {screen, shot} \subseteq Screens
  /\ {changes, stops, frame, tears, acted} \subseteq Nat
  /\ {stop, whole} \subseteq BOOLEAN
  /\ gate \in {"idle", "asked", "executing"}
  /\ ans \in Outcomes \union {"none"}
  /\ gate # "idle" => WellFormed(req) /\ "frame_id" \in DOMAIN req /\ ans = "none"
  /\ queue \in Seq(KbdReports \union MouseReports)
  /\ gate # "executing" => queue = << >>
  /\ kbd \in KbdReports
  /\ buttons \subseteq {"left", "right"}
  /\ torn \subseteq {"kbd", "mouse"}
-----------------------------------------------------------------------------
(* What an action asks for, said of the target and not of the reports.     *)

Clicks(x, button) ==
  <<{[ev |-> "down", button |-> button, at |-> x]},
    {[ev |-> "up", button |-> button, at |-> x]}>>

\* Is there a key for the character?  Names of keys are in lower case.
OnLayout(c) == c # 0 /\ \E shift \in BOOLEAN, k \in 4..56 : Produces(shift, k) = c

\* Upper case for Python, and on no US key: what becomes of it is
\* UnsupportedRefused's matter.
Accented == {c \in Chars : IsUpper(c) /\ c \notin 65..90}
Plain(a) == a.kind = "type" => \A i \in DOMAIN a.text : a.text[i] \notin Accented

OnKeyboard(name) ==
  name.sort # "unknown" /\ (name.sort = "char" => OnLayout(Lower(name.char)))

ModNames(names) == {names[i] : i \in {j \in DOMAIN names : names[j].sort = "mod"}}
MainKeys(names) == {names[i] : i \in {j \in DOMAIN names : names[j].sort # "mod"}}

KeyOf(name) ==
  IF name.sort = "named" THEN name.key
  ELSE CHOOSE k \in 4..56 : \E shift \in BOOLEAN : Produces(shift, k) = Lower(name.char)

NeedsShift(name) ==
  name.sort = "char" /\ ~ \E k \in 4..56 : Produces(FALSE, k) = Lower(name.char)

\* The modifiers named, and shift where a character is a shifted one.
ChordMods(names) ==
  {m.mod : m \in ModNames(names)} \union
  (IF \E k \in MainKeys(names) : NeedsShift(k) THEN {"shift"} ELSE {})

ChordKeys(names) == {KeyOf(k) : k \in MainKeys(names)}

\* The keys that are no modifiers, together, with the modifiers.
ChordOf(names) ==
  IF ChordKeys(names) = {} THEN << >>
  ELSE <<{KeyEvent(ChordMods(names), k) : k \in ChordKeys(names)}>>

Asked(a) ==
  CASE a.kind = "click"        -> Clicks(a.x, "left")
    [] a.kind = "right_click"  -> Clicks(a.x, "right")
    [] a.kind = "double_click" -> Clicks(a.x, "left") \o Clicks(a.x, "left")
    [] a.kind = "type"   -> [i \in DOMAIN a.text |->
                               {[ev |-> "char", char |-> a.text[i]]}]
    [] a.kind = "key" /\ (\A i \in DOMAIN a.keys : OnKeyboard(a.keys[i]))
                         -> ChordOf(a.keys)
    [] a.kind = "scroll" /\ a.amount # 0
                         -> <<{[ev |-> "wheel", amount |-> Wheel(a.amount)]}>>
    [] a.kind = "drag"   -> <<{[ev |-> "down", button |-> "left", at |-> a.x]},
                              {[ev |-> "up", button |-> "left", at |-> a.to]}>>
    [] OTHER -> << >>

\* When an action is reported as executed, exactly what it asks for happened
\* on the target, in that order; while it is under way, or when it failed, a
\* beginning of it (gatekeeper.py: "decision.approved -> already executed").
\* Nothing is said of a text with an accented capital, nor of an action that
\* began with a key or a button down: a key that is down already cannot be
\* pressed.
InputIsWhatWasAsked ==
  whole /\ Plain(req) =>
    /\ ans = "executed" => got = Asked(req)
    /\ gate = "executing" \/ ans = "execution-failed" =>
         \E k \in 0..Len(Asked(req)) : got = SubSeq(Asked(req), 1, k)

\* Nothing is left down on the target between actions, except where the last
\* action on that device broke off in a failed write.
HeldOnlyAfterFailure ==
  gate = "idle" =>
    /\ kbd # AllUp => "kbd" \in torn
    /\ buttons # {} => "mouse" \in torn
=============================================================================

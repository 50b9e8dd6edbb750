------------------------------- MODULE Observer -------------------------------
(* src/psoperator/services/observer.py, with the snapshot builder            *)
(* (perception/snapshot.py), the signer and the client: the one process that *)
(* looks at the screen. It serves one connection at a time, and its pc is    *)
(* "up" while it does.                                                       *)
EXTENDS OwnerFiles, SequencesExt

CONSTANTS
  Tree,         \* what the accessibility tree of each screen lists, in the order of the walk
  Boxes,        \* the text that OCR reads in the image of each screen, likewise
  MaxElements,  \* the builder's max_elements
  MaxTime       \* bound: the clock

Screens == DOMAIN Tree
\* An item is its label, its box (0 when it has no extent) and whether the schema takes it.
ScreenItems == [label: STRING, box: Nat, valid: BOOLEAN]

ASSUME ElementsAssumption ==
  /\ MaxElements \in Nat \ {0} /\ 1 \in Screens
  /\ \A s \in Screens : Tree[s] \in Seq(ScreenItems) /\ Boxes[s] \in Seq(ScreenItems)

VARIABLES
  phase,      \* what the service is doing; "off" while no observer serves
  op,         \* the request at hand
  draft,      \* the frame and the snapshot being made
  sequence,   \* _last_sequence
  failures,   \* whether _failures counts any
  success,    \* _last_success_at, None before the first
  reply,      \* the response to be sent
  peer,       \* the connection: none, waiting for its answer, or left by the client
  clock, screen,
  signed,     \* how many envelopes it signed in this lifetime
  published,  \* the last of them
  stopped,    \* the operator interrupted the service
  capture     \* the capture backend: open or closed

obsVars == <<phase, op, draft, sequence, failures, success, reply, peer, clock, screen,
             signed, published, stopped, capture>>

None == -1
NoDraft == [captured |-> 0, shown |-> 0, walked |-> 0, elements |-> << >>]
Health == [status |-> IF failures THEN "degraded" ELSE "ready", sequence |-> sequence, success |-> success]
NoEnvelope == [sequence |-> 0, issued |-> 0, captured |-> 0, shown |-> 1, walked |-> 1, elements |-> << >>]
NoReply == [ok |-> FALSE, health |-> [status |-> "ready", sequence |-> 0, success |-> None]]

----------------------------------------------------------------------------
\* Mutant: the id leaves the ordinal out.
ElementUnnumbered(source, item, ordinal) ==
  [id |-> <<source, item.label, item.box>>, source |-> source, label |-> item.label, box |-> item.box]

(* SnapshotBuilder.build: of the tree and of the text only the first so many *)
(* are looked at, those that come to nothing included; text that repeats an  *)
(* element is left out.                                                      *)
Element(source, item, ordinal) ==
  [id |-> <<source, item.label, item.box, ordinal>>, source |-> source, label |-> item.label, box |-> item.box]
Prefix(s, n) == SubSeq(s, 1, IF Len(s) < n THEN Len(s) ELSE n)
Takes(elements, item) == item.box # 0 /\ item.valid /\ Len(elements) < MaxElements
Seen(elements, item) == \E k \in DOMAIN elements : elements[k].label = item.label /\ elements[k].box = item.box

Appended(source, elements, item) ==
  IF Takes(elements, item) /\ (source = "ocr" => ~Seen(elements, item))
  THEN Append(elements, Element(source, item, Len(elements)))
  ELSE elements
Gather(source, elements, items) ==
  FoldLeft(LAMBDA es, i : Appended(source, es, i), elements, Prefix(items, MaxElements - Len(elements)))

----------------------------------------------------------------------------
(* build_capture, the last thing before the service listens, may raise; then *)
(* a new lifetime of the service begins.                                     *)
BuildCapture(p) ==
  /\ task[p] = "capture" /\ pc[p] = "begin"
  /\ \/ /\ Finish(p, 0)
        /\ phase' = "accept" /\ capture' = "open"
        /\ sequence' = 0 /\ failures' = FALSE /\ success' = None /\ published' = NoEnvelope /\ signed' = 0
     \/ world.faults /\ Fail(p) /\ UNCHANGED <<phase, capture, sequence, failures, success, published, signed>>
  /\ UNCHANGED <<world, fsVars, op, draft, reply, peer, clock, screen, stopped>>

(* A client connects and sends its request.                                  *)
Call(o) ==
  /\ phase = "accept" /\ peer = "none" /\ signed < world.calls   \* bound: observations
  /\ peer' = "waiting" /\ op' = o
  /\ phase' = "handle"
  /\ UNCHANGED <<fileVars, draft, sequence, failures, success, reply, clock, screen, signed, published,
                 stopped, capture>>

(* Its timeout: it closes the socket and reports the observer unavailable.   *)
GiveUp ==
  /\ peer = "waiting" /\ peer' = "gone"
  /\ UNCHANGED <<fileVars, phase, op, draft, sequence, failures, success, reply, clock, screen, signed,
                 published, stopped, capture>>

Respond(ok) == reply' = [ok |-> ok, health |-> Health'] /\ phase' = "send"

(* handle: a request that does not validate, health, and the grab of the     *)
(* frame that begins an observation.                                         *)
Handle ==
  /\ phase = "handle"
  /\ IF op = "observe"
     THEN /\ phase' = "build"
          /\ draft' = [NoDraft EXCEPT !.captured = clock, !.shown = screen]
          /\ UNCHANGED <<reply, sequence, failures, success>>
     ELSE UNCHANGED <<draft, sequence, failures, success>> /\ Respond(op = "health")
  /\ UNCHANGED <<fileVars, op, peer, clock, screen, signed, published, stopped, capture>>

\* Mutant: the observation is tried again.
ObserveFailsRetrying ==
  /\ phase \in {"build", "sign"}
  /\ phase' = "handle"
  /\ failures' = TRUE
  /\ draft' = NoDraft
  /\ UNCHANGED <<fileVars, op, sequence, success, reply, peer, clock, screen, signed, published, stopped, capture>>

(* Any step of the observation may raise; the answer says so.                *)
ObserveFails ==
  /\ \/ phase = "handle" /\ op = "observe"      \* grab
     \/ phase = "build"                         \* the builder or the check of its result
     \/ phase = "sign" /\ clock < draft.captured   \* the clock was set back: the schema refuses
  /\ failures' = TRUE
  /\ UNCHANGED <<sequence, success>>
  /\ Respond(FALSE)
  /\ draft' = NoDraft
  /\ UNCHANGED <<fileVars, op, peer, clock, screen, signed, published, stopped, capture>>

(* The tree is walked now, the text is read from the image grabbed before. A *)
(* provider that is not there gives nothing; ids that clash are an error.    *)
Inventory(a11y, ocr) ==
  Gather("ocr", Gather("a11y", << >>, IF a11y THEN Tree[screen] ELSE << >>),
         IF ocr THEN Boxes[draft.shown] ELSE << >>)
Distinct(elements) == \A i, j \in DOMAIN elements : i < j => elements[i].id # elements[j].id
Build(a11y, ocr) ==
  /\ phase = "build" /\ Distinct(Inventory(a11y, ocr))
  /\ draft' = [draft EXCEPT !.walked = screen, !.elements = Inventory(a11y, ocr)]
  /\ phase' = "sign"
  /\ UNCHANGED <<fileVars, op, sequence, failures, success, reply, peer, clock, screen, signed, published,
                 stopped, capture>>

\* Mutant: the times are not compared.
SignUnordered ==
  /\ phase = "sign"
  /\ signed' = signed + 1
  /\ published' = [sequence |-> sequence + 1, issued |-> clock, captured |-> draft.captured,
                   shown |-> draft.shown, walked |-> draft.walked, elements |-> draft.elements]
  /\ sequence' = sequence + 1 /\ success' = clock /\ failures' = FALSE
  /\ Respond(TRUE)
  /\ draft' = NoDraft
  /\ UNCHANGED <<fileVars, op, peer, clock, screen, stopped, capture>>

\* Mutant: the failures before it are not forgotten.
SignStillDegraded ==
  /\ phase = "sign" /\ clock >= draft.captured
  /\ signed' = signed + 1
  /\ published' = [sequence |-> sequence + 1, issued |-> clock, captured |-> draft.captured,
                   shown |-> draft.shown, walked |-> draft.walked, elements |-> draft.elements]
  /\ sequence' = sequence + 1 /\ success' = clock /\ UNCHANGED failures
  /\ Respond(TRUE)
  /\ draft' = NoDraft
  /\ UNCHANGED <<fileVars, op, peer, clock, screen, stopped, capture>>

Sign ==
  /\ phase = "sign" /\ clock >= draft.captured
  /\ signed' = signed + 1
  /\ published' = [sequence |-> sequence + 1, issued |-> clock, captured |-> draft.captured,
                   shown |-> draft.shown, walked |-> draft.walked, elements |-> draft.elements]
  /\ sequence' = sequence + 1
  /\ success' = clock
  /\ failures' = FALSE
  /\ Respond(TRUE)
  /\ draft' = NoDraft
  /\ UNCHANGED <<fileVars, op, peer, clock, screen, stopped, capture>>

(* The service ends: serve closes the capture backend.                       *)
Stop(p) ==
  /\ Step(p, "done") /\ phase' = "off" /\ capture' = "closed" /\ peer' = "none"
  /\ UNCHANGED <<world, fsVars, task, at, mine, got, starts, op, draft, sequence, failures, success,
                 reply, clock, screen, signed, published>>

(* The answer goes out outside the server's try: if the peer is gone it may  *)
(* raise, and then the service ends.                                         *)
Send(p) ==
  /\ pc[p] = "up" /\ world.prog[p] = "observer" /\ phase = "send"
  /\ \/ /\ phase' = "accept" /\ peer' = "none" /\ reply' = NoReply
        /\ UNCHANGED <<fileVars, op, draft, sequence, failures, success, clock, screen,
                       signed, published, stopped, capture>>
     \/ peer = "gone" /\ Stop(p) /\ UNCHANGED stopped

Interrupt(p) ==
  /\ pc[p] = "up" /\ world.prog[p] = "observer" /\ phase # "off"
  /\ Stop(p) /\ stopped' = TRUE

(* The clock, which may be set back, and the screen.                         *)
ObserverWorld ==
  /\ phase # "off" /\ world.calls > 0
  /\ \/ clock' \in (0 .. MaxTime) \ {clock} /\ UNCHANGED screen
     \/ screen' \in Screens \ {screen} /\ UNCHANGED clock
  /\ UNCHANGED <<fileVars, phase, op, draft, sequence, failures, success, reply, peer, signed, published,
                 stopped, capture>>

ObserverInit ==
  /\ phase = "off" /\ op = "health" /\ draft = NoDraft /\ sequence = 0 /\ failures = FALSE
  /\ success = None /\ reply = NoReply /\ peer = "none" /\ clock = 0 /\ screen = 1
  /\ signed = 0 /\ published = NoEnvelope /\ stopped = FALSE /\ capture = "closed"

ServeStep == Handle \/ ObserveFails \/ Sign \/ \E a11y, ocr \in BOOLEAN : Build(a11y, ocr)
=============================================================================

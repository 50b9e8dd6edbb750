----------------------------- MODULE KillSwitch -----------------------------
(***************************************************************************)
(* The kill switch of gatekeeper/killswitch.py and the drill of            *)
(* gatekeeper/drills.py, one action per system call.                       *)
(*                                                                         *)
(* The switch is a file.  Its content says who engaged it: the operator    *)
(* (any text), or a drill (a random marker, here the drill itself).  A     *)
(* drill lifts the stop it made by renaming the file to a claim of its     *)
(* own, reading it again and unlinking it, or putting it back when the     *)
(* operator rewrote it meanwhile.  Anyone may ask is_engaged at any moment *)
(* and reads the path, the claims and the path again, at three instants.   *)
(*                                                                         *)
(* engage() opens the file with O_TRUNC and then writes: from the open on, *)
(* the content is nobody's marker, so the two calls are one action here.   *)
(* The ".new" temp file of engage_exclusive is never read by anyone; only  *)
(* its link to the path is a step.                                         *)
(*                                                                         *)
(* Any system call of a drill may fail with an OSError.  A failed call     *)
(* ends the drill with that error ("failed"), except in _holds, which      *)
(* takes a file it cannot read for one that is not the drill's: the drill  *)
(* then leaves its own stop in place, or puts it back, and goes on.        *)
(***************************************************************************)
CONSTANTS Drills,    \* runs of the kill-switch drill, each a process
          Gates,     \* gatekeepers that ask is_engaged
          Operator,  \* the content of a stop engaged by the operator
          None,      \* no file
          Overlap    \* may two drill runs be alive at once?

ASSUME DistinctContents ==
  /\ {Operator, None} \intersect (Drills \union Gates) = {} /\ Operator # None
  /\ Gates \intersect Drills = {}
  /\ Overlap \in BOOLEAN

VARIABLES
  path,    \* content of the sentinel, or None
  claim,   \* content of each drill's claim file, or None
  dpc,     \* where each drill run is
  owned,   \* whether the drill's engage_exclusive created the stop
  unread,  \* history: the drills that failed to read their own marker
  opc,     \* where the operator's command is
  found,   \* the claims disengage() listed and has not unlinked yet
  rpc,     \* where each caller of is_engaged is
  listed,  \* the claims that caller's glob returned and it has not statted
  answer,  \* what is_engaged returned
  wanted,  \* history: the operator engaged and has not released since
  lapsed   \* history: at some instant of the call no stop was in force

fileVars  == <<path, claim>>
drillVars == <<dpc, owned, unread>>
operVars  == <<opc, found, wanted>>
readVars  == <<rpc, listed, answer>>
vars == <<path, claim, dpc, owned, unread, opc, found, rpc, listed, answer,
          wanted, lapsed>>

Callers  == Drills \union Gates
Contents == Drills \union {Operator, None}
Finished == {"ended", "failed", "crashed"}

Holders     == ({path} \union {claim[d] : d \in Drills}) \ {None}
StopInPlace == path # None \/ \E d \in Drills : claim[d] # None

Init ==
  /\ path = None
  /\ claim = [d \in Drills |-> None]
  /\ dpc = [d \in Drills |-> "idle"]
  /\ owned = [d \in Drills |-> FALSE]
  /\ unread = {}
  /\ opc = "idle"
  /\ found = {}
  /\ rpc = [r \in Callers |-> "idle"]
  /\ listed = [r \in Callers |-> {}]
  /\ answer = [r \in Callers |-> FALSE]
  /\ wanted = FALSE
  /\ lapsed = [r \in Callers |-> FALSE]

-----------------------------------------------------------------------------
(* is_engaged: the path, the listed claims one by one, the path again.     *)

MayAsk(r) ==
  \/ r \in Gates /\ rpc[r] \in {"idle", "answered"}
  \/ r \in Drills /\ rpc[r] = "idle" /\ dpc[r] = "canary"

Ask(r) ==
  /\ MayAsk(r)
  /\ rpc' = [rpc EXCEPT ![r] = "first"]
  /\ UNCHANGED <<listed, answer, fileVars, drillVars, operVars>>

Answer(r, on) ==
  /\ rpc' = [rpc EXCEPT ![r] = "answered"]
  /\ answer' = [answer EXCEPT ![r] = on]

FirstRead(r) ==
  /\ rpc[r] = "first"
  /\ \/ path # None /\ Answer(r, TRUE)
     \/ path = None /\ rpc' = [rpc EXCEPT ![r] = "glob"] /\ UNCHANGED answer
  /\ UNCHANGED <<listed, fileVars, drillVars, operVars>>

GlobClaims(r) ==
  /\ rpc[r] = "glob"
  /\ rpc' = [rpc EXCEPT ![r] = "stat"]
  /\ listed' = [listed EXCEPT ![r] = {d \in Drills : claim[d] # None}]
  /\ UNCHANGED <<answer, fileVars, drillVars, operVars>>

StatClaim(r) ==
  /\ rpc[r] = "stat"
  /\ \E d \in listed[r] :
       /\ listed' = [listed EXCEPT ![r] = @ \ {d}]
       /\ \/ claim[d] # None /\ Answer(r, TRUE)
          \/ claim[d] = None /\ UNCHANGED <<rpc, answer>>
  /\ UNCHANGED <<fileVars, drillVars, operVars>>

\* Mutant: the path is not read again after the claims.
SecondReadMissing(r) ==
  /\ rpc[r] = "stat" /\ listed[r] = {}
  /\ Answer(r, FALSE)
  /\ UNCHANGED <<listed, fileVars, drillVars, operVars>>

SecondRead(r) ==
  /\ rpc[r] = "stat" /\ listed[r] = {}
  /\ Answer(r, path # None)
  /\ UNCHANGED <<listed, fileVars, drillVars, operVars>>

IsEngaged(r) ==
  FirstRead(r) \/ GlobClaims(r) \/ StatClaim(r) \/ SecondRead(r)

-----------------------------------------------------------------------------
(* The operator: `psoperator kill` and `psoperator resume`.                *)

Engage ==
  /\ opc = "idle"
  /\ path' = Operator
  /\ wanted' = TRUE
  /\ UNCHANGED <<claim, opc, found, drillVars, readVars>>

DisengagePath ==
  /\ opc = "idle"
  /\ path' = None
  /\ opc' = "glob"
  /\ wanted' = FALSE
  /\ UNCHANGED <<claim, found, drillVars, readVars>>

DisengageGlob ==
  /\ opc = "glob"
  /\ opc' = "unlink"
  /\ found' = {d \in Drills : claim[d] # None}
  /\ UNCHANGED <<wanted, fileVars, drillVars, readVars>>

DisengageClaim ==
  /\ opc = "unlink"
  /\ \E d \in found :
       /\ claim' = [claim EXCEPT ![d] = None]
       /\ found' = found \ {d}
  /\ UNCHANGED <<path, opc, wanted, drillVars, readVars>>

DisengageDone ==
  /\ opc = "unlink" /\ found = {}
  /\ opc' = "idle"
  /\ UNCHANGED <<found, wanted, fileVars, drillVars, readVars>>

\* A claim's unlink fails: the command ends and leaves the claims it had yet
\* to remove.
DisengageRaises ==
  /\ opc = "unlink" /\ found # {}
  /\ opc' = "idle"
  /\ found' = {}
  /\ UNCHANGED <<wanted, fileVars, drillVars, readVars>>

OperatorStep ==
  \/ Engage \/ DisengagePath \/ DisengageGlob \/ DisengageClaim
  \/ DisengageDone \/ DisengageRaises

-----------------------------------------------------------------------------
(* The drill: engage_exclusive, the canary, disengage_if_owned.            *)

Goto(d, where) == dpc' = [dpc EXCEPT ![d] = where]

Start(d) ==
  /\ dpc[d] = "idle"
  /\ Overlap \/ \A e \in Drills : dpc[e] \in Finished \union {"idle"}
  /\ Goto(d, "engage")
  /\ UNCHANGED <<owned, unread, fileVars, operVars, readVars>>

\* Mutant: the marker is written over whatever is at the path.
EngageOverwriting(d) ==
  /\ dpc[d] = "engage"
  /\ Goto(d, "canary")
  /\ path' = d
  /\ owned' = [owned EXCEPT ![d] = TRUE]
  /\ UNCHANGED <<unread, claim, operVars, readVars>>

\* os.link: the sentinel appears with the marker in it, or exists already.
EngageExclusive(d) ==
  /\ dpc[d] = "engage"
  /\ Goto(d, "canary")
  /\ \/ /\ path = None
        /\ path' = d
        /\ owned' = [owned EXCEPT ![d] = TRUE]
     \/ /\ path # None
        /\ UNCHANGED <<path, owned>>
  /\ UNCHANGED <<unread, claim, operVars, readVars>>

\* No room for the temp file, or no hard links: nothing is engaged.  Or the
\* temp file cannot be removed again: the marker is linked, and the drill ends
\* before it can know that the stop is its own.
EngageRaises(d) ==
  /\ dpc[d] = "engage"
  /\ Goto(d, "failed")
  /\ (path = None /\ path' = d) \/ UNCHANGED path
  /\ UNCHANGED <<owned, unread, claim, operVars, readVars>>

\* The finally clause of the drill, its canary answered or raised.
Lift(d) == Goto(d, IF owned[d] THEN "holds" ELSE "ended")

CanaryDone(d) ==
  /\ dpc[d] = "canary" /\ rpc[d] = "answered"
  /\ Lift(d)
  /\ UNCHANGED <<owned, unread, fileVars, operVars, readVars>>

\* A file of the switch cannot be looked at: request_action raises.
CanaryRaises(d) ==
  /\ dpc[d] = "canary" /\ rpc[d] \in {"first", "stat"}
  /\ Lift(d)
  /\ rpc' = [rpc EXCEPT ![d] = "idle"]
  /\ UNCHANGED <<owned, unread, listed, answer, fileVars, operVars>>

\* _holds: whether the file provably holds the drill's marker.
ReadsMarker(d, content, here, otherwise) ==
  \/ content = d /\ Goto(d, here) /\ UNCHANGED unread
  \/ content # d /\ Goto(d, otherwise) /\ UNCHANGED unread
  \/ content = d /\ Goto(d, otherwise) /\ unread' = unread \union {d}

Holds(d) ==
  /\ dpc[d] = "holds"
  /\ ReadsMarker(d, path, "rename", "ended")
  /\ UNCHANGED <<owned, fileVars, operVars, readVars>>

ClaimStop(d) ==
  /\ dpc[d] = "rename"
  /\ \/ /\ path # None
        /\ claim' = [claim EXCEPT ![d] = path]
        /\ path' = None
        /\ Goto(d, "recheck")
     \/ /\ path = None           \* FileNotFoundError: nothing to lift
        /\ Goto(d, "ended")
        /\ UNCHANGED fileVars
     \/ /\ Goto(d, "failed")     \* any other OSError propagates
        /\ UNCHANGED fileVars
  /\ UNCHANGED <<owned, unread, operVars, readVars>>

\* Mutant: the claim is unlinked without a second look.
RecheckBlind(d) ==
  /\ dpc[d] = "recheck"
  /\ Goto(d, "unlink")
  /\ UNCHANGED <<owned, unread, fileVars, operVars, readVars>>

\* Mutant: the comparison the wrong way round.
RecheckInverted(d) ==
  /\ dpc[d] = "recheck"
  /\ Goto(d, IF claim[d] = d THEN "putback" ELSE "unlink")
  /\ UNCHANGED <<owned, unread, fileVars, operVars, readVars>>

Recheck(d) ==
  /\ dpc[d] = "recheck"
  /\ ReadsMarker(d, claim[d], "unlink", "putback")
  /\ UNCHANGED <<owned, fileVars, operVars, readVars>>

\* The claim goes, or its unlink fails: a release removed it before, or the
\* directory does not let go of it.
UnlinkClaim(d) ==
  /\ dpc[d] = "unlink"
  /\ \/ /\ claim[d] # None
        /\ claim' = [claim EXCEPT ![d] = None]
        /\ Goto(d, "ended")
     \/ Goto(d, "failed") /\ UNCHANGED claim
  /\ UNCHANGED <<path, owned, unread, operVars, readVars>>

\* os.replace overwrites whatever is at the path.
PutBack(d) ==
  /\ dpc[d] = "putback" /\ claim[d] # None
  /\ Goto(d, "ended")
  /\ path' = claim[d]
  /\ claim' = [claim EXCEPT ![d] = None]
  /\ UNCHANGED <<owned, unread, operVars, readVars>>

\* os.replace fails, or a release removed the claim: the error propagates.
PutBackRaises(d) ==
  /\ dpc[d] = "putback"
  /\ Goto(d, "failed")
  /\ UNCHANGED <<owned, unread, fileVars, operVars, readVars>>

\* The process dies between two calls, or in the middle of its canary.
Crash(d) ==
  /\ dpc[d] \notin Finished \union {"idle"}
  /\ Goto(d, "crashed")
  /\ rpc' = [rpc EXCEPT ![d] = "idle"]
  /\ UNCHANGED <<owned, unread, listed, answer, fileVars, operVars>>

DrillStep(d) ==
  \/ EngageExclusive(d) \/ EngageRaises(d) \/ CanaryDone(d) \/ CanaryRaises(d)
  \/ Holds(d) \/ ClaimStop(d) \/ Recheck(d) \/ UnlinkClaim(d) \/ PutBack(d)
  \/ PutBackRaises(d)

-----------------------------------------------------------------------------
\* A stop that a call of is_engaged must not miss: the operator's, and for a
\* drill's canary also the stop the drill made.
InForce(r) == wanted \/ r \in Holders

\* History of each call, frozen once it has answered.
Watch ==
  lapsed' = [r \in Callers |->
    IF rpc[r] # "first" /\ rpc'[r] = "first" THEN ~InForce(r)'
    ELSE \/ lapsed[r]
         \/ ~InForce(r)' /\ ~(rpc[r] = "answered" /\ rpc'[r] = "answered")]

Step ==
  \/ \E r \in Callers : Ask(r) \/ IsEngaged(r)
  \/ OperatorStep
  \/ \E d \in Drills : Start(d) \/ DrillStep(d) \/ Crash(d)

Next == Step /\ Watch

Spec == Init /\ [][Next]_vars

\* Processes that are running keep running: every drill takes its next step
\* and every call of is_engaged goes on, until a crash.
Fairness ==
  /\ \A d \in Drills : WF_vars(DrillStep(d) /\ Watch)
  /\ \A d \in Drills : WF_vars((Ask(d) \/ IsEngaged(d)) /\ Watch)

FairSpec == Spec /\ Fairness
-----------------------------------------------------------------------------
TypeOK ==
  /\ path \in Contents
  /\ claim \in [Drills -> Contents]
  /\ dpc \in [Drills -> {"idle", "engage", "canary", "holds", "rename",
                         "recheck", "unlink", "putback"} \union Finished]
  /\ owned \in [Drills -> BOOLEAN]
  /\ unread \subseteq Drills
  /\ opc \in {"idle", "glob", "unlink"}
  /\ found \subseteq Drills
  /\ rpc \in [Callers -> {"idle", "first", "glob", "stat", "answered"}]
  /\ listed \in [Callers -> SUBSET Drills]
  /\ answer \in [Callers -> BOOLEAN]
  /\ wanted \in BOOLEAN
  /\ lapsed \in [Callers -> BOOLEAN]

\* Who holds a stop.  A marker that its drill failed to read is left for the
\* operator to release: nobody else lifts it any more.
Held == {IF h \in unread THEN Operator ELSE h : h \in Holders}

\* A stop the operator engaged is under the path or under a claim until the
\* operator releases it, whatever drills rename, put back, fail at or crash in
\* meanwhile (drills.py: "never an operator's"; disengage_if_owned: "a rewritten
\* stop is put back").  A drill that cannot read its own claim puts it back over
\* the operator's text; the marker there is then as good, for no drill lifts it.
OperatorStopStands == wanted => Operator \in Held

\* is_engaged answers "not engaged" only if at some instant of the call the
\* stop was not in force: a stop standing from before the call to its end is
\* seen, wherever renames move it between the three reads
\* (killswitch.is_engaged: "The path is read on both sides of the claim scan").
StopHonoured ==
  \A r \in Callers : rpc[r] = "answered" /\ ~answer[r] => lapsed[r]

\* A drill whose process lives and whose calls do not fail takes its stop away
\* again, whatever the operator does meanwhile (drills.py: "Lifts the stop it
\* engaged").  A drill that ends with an error may leave it, and so may one that
\* cannot read its marker, which the code takes for another's and ends in peace.
DrillStopLifted ==
  \A d \in Drills :
    d \in Holders ~>
      d \notin Holders \/ dpc[d] \in {"failed", "crashed"} \/ d \in unread

Abstract == INSTANCE StopSwitch WITH holders <- Held

\* Files, claims and put-backs amount to stops taken and lifted as StopSwitch
\* allows: no step of a drill takes the operator's stop away.
ImplementsStopSwitch == Abstract!Spec
=============================================================================

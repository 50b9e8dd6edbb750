--------------------------- MODULE AttestationGate ---------------------------
(***************************************************************************)
(* The admission of signed observer envelopes (gatekeeper/                 *)
(* attestation_gate.py) between the observer that issues them              *)
(* (services/observer.py, common/attestation.py) and a planner that holds  *)
(* every envelope ever issued and submits any of them, at any time, any    *)
(* number of times, and some that it made up.                              *)
(*                                                                         *)
(* The gate keeps in memory the nonces it admitted, the epoch it trusts    *)
(* and the watermark (issue time and frame of the last admission), and on  *)
(* disk the watermark.  Crashes, power losses and failed writes happen     *)
(* between the system calls that make the watermark durable.               *)
(*                                                                         *)
(* Observer and gate read one clock.  A nonce is a number never used       *)
(* before; a signature is the name of the key that made it.  The order of  *)
(* the checks decides only the name of a refusal, which is left out.       *)
(***************************************************************************)
EXTENDS Integers, Sequences, FiniteSets

CONSTANTS
  Key,           \* the observer's key, the only one in the gate's keyring
  Rogue,         \* any other key
  None,          \* no watermark, no epoch
  Pinnings,      \* may observer_epoch be configured (for both services)?
  TTL,           \* expires_at - issued_at
  MaxNonces,     \* max_nonces
  LegacyFrames,  \* frames of state files written before issued_at was kept
  RecordFails,   \* may recording a receipt raise?
  MaxEnvelopes,  \* bound: envelopes issued
  MaxTime,       \* bound: the clock
  MaxBack,       \* bound: times the clock is set back
  MaxStarts      \* bound: lifetimes of the observer, and of the gate

ASSUME GateAssumption ==
  /\ Key # Rogue /\ Pinnings \subseteq BOOLEAN /\ RecordFails \in BOOLEAN
  /\ TTL \in Nat \ {0} /\ MaxNonces \in Nat \ {0} /\ LegacyFrames \subseteq Nat
  /\ MaxEnvelopes \in Nat /\ MaxTime \in Nat /\ MaxBack \in Nat
  /\ MaxStarts \in Nat \ {0}

Never == -1   \* the issue time a legacy state file does not have

Marks == [at : Nat \union {Never}, frame : Nat]

Envelopes == [signer : {Key, Rogue}, key : {Key, Rogue}, epoch : Nat,
              at : Nat, until : Nat, frame : Nat, nonce : Nat]

ASSUME NoneIsNone == None \notin Marks \union Nat \union Envelopes

VARIABLES
  pinned,    \* observer_epoch is configured
  now,       \* the clock
  backs,     \* times it was set back
  life,      \* the observer's lifetime
  sequence,  \* its _last_sequence
  issued,    \* every envelope it emitted
  pc,        \* where admit is; "down" when the gate's process is
  cur,       \* the envelope being admitted
  moment,    \* now, as admit read it
  mark,      \* _last_issued_at and _last_frame_id
  pin,       \* _epoch
  seen,      \* _seen, by age: how many nonces came in since, with itself
  file,      \* the state file as a process reads it
  disk,      \* the state file as a power loss may leave it
  starts,    \* the gate's lifetimes so far
  admitted,  \* history: envelopes admit returned, in order
  verified,  \* history: envelopes that passed every check, and in which start
  dropped,   \* history: nonces evicted with a receipt, or with an error
  latest     \* history: the latest time admit saw

clockVars == <<now, backs>>
obsVars   == <<life, sequence, issued>>
memVars   == <<mark, pin, seen>>
diskVars  == <<file, disk>>
histVars  == <<admitted, verified, dropped, latest>>
vars == <<pinned, clockVars, obsVars, pc, cur, moment, memVars, diskVars, starts,
          histVars>>

Mark(e)      == [at |-> e.at, frame |-> e.frame]
Before(m, n) == m.at < n.at \/ (m.at = n.at /\ m.frame < n.frame)
Expected     == IF pinned THEN 1 ELSE None

Init ==
  /\ pinned \in Pinnings
  /\ now = 0 /\ backs = 0
  /\ life = 1 /\ sequence = 0 /\ issued = {}
  /\ pc = "down" /\ cur = None /\ moment = 0
  /\ mark = None /\ pin = Expected /\ seen = << >>
  /\ file \in {None} \union [at : {Never}, frame : LegacyFrames]
  /\ disk = file
  /\ starts = 0
  /\ admitted = << >> /\ verified = {} /\ dropped = {}
  /\ latest = 0

-----------------------------------------------------------------------------
(* The clock and the observer.                                             *)

Tick ==
  /\ now < MaxTime
  /\ now' = now + 1
  /\ UNCHANGED <<backs, obsVars, pc, cur, moment, memVars, diskVars, starts,
                 histVars>>

SetBack ==
  /\ now > 0 /\ backs < MaxBack
  /\ now' = now - 1 /\ backs' = backs + 1
  /\ UNCHANGED <<obsVars, pc, cur, moment, memVars, diskVars, starts, histVars>>

\* What _observe returns.  A failure before the signature changes nothing.
Observe ==
  /\ Cardinality(issued) < MaxEnvelopes
  /\ sequence' = sequence + 1
  /\ issued' = issued \union
       {[signer |-> Key, key |-> Key, epoch |-> IF pinned THEN 1 ELSE life,
         at |-> now, until |-> now + TTL, frame |-> sequence + 1,
         nonce |-> Cardinality(issued) + 1]}
  /\ UNCHANGED <<clockVars, life, pc, cur, moment, memVars, diskVars, starts,
                 histVars>>

\* A new process: frames from 1, and another epoch unless it is configured.
ObserverRestart ==
  /\ life < MaxStarts
  /\ life' = life + 1 /\ sequence' = 0
  /\ UNCHANGED <<clockVars, issued, pc, cur, moment, memVars, diskVars, starts,
                 histVars>>

-----------------------------------------------------------------------------
(* The gate's checks.                                                      *)

\* What a planner without the observer's key can make up.
Forged ==
  [signer : {Rogue}, key : {Key, Rogue}, epoch : {0, 1}, at : {now},
   until : {now + TTL}, frame : {MaxEnvelopes + 1}, nonce : {0}]

SignatureMatches(e) == e.key = Key /\ e.signer = e.key
EpochMatches(e)     == pin = None \/ e.epoch = pin
InLifetime(e)       == e.at <= now /\ now <= e.until
Remembered(e)       == \E i \in DOMAIN seen : seen[i].nonce = e.nonce

\* Mutant: frames alone, as before issued_at was part of the watermark.
AdvancesByFrame(e) == mark = None \/ (mark # None /\ e.frame > mark.frame)

Advances(e) ==
  \/ mark = None
  \/ mark # None /\ mark.at = Never /\ e.frame > mark.frame
  \/ mark # None /\ mark.at # Never /\ Before(mark, Mark(e))

Passes(e) ==
  /\ SignatureMatches(e) /\ EpochMatches(e) /\ InLifetime(e)
  /\ ~Remembered(e) /\ Advances(e)

Refuse(e) ==
  /\ pc = "idle" /\ ~Passes(e)
  /\ latest' = IF now > latest THEN now ELSE latest
  /\ UNCHANGED <<clockVars, obsVars, pc, cur, moment, memVars, diskVars,
                 starts, admitted, verified, dropped>>

Accept(e) ==
  /\ pc = "idle" /\ Passes(e)
  /\ pc' = "replace" /\ cur' = e /\ moment' = now
  /\ verified' = verified \union {<<e, starts>>}
  /\ latest' = IF now > latest THEN now ELSE latest
  /\ UNCHANGED <<clockVars, obsVars, memVars, diskVars, starts, admitted,
                 dropped>>

Admit == \E e \in issued \union Forged : Refuse(e) \/ Accept(e)

-----------------------------------------------------------------------------
(* The commit: the durable write first, then the memory.                   *)

ReplaceFile ==
  /\ pc = "replace"
  /\ pc' = "sync" /\ file' = Mark(cur)
  /\ UNCHANGED <<clockVars, obsVars, cur, moment, memVars, disk, starts,
                 histVars>>

\* Mutant: the directory is not synced.
SyncNothing ==
  /\ pc = "sync"
  /\ pc' = "commit"
  /\ UNCHANGED <<clockVars, obsVars, cur, moment, memVars, diskVars, starts,
                 histVars>>

SyncDir ==
  /\ pc = "sync"
  /\ pc' = "commit" /\ disk' = file
  /\ UNCHANGED <<clockVars, obsVars, cur, moment, memVars, file, starts,
                 histVars>>

EndCall(where) == pc' = where /\ cur' = None /\ moment' = 0

\* GateStateError, before the rename or after it: memory is as it was.
WriteFails ==
  /\ pc \in {"replace", "sync"}
  /\ EndCall("idle")
  /\ UNCHANGED <<clockVars, obsVars, memVars, diskVars, starts, histVars>>

\* _evict_nonces, after the nonce is in, the newest at age 1: the expired ones
\* go, then the oldest if there are too many.  One nonce at a time comes in,
\* so one goes.
Entered   == [i \in {1} \union {k + 1 : k \in DOMAIN seen} |->
                IF i = 1 THEN cur ELSE seen[i - 1]]
Unexpired == {i \in DOMAIN Entered : Entered[i].until > moment}
TooMany   == Cardinality(Unexpired) > MaxNonces
ButOldest(ages) == {i \in ages : \E j \in ages : i < j}
Remaining == IF TooMany THEN ButOldest(Unexpired) ELSE Unexpired
Evicted   == {Entered[i].nonce : i \in Unexpired \ Remaining}

\* Mutant: the count is the only rule, and it is not receipted.
CommitByCount ==
  /\ pc = "commit"
  /\ mark' = Mark(cur)
  /\ pin' = IF pin = None THEN cur.epoch ELSE pin
  /\ seen' = [i \in IF Cardinality(DOMAIN Entered) > MaxNonces
                    THEN ButOldest(DOMAIN Entered) ELSE DOMAIN Entered |-> Entered[i]]
  /\ admitted' = Append(admitted, cur)
  /\ EndCall("idle")
  /\ UNCHANGED <<clockVars, obsVars, diskVars, starts, verified,
                 dropped, latest>>

\* A receipt that cannot be recorded raises and admit returns nothing, with
\* the memory as the receipt found it.
Commit ==
  /\ pc = "commit"
  /\ mark' = Mark(cur)
  /\ pin' = IF pin = None THEN cur.epoch ELSE pin
  /\ seen' = [i \in Remaining |-> Entered[i]]
  /\ dropped' = dropped \union Evicted
  /\ \/ admitted' = Append(admitted, cur)
     \/ RecordFails /\ UNCHANGED admitted
  /\ EndCall("idle")
  /\ UNCHANGED <<clockVars, obsVars, diskVars, starts, verified,
                 latest>>

-----------------------------------------------------------------------------
(* The gate's process.                                                     *)

Start ==
  /\ pc = "down" /\ starts < MaxStarts
  /\ pc' = "idle" /\ starts' = starts + 1
  /\ mark' = file /\ pin' = Expected /\ seen' = << >>
  /\ dropped' = {}
  /\ UNCHANGED <<clockVars, obsVars, cur, moment, diskVars, admitted, verified,
                 latest>>

\* The process goes, and with it the memory and the call it was in.
Die ==
  /\ EndCall("down")
  /\ mark' = None /\ pin' = Expected /\ seen' = << >>

Crash ==
  /\ pc # "down" /\ Die
  /\ UNCHANGED <<clockVars, obsVars, diskVars, starts, histVars>>

\* A rename whose directory was not synced is there afterwards, or is not.
PowerLoss ==
  /\ Die
  /\ file' \in {file, disk} /\ disk' = file'
  /\ UNCHANGED <<clockVars, obsVars, starts, histVars>>

GateStep == ReplaceFile \/ SyncDir \/ WriteFails \/ Commit

Step ==
  \/ Tick \/ SetBack \/ Observe \/ ObserverRestart
  \/ Admit \/ GateStep
  \/ Start \/ Crash \/ PowerLoss

Next == Step /\ UNCHANGED pinned

Spec == Init /\ [][Next]_vars
-----------------------------------------------------------------------------
TypeOK ==
  /\ pinned \in BOOLEAN
  /\ now \in Nat /\ backs \in Nat /\ moment \in Nat /\ latest \in Nat
  /\ life \in Nat /\ sequence \in Nat /\ starts \in Nat
  /\ IsFiniteSet(issued)
  /\ issued \subseteq Envelopes /\ verified \subseteq Envelopes \X Nat
  /\ pc \in {"down", "idle", "replace", "sync", "commit"}
  /\ cur \in Envelopes \union {None}
  /\ pc \in {"replace", "sync", "commit"} => cur # None
  /\ {mark, file, disk} \subseteq Marks \union {None}
  /\ pin \in Nat \union {None}
  /\ admitted \in Seq(Envelopes)

\* Each envelope returned by admit is issued later than all returned before
\* it, whatever crashes, power losses, failed writes and clock steps happened
\* between: none is admitted twice, none after a newer one (attestation_gate
\* _advances, _write_state: "re-open the replay window for exactly the frames
\* this admitted").
NoRollback ==
  \A i, j \in 1..Len(admitted) :
    i < j => Before(Mark(admitted[i]), Mark(admitted[j]))

\* An envelope the observer signed, within its lifetime, later than every one
\* that ever passed the checks and, without a configured epoch, of the epoch
\* of those that passed since the gate started, passes them too: no refused,
\* failed or lost submission and no restart of either service locks the
\* observer out (attestation_gate: ordering on the frame id alone "locked a
\* restarted observer out").
Welcome(e) ==
  /\ InLifetime(e)
  /\ \A v \in verified : Before(Mark(v[1]), Mark(e))
  /\ pinned \/ \A v \in verified : v[2] = starts => v[1].epoch = e.epoch

NotLockedOut ==
  pc = "idle" /\ ~(mark # None /\ mark.at = Never) =>
    \A e \in issued : Welcome(e) => Passes(e)

\* The envelopes admitted since the gate started.
Mine == {e \in issued : /\ <<e, starts>> \in verified
                         /\ \E i \in 1..Len(admitted) : admitted[i] = e}

\* A nonce is forgotten before its envelope has expired only with a receipt
\* that says so (_evict_nonces: "receipted instead of done quietly").
EvictionReceipted ==
  pc = "idle" => \A e \in Mine :
    latest < e.until => Remembered(e) \/ e.nonce \in dropped

=============================================================================

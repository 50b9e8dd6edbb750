------------------------------- MODULE Services -------------------------------
(* The programs of the command line (src/psoperator/cli.py) on one machine:  *)
(* the executor, the gatekeeper and the observer start, each with the files  *)
(* and the device it needs, next to attestation-keygen; the observer serves. *)
EXTENDS Secrets, KeyFile, HidPort, Observer

vars == <<fileVars, gateVars, portVars, obsVars>>

(* What a situation is made of.                                              *)
Security == PosixMode \cup Descriptor
Situation(w) ==
  /\ {w.windows, w.faults, w.keyConfigured, w.stopAbsolute, w.apart} \subseteq BOOLEAN
  /\ w.umask \subseteq ModeRights
  /\ w.prog \in [Procs -> Programs]
  /\ w.starts \in Nat /\ w.calls \in Nat /\ w.drawn \in Nat /\ w.dirs \in 0 .. MaxDirs
  /\ w.dir \in [Paths -> 0 .. w.dirs]
  /\ w.files \in [DirIds -> [Names -> File]]
  /\ w.port \in DOMAIN RealPath \cup {"none", "auto"} /\ w.baud \in Nat
  /\ w.plugged \in [Devices -> Ids]
  /\ LET S == IF w.windows THEN Descriptor ELSE PosixMode
     IN  w.above \in [Paths -> S] /\ w.sec \in [DirIds -> S] /\ w.foreign \in S

ASSUME WorldsAssumption == \A w \in Worlds : Situation(w)
ASSUME BoundsAssumption == MaxDirs \in Nat /\ RealPath \in [DOMAIN RealPath -> Devices]

Init ==
  /\ world \in Worlds
  /\ dir = world.dir /\ dirs = world.dirs /\ sec = world.sec
  /\ files = world.files /\ drawn = world.drawn
  /\ pc = [p \in Procs |-> "idle"]
  /\ task = [p \in Procs |-> "secret"]
  /\ at = [p \in Procs |-> 0]
  /\ mine = [p \in Procs |-> 0]
  /\ got = [p \in Procs |-> [secret |-> 0, key |-> 0]]
  /\ starts = 0 /\ withdrawn = {}
  /\ first = [p \in Procs |-> FALSE] /\ recorded = (FileAt(Dir("state"), "state").tok # 0)
  /\ plugged = world.plugged /\ conn = [p \in Procs |-> NoConn]
  /\ ObserverInit

----------------------------------------------------------------------------
(* A program starts, or starts again. The gatekeeper wants an absolute stop  *)
(* path first of all; without a key path the observer ends at once, and the  *)
(* gatekeeper when it has its secret.                                        *)
Start(p) ==
  /\ pc[p] \in {"idle", "failed", "done"} /\ world.prog[p] # "idle"
  /\ starts < world.starts
  /\ starts' = starts + 1
  /\ task' = [task EXCEPT ![p] = IF world.prog[p] = "observer" THEN "key"
                                 ELSE IF world.prog[p] = "keygen" THEN "provision" ELSE "secret"]
  /\ Step(p, IF \/ world.prog[p] = "gatekeeper" /\ ~world.stopAbsolute
                \/ world.prog[p] = "observer" /\ ~world.keyConfigured
             THEN "failed" ELSE "begin")
  /\ first' = [first EXCEPT ![p] = FALSE]
  /\ conn' = [conn EXCEPT ![p] = NoConn]
  /\ UNCHANGED <<world, fsVars, at, mine, got, recorded, plugged, obsVars>>

(* A process dies; an observer that served is gone, its camera with it.      *)
Crash(p) ==
  /\ Die(p)
  /\ IF pc[p] = "up" /\ world.prog[p] = "observer"
     THEN phase' = "off" /\ peer' = "none" /\ capture' = "closed" ELSE UNCHANGED <<phase, peer, capture>>
  /\ UNCHANGED <<gateVars, portVars, op, draft, sequence, failures, success, reply, clock, screen,
                 signed, published, stopped>>

(* One step of process p.                                                    *)
FileStep(p) ==
  \/ /\ OpenForRead(p) \/ ReadOpened(p) \/ Create(p) \/ Write(p) \/ Unlink(p) \/ SecretStep(p)
     /\ UNCHANGED gateVars
  \/ KeyStep(p)
ProcStep(p) ==
  \/ FileStep(p) /\ UNCHANGED <<portVars, obsVars>>
  \/ PortStep(p) /\ UNCHANGED <<gateVars, obsVars>>
  \/ BuildCapture(p) /\ UNCHANGED <<gateVars, portVars>>

ObserverStep ==
  /\ ServeStep \/ \E p \in Procs : Send(p)
  /\ UNCHANGED <<gateVars, portVars>>

OthersStep ==
  \/ \E path \in Paths : MoveDirAway(path) \/ PutDirThere(path)
  \/ \E n \in Names : RemoveFile(n)

Environment ==
  \/ OthersStep /\ UNCHANGED <<gateVars, portVars, obsVars>>
  \/ (\E d \in Devices, id \in Ids : Replug(d, id)) /\ UNCHANGED <<gateVars, obsVars>>
  \/ /\ \/ \E o \in {"observe", "health", "invalid"} : Call(o)
        \/ GiveUp
        \/ ObserverWorld
        \/ \E p \in Procs : Interrupt(p)
     /\ UNCHANGED <<gateVars, portVars>>

Next ==
  \/ \E p \in Procs : Start(p) \/ ProcStep(p) \/ Crash(p) \/ (Record(p) /\ UNCHANGED <<portVars, obsVars>>)
  \/ ObserverStep
  \/ Environment

(* A process that has begun goes on, and so does the serving observer.       *)
Spec == Init /\ [][Next]_vars /\ \A p \in Procs : WF_vars(ProcStep(p)) /\ WF_vars(ObserverStep)

----------------------------------------------------------------------------
Steps == Ended \cup {"begin", "stat", "read", "ensure", "mkdir", "opendir", "create", "write", "chmod",
                    "unlink", "reading", "open"}
Tasks == {"secret", "key", "provision", "state", "port", "capture", "serve"}
HealthType == [status: {"ready", "degraded"}, sequence: Nat, success: Nat \cup {None}]

FilesTypeOK ==
  /\ world \in Worlds
  /\ dirs \in 0 .. MaxDirs /\ dir \in [Paths -> 0 .. dirs]
  /\ sec \in [DirIds -> IF Windows THEN Descriptor ELSE PosixMode]
  /\ files \in [DirIds -> [Names -> File]] /\ drawn \in Nat /\ withdrawn \subseteq Nat
  /\ pc \in [Procs -> Steps] /\ task \in [Procs -> Tasks]
  /\ at \in [Procs -> 0 .. dirs] /\ mine \in [Procs -> Nat]
  /\ got \in [Procs -> [{"secret", "key"} -> Nat]] /\ starts \in Nat
  /\ first \in [Procs -> BOOLEAN] /\ recorded \in BOOLEAN
  /\ plugged \in [Devices -> Ids] /\ conn \in [Procs -> Conn]
ObserverTypeOK ==
  /\ phase \in {"off", "accept", "handle", "build", "sign", "send"}
  /\ op \in {"observe", "health", "invalid"}
  /\ sequence \in Nat /\ signed \in Nat /\ failures \in BOOLEAN /\ success \in Nat \cup {None}
  /\ reply \in [ok: BOOLEAN, health: HealthType]
  /\ peer \in {"none", "waiting", "gone"} /\ clock \in Nat /\ screen \in Screens
  /\ stopped \in BOOLEAN /\ capture \in {"open", "closed"}
\* The type invariant: files, processes, ports and the observer keep their shapes.
TypeOK == FilesTypeOK /\ ObserverTypeOK

(* Nobody else may move the directory at a path or remove what is in it.     *)
Undisturbed(path) ==
  ~OthersMayChange(world.above[path]) /\ (dir[path] # 0 => ~OthersMayChange(sec[dir[path]]))

\* A service that is up holds the secret, and the key, that lies at its path,
\* complete: so all services hold the same, whoever came first and whatever
\* failed or died on the way (auth.py:36-94, attestation.py:228-294). The key
\* of an attestation-keygen that then failed is the exception.
HeldIsOnDisk ==
  \A p \in Procs : pc[p] = "up" =>
    \A n \in {"secret", "key"} :
      got[p][n] \notin withdrawn \cup {0} /\ Undisturbed(PathOf(n))
        => FileAt(Dir(n), n).whole /\ FileAt(Dir(n), n).tok = got[p][n]

\* No service serves with a secret that another account may read or rewrite
\* (auth.py:15-33, and the chmod of line 51 that comes after the write).
SecretIsPrivate ==
  \A p \in Procs : pc[p] = "up" /\ got[p]["secret"] # 0 /\ Undisturbed("priv")
    => OwnerOnlyFile(FileAt(Dir("secret"), "secret"))

\* A key that attestation-keygen reported provisioned lies complete in a
\* directory that is owner-only, and no other has replaced it, even if the
\* path was moved under it (attestation.py:94-142, the create relative to the
\* directory that was judged).
KeyIsKept ==
  \A p \in Procs : world.prog[p] = "keygen" /\ pc[p] = "done" =>
    \E d \in DirIds : /\ OwnerOnlyDir(sec[d])
                      /\ files[d]["key"] = [tok |-> mine[p], whole |-> TRUE, private |-> TRUE, mine |-> TRUE]

FirstStartBegins == \E p \in Procs : ~first[p] /\ first'[p]

\* A gatekeeper takes nothing for a first start once a watermark was recorded,
\* unless another account may change the directory above (attestation_gate.py
\* :310, :447). Where it may, nothing judges that directory as long as there is
\* one of the owner's at the path: on Windows an owner-only one that was put in
\* the place of the recorded one (:402-415), never a missing one; on POSIX also
\* the one that loading the secret makes anew (auth.py:46).
FirstStartUnlessMoved ==
  [][FirstStartBegins /\ recorded => /\ OthersMayChange(world.above[PathOf("state")])
                                     /\ Windows => Dir("state") # 0]_vars

\* An executor that is up has opened the device its port names, never one that
\* "auto" picked, and at the rate of the chip it found there
\* (executor_ch9329.py:316-440); the chip may have been changed since.
PortAsConfigured ==
  \A p \in Procs : pc[p] = "up" /\ world.prog[p] = "executor" /\ world.port # "none" =>
    /\ world.port # "auto" /\ conn[p].device = RealPath[world.port]
    /\ conn[p].opened = conn[p].id /\ conn[p].id \in DOMAIN KnownChips =>
         LET chip == KnownChips[conn[p].id]
         IN  conn[p].baud \in IF chip.fixed # 0 THEN {chip.fixed}
                              ELSE IF world.baud # 0 THEN {world.baud} ELSE {chip.default}

\* Envelopes count 1, 2, 3 whatever failed between them, and none was issued
\* before its frame was captured, the clock set back or not (observer.py:87-119,
\* schema.py:101): the gate orders them by both.
EnvelopeInOrder ==
  phase # "off" => /\ published.sequence = signed /\ sequence = signed
                   /\ published.issued >= published.captured

\* No screen, however it repeats itself, gives two elements one id, which would
\* cost the whole observation; and what an envelope lists is no more than the
\* builder may, text that repeats an element left out, text read from the image
\* that was hashed (snapshot.py:82-173).
InventorySound ==
  LET es == published.elements
  IN  /\ phase = "build" => \A a11y, ocr \in BOOLEAN : Distinct(Inventory(a11y, ocr))
      /\ Len(es) <= MaxElements
      /\ \A i, j \in DOMAIN es : i < j /\ es[j].source = "ocr" =>
           <<es[i].label, es[i].box>> # <<es[j].label, es[j].box>>
      /\ \A i \in DOMAIN es : es[i].source = "ocr" =>
           \E k \in DOMAIN Boxes[published.shown] : Boxes[published.shown][k].label = es[i].label

\* The health that goes with an answer tells the truth about it: ready after
\* an observation that was signed, degraded after one that failed, the sequence
\* and the time those of the last envelope (observer.py:54-71).
HealthTells ==
  phase = "send" =>
    /\ op = "observe" => (reply.ok <=> reply.health.status = "ready")
    /\ reply.health.sequence = published.sequence
    /\ published.sequence # 0 => reply.health.success = published.issued

\* Every start ends, up or not: no retry of the secret goes on for ever
\* (auth.py:53, :85), unless another account moves the files for ever.
StartsEnd ==
  \/ []<><<OthersStep>>_vars
  \/ \A p \in Procs : Starting(p) ~> ~Starting(p)

\* Every request the observer accepted is answered, or the observer is gone, if
\* the capture backend and the send to the client return (ServeStep and Send go
\* on by fairness).
RequestsEnd == phase \in {"handle", "build", "sign", "send"} ~> phase \in {"accept", "off"}
=============================================================================

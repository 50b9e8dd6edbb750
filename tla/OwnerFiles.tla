------------------------------ MODULE OwnerFiles ------------------------------
(* The private files of the services and the steps in which the programs of  *)
(* the command line open, create and write them: those all of them share.    *)
(* The IPC secret and the gate's state lie at one path (.psoperator, the     *)
(* default of both) or, world.apart, at two; the attestation key at another.  Each program is a       *)
(* process; it starts in one of Worlds, chosen once: the platform, the       *)
(* umask, the directories above, the configuration.                          *)
EXTENDS Acl, FiniteSets

CONSTANTS
  Procs,      \* processes; world.prog says which program each one runs
  Worlds,     \* the situations the checks and proofs range over
  MaxDirs     \* bound: directories that ever lie at one of the paths

Names == {"secret", "key", "state"}
Programs == {"executor", "gatekeeper", "observer", "keygen", "idle"}
DirIds == 1 .. MaxDirs
Paths == {"priv", "keys", "gate"}

(* POSIX: who owns the object and what its mode gives group and others.      *)
ModeRights == {"read", "change"}
PosixMode == [owner: {"self", "root", "other"}, others: SUBSET ModeRights]

(* A file, absent when tok = 0; whole says its content parses, private that  *)
(* nobody else may open it, mine that this account owns it.                  *)
File == [tok: Nat, whole: BOOLEAN, private: BOOLEAN, mine: BOOLEAN]
Absent == [tok |-> 0, whole |-> FALSE, private |-> FALSE, mine |-> FALSE]

VARIABLES
  world,   \* the situation
  dir,     \* the directory object at each path, 0 if there is none
  dirs,    \* directory objects so far
  sec,     \* the mode or descriptor of each directory object
  files,   \* the files in each directory object
  drawn,   \* random contents drawn so far
  pc,      \* where each process is
  task,    \* the file, or the device, it is starting on
  at,      \* the directory object it has open, or has a file open in
  mine,    \* the content it created
  got,     \* the secret and the key it serves with, 0 for none
  starts,  \* starts so far
  withdrawn \* contents a failed creation took back

fsVars == <<dir, dirs, sec, files, drawn, withdrawn>>
procVars == <<pc, task, at, mine, got, starts>>
fileVars == <<world, dir, dirs, sec, files, drawn, withdrawn, pc, task, at, mine, got, starts>>

Windows == world.windows
PathOf(n) == IF n = "key" THEN "keys" ELSE IF n = "state" /\ world.apart THEN "gate" ELSE "priv"

----------------------------------------------------------------------------
(* Who may use what.                                                         *)
OwnerOnlyDir(s) ==
  IF Windows THEN OwnerOnly(s) ELSE s.owner = "self" /\ s.others = {}
\* Mutant: the owner alone decides.
SafeAncestorByOwner(s) ==
  IF Windows THEN s.owner \in TrustedSids ELSE s.owner \in {"self", "root"}

SafeAncestor(s) ==
  IF Windows THEN TrustedParent(s) ELSE s.owner \in {"self", "root"} /\ "change" \notin s.others
StateDirOk(s) ==
  IF Windows THEN OwnerOnly(s) ELSE s.owner = "self" /\ "change" \notin s.others
(* What another account can in fact do.                                      *)
OthersMayChange(s) ==
  IF Windows THEN OutsidersMayChange(s) ELSE s.owner = "other" \/ "change" \in s.others

OwnerOnlyFile(f) == f.private /\ f.mine

MadeOwnerOnly == IF Windows THEN OwnerOnlySddl ELSE [owner |-> "self", others |-> {}]
MadeByUmask == [owner |-> "self", others |-> world.umask]

----------------------------------------------------------------------------
FileOf(t) == IF t = "provision" THEN "key" ELSE t
Dir(n) == dir[PathOf(n)]
FileAt(d, n) == IF d = 0 THEN Absent ELSE files[d][n]
Put(d, n, f) == files' = [files EXCEPT ![d][n] = f]
(* A directory object new at a path.                                         *)
NewDir(path, s) ==
  /\ dirs < MaxDirs
  /\ dirs' = dirs + 1
  /\ dir' = [dir EXCEPT ![path] = dirs + 1]
  /\ sec' = [sec EXCEPT ![dirs + 1] = s]

(* Handles that Windows' share modes look at.                                *)
Writing(d, n) == \E p \in Procs : pc[p] = "write" /\ at[p] = d /\ FileOf(task[p]) = n
Reading(d, n) == \E p \in Procs : pc[p] = "reading" /\ at[p] = d /\ FileOf(task[p]) = n
Held(d) == \E p \in Procs : at[p] = d

Ended == {"idle", "failed", "up", "done"}
Starting(p) == pc[p] \notin Ended

Step(p, step) == pc' = [pc EXCEPT ![p] = step]
At(p, d) == at' = [at EXCEPT ![p] = d]

(* An exception ends the program; its handles close.                         *)
Fail(p) ==
  /\ Step(p, "failed")
  /\ At(p, 0)
  /\ got' = [got EXCEPT ![p] = [secret |-> 0, key |-> 0]]
  /\ UNCHANGED <<task, mine, starts>>

(* The order in which _run_executor, _run_gatekeeper, _run_observer and      *)
(* _run_attestation_keygen do their work.                                    *)
NextTask(p) ==
  IF task[p] = "secret" /\ world.prog[p] = "executor" THEN "port"
  ELSE IF task[p] = "secret" THEN "key"
  ELSE IF task[p] = "key" /\ world.prog[p] = "gatekeeper" THEN "state"
  ELSE IF task[p] = "key" THEN "capture"
  ELSE "serve"

(* The task ends with content tok.                                           *)
Finish(p, tok) ==
  /\ task' = [task EXCEPT ![p] = NextTask(p)]
  /\ Step(p, IF task[p] = "provision" THEN "done"
             ELSE IF NextTask(p) = "serve" THEN "up"
             ELSE IF task[p] = "secret" /\ world.prog[p] = "gatekeeper" /\ ~world.keyConfigured
                  THEN "failed" ELSE "begin")
  /\ At(p, 0)
  /\ got' = IF task[p] \in {"secret", "key"} THEN [got EXCEPT ![p][task[p]] = tok] ELSE got
  /\ UNCHANGED <<mine, starts>>

----------------------------------------------------------------------------
(* open_owner_only_for_read, for the secret and the key on Windows: the file *)
(* is opened by path with read sharing only, then judged through the handle. *)
OpenForRead(p) ==
  /\ Windows /\ pc[p] = "begin" /\ task[p] \in {"secret", "key"}
  /\ LET n == FileOf(task[p])
         f == FileAt(Dir(n), n)
     IN  IF f.tok = 0
         THEN IF task[p] = "secret"
              THEN Step(p, "ensure") /\ UNCHANGED <<task, at, mine, got, starts>>
              ELSE Fail(p)
         ELSE IF Writing(Dir(n), n) \/ ~OwnerOnlyFile(f)
              THEN Fail(p)
              ELSE Step(p, "reading") /\ At(p, Dir(n)) /\ UNCHANGED <<task, mine, got, starts>>
  /\ UNCHANGED <<world, fsVars>>

(* The content is read through that handle; one too short, or that does not  *)
(* parse, is refused.                                                        *)
ReadOpened(p) ==
  /\ pc[p] = "reading"
  /\ LET f == files[at[p]][FileOf(task[p])]
     IN  IF f.whole THEN Finish(p, f.tok) ELSE Fail(p)
  /\ UNCHANGED <<world, fsVars>>

(* Exclusive creation. The POSIX secret is created by path and with the      *)
(* umask's mode, everything else owner-only in the directory held open. A    *)
(* secret that appeared meanwhile is loaded instead; a key is never replaced.*)
ByPath(p) == task[p] = "secret" /\ ~Windows
\* Mutant: the key is created by its path, not in the directory held open.
CreateAtPath(p) ==
  /\ pc[p] = "create"
  /\ LET n == FileOf(task[p])
     IN  IF FileAt(Dir(n), n).tok # 0 \/ Dir(n) = 0
         THEN Fail(p) /\ UNCHANGED fsVars
         ELSE /\ Put(Dir(n), n, [tok |-> drawn + 1, whole |-> FALSE, mine |-> TRUE,
                                 private |-> ~ByPath(p) \/ world.umask = {}])
              /\ drawn' = drawn + 1
              /\ mine' = [mine EXCEPT ![p] = drawn + 1]
              /\ At(p, Dir(n)) /\ Step(p, "write")
              /\ UNCHANGED <<dir, dirs, sec, withdrawn, task, got, starts>>
  /\ UNCHANGED world

Create(p) ==
  /\ pc[p] = "create"
  /\ LET n == FileOf(task[p])
         d == IF ByPath(p) THEN Dir(n) ELSE at[p]
     IN  IF d = 0
         THEN Fail(p) /\ UNCHANGED fsVars
         ELSE IF files[d][n].tok # 0
         THEN IF task[p] = "secret"
              THEN Step(p, "begin") /\ UNCHANGED <<task, at, mine, got, starts>> /\ UNCHANGED fsVars
              ELSE Fail(p) /\ UNCHANGED fsVars
         ELSE /\ Put(d, n, [tok |-> drawn + 1, whole |-> FALSE, mine |-> TRUE,
                            private |-> ~ByPath(p) \/ world.umask = {}])
              /\ drawn' = drawn + 1
              /\ mine' = [mine EXCEPT ![p] = drawn + 1]
              /\ At(p, d) /\ Step(p, "write")
              /\ UNCHANGED <<dir, dirs, sec, withdrawn, task, got, starts>>
  /\ UNCHANGED world

Written(p, whole) ==
  LET n == FileOf(task[p])
  IN  IF files[at[p]][n].tok = mine[p] THEN Put(at[p], n, [files[at[p]][n] EXCEPT !.whole = whole])
      ELSE UNCHANGED files      \* its name is gone: the content goes with the handle

(* The write and the close: the whole content, after which the POSIX secret  *)
(* still lacks its mode; or an error, which only the POSIX secret leaves     *)
(* behind. The key is synced too, and that may fail with all of it written.  *)
Write(p) ==
  /\ pc[p] = "write"
  /\ \/ /\ Written(p, TRUE)
        /\ IF ByPath(p) THEN Step(p, "chmod") /\ UNCHANGED <<task, at, mine, got, starts>>
                        ELSE Finish(p, mine[p])
     \/ /\ world.faults
        /\ \/ Written(p, FALSE)
           \/ task[p] = "provision" /\ Written(p, TRUE)
        /\ IF ByPath(p) THEN Fail(p)
                        ELSE Step(p, "unlink") /\ UNCHANGED <<task, at, mine, got, starts>>
  /\ UNCHANGED <<world, dir, dirs, sec, drawn, withdrawn>>

(* The cleanup after it, by name in the directory held open. On Windows it   *)
(* is refused while a reader has the file open, and the file stays.          *)
Unlink(p) ==
  /\ pc[p] = "unlink"
  /\ LET n == FileOf(task[p])
     IN  IF Windows /\ Reading(at[p], n) THEN UNCHANGED <<files, withdrawn>>
         ELSE Put(at[p], n, Absent) /\ withdrawn' = withdrawn \cup {files[at[p]][n].tok}
  /\ Fail(p)
  /\ UNCHANGED <<world, dir, dirs, sec, drawn>>

----------------------------------------------------------------------------
(* Directories so far and those missing, which the programs may yet make.    *)
Room == dirs + Cardinality({q \in Paths : dir[q] = 0})

(* Other programs. An account that may change the directory above can move   *)
(* the private one away, and put there its own, or one of the owner's: the   *)
(* one it moved away, or any other it may move. One that may change the      *)
(* private one can remove its files. Windows refuses to move what is held.   *)
MoveDirAway(path) ==
  /\ OthersMayChange(world.above[path]) /\ dir[path] # 0
  /\ ~(Windows /\ Held(dir[path]))
  /\ Room < MaxDirs      \* bound: leaves the programs room for theirs
  /\ dir' = [dir EXCEPT ![path] = 0]
  /\ UNCHANGED <<world, dirs, sec, files, drawn, withdrawn, procVars>>

PutDirThere(path) ==
  /\ OthersMayChange(world.above[path]) /\ dir[path] = 0
  /\ \/ NewDir(path, world.foreign)
     \/ \E d \in (1 .. dirs) \ {dir[q] : q \in Paths} :
          /\ ~(Windows /\ Held(d))
          /\ dir' = [dir EXCEPT ![path] = d]
          /\ UNCHANGED <<dirs, sec>>
  /\ UNCHANGED <<world, files, drawn, withdrawn, procVars>>

RemoveFile(n) ==
  /\ Dir(n) # 0 /\ OthersMayChange(sec[Dir(n)])
  /\ files[Dir(n)][n].tok # 0
  /\ ~(Windows /\ (Writing(Dir(n), n) \/ Reading(Dir(n), n)))
  /\ Put(Dir(n), n, Absent)
  /\ UNCHANGED <<world, dir, dirs, sec, drawn, withdrawn, procVars>>

(* The process dies, or is stopped: its handles close.                       *)
Die(p) ==
  /\ pc[p] \notin {"idle", "failed", "done"}
  /\ world.faults
  /\ Fail(p)
  /\ UNCHANGED <<world, fsVars>>
=============================================================================

------------------------------- MODULE KeyFile -------------------------------
(* src/psoperator/common/attestation.py: attestation-keygen provisions the   *)
(* observer's signing key, the observer and the gatekeeper load it; and the  *)
(* part of AttestationGate.__init__ that loads the gate's watermark from the *)
(* same kind of file, with the checks by which a missing file is a first     *)
(* start (src/psoperator/gatekeeper/attestation_gate.py).                    *)
EXTENDS OwnerFiles

VARIABLES
  first,    \* gatekeepers that came up taking this for a first start
  recorded  \* a watermark was recorded

gateVars == <<first, recorded>>

(* POSIX, load_attestation_key: lstat, an open that follows no link, and on  *)
(* what was opened the identity, the mode and the owner. Another directory   *)
(* object means another file; within one, a removed file's number may be     *)
(* given to the next, so a new file may pass for the old.                    *)
KeyLstat(p) ==
  /\ ~Windows /\ task[p] = "key" /\ pc[p] = "begin"
  /\ IF FileAt(Dir("key"), "key").tok # 0
     THEN Step(p, "open") /\ At(p, Dir("key")) /\ UNCHANGED <<task, mine, got, starts>>
     ELSE Fail(p)
  /\ UNCHANGED <<world, fsVars, gateVars>>

KeyOpen(p) ==
  /\ task[p] = "key" /\ pc[p] = "open"
  /\ LET f == FileAt(Dir("key"), "key")
     IN  IF f.tok # 0 /\ Dir("key") = at[p] /\ OwnerOnlyFile(f) /\ f.whole THEN Finish(p, f.tok) ELSE Fail(p)
  /\ UNCHANGED <<world, fsVars, gateVars>>

(* provision_attestation_key, POSIX: the directory is looked at, opened and  *)
(* judged through the descriptor; everything after is relative to it.        *)
ProvisionLstat(p) ==
  /\ ~Windows /\ task[p] = "provision" /\ pc[p] = "begin"
  /\ IF Dir("key") = 0 THEN Fail(p) ELSE Step(p, "opendir") /\ At(p, Dir("key")) /\ UNCHANGED <<task, mine, got, starts>>
  /\ UNCHANGED <<world, fsVars, gateVars>>

OpenOwnerOnlyDir(p) ==
  /\ task[p] = "provision" /\ pc[p] = "opendir"
  /\ IF Dir("key") = at[p] /\ OwnerOnlyDir(sec[Dir("key")])
     THEN Step(p, "create") /\ UNCHANGED <<task, at, mine, got, starts>>
     ELSE Fail(p)
  /\ UNCHANGED <<world, fsVars, gateVars>>

(* Windows: one handle, opened without following a link and then judged.     *)
ProvisionOpenDir(p) ==
  /\ Windows /\ task[p] = "provision" /\ pc[p] = "begin"
  /\ IF Dir("key") # 0 /\ OwnerOnlyDir(sec[Dir("key")])
     THEN Step(p, "create") /\ At(p, Dir("key")) /\ UNCHANGED <<task, mine, got, starts>>
     ELSE Fail(p)
  /\ UNCHANGED <<world, fsVars, gateVars>>

----------------------------------------------------------------------------
FirstStart(p) == first' = [first EXCEPT ![p] = TRUE] /\ Finish(p, 0)

(* _check_state_dir, or on Windows the handle on the directory. A missing    *)
(* directory is a first start below an ancestor nobody else may change:      *)
(* Windows ends the matter there, POSIX still looks for the file. POSIX      *)
(* keeps no descriptor; at remembers which directory was judged.             *)
CheckStateDir(p) ==
  /\ task[p] = "state" /\ pc[p] = "begin"
  /\ IF Dir("state") = 0
     THEN IF ~SafeAncestor(world.above[PathOf("state")]) THEN Fail(p) /\ UNCHANGED first
          ELSE IF Windows THEN FirstStart(p)
          ELSE Step(p, "open") /\ UNCHANGED <<task, at, mine, got, starts, first>>
     ELSE IF ~StateDirOk(sec[Dir("state")]) THEN Fail(p) /\ UNCHANGED first
          ELSE /\ Step(p, "open") /\ At(p, Dir("state"))
               /\ UNCHANGED <<task, mine, got, starts, first>>
  /\ UNCHANGED <<world, fsVars, recorded>>

(* _read_state_bytes and the rest of _load_watermark.                        *)
LoadWatermark(p) ==
  /\ task[p] = "state" /\ pc[p] = "open"
  /\ LET f == FileAt(Dir("state"), "state")
     IN  IF f.tok = 0 THEN FirstStart(p)
         ELSE IF OwnerOnlyFile(f) /\ f.whole THEN Finish(p, 0) /\ UNCHANGED first
         ELSE Fail(p) /\ UNCHANGED first
  /\ UNCHANGED <<world, fsVars, recorded>>

(* _write_state of a gatekeeper that serves: missing directories are made    *)
(* owner-only, and a new file takes the old one's place. On Windows the      *)
(* directory, or the ancestor, is judged again.                              *)
Record(p) ==
  /\ pc[p] = "up" /\ world.prog[p] = "gatekeeper"
  /\ IF Dir("state") = 0
     THEN /\ Windows => SafeAncestor(world.above[PathOf("state")])
          /\ NewDir(PathOf("state"), MadeOwnerOnly)
          /\ Put(dirs + 1, "state", [tok |-> drawn + 1, whole |-> TRUE, private |-> TRUE, mine |-> TRUE])
     ELSE /\ Windows => OwnerOnlyDir(sec[Dir("state")])
          /\ Put(Dir("state"), "state", [tok |-> drawn + 1, whole |-> TRUE, private |-> TRUE, mine |-> TRUE])
          /\ UNCHANGED <<dir, dirs, sec>>
  /\ drawn' = drawn + 1
  /\ ~recorded      \* bound: recorded once, later ones replace it alike
  /\ recorded' = TRUE
  /\ UNCHANGED <<world, withdrawn, procVars, first>>

KeyStep(p) ==
  \/ KeyLstat(p) \/ KeyOpen(p) \/ ProvisionLstat(p) \/ OpenOwnerOnlyDir(p) \/ ProvisionOpenDir(p)
  \/ CheckStateDir(p) \/ LoadWatermark(p)
=============================================================================

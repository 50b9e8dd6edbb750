------------------------------- MODULE Secrets -------------------------------
(* src/psoperator/common/auth.py, load_or_create_secret: the executor and    *)
(* the gatekeeper load the IPC secret, and whichever comes first makes it.   *)
EXTENDS OwnerFiles

AtSecret(p, step) == task[p] = "secret" /\ pc[p] = step

(* POSIX. Exists, stat and read are three looks at the path.                 *)
SecretExists(p) ==
  /\ ~Windows /\ AtSecret(p, "begin")
  /\ Step(p, IF FileAt(Dir("secret"), "secret").tok # 0 THEN "stat" ELSE "ensure")
  /\ UNCHANGED <<world, fsVars, task, at, mine, got, starts>>

\* Mutant: a secret that is not private yet is looked at again.
AssertOwnerOnlyAgain(p) ==
  /\ AtSecret(p, "stat")
  /\ Step(p, IF OwnerOnlyFile(FileAt(Dir("secret"), "secret")) THEN "read" ELSE "begin")
  /\ UNCHANGED <<world, fsVars, task, at, mine, got, starts>>

AssertOwnerOnly(p) ==
  /\ AtSecret(p, "stat")
  /\ IF OwnerOnlyFile(FileAt(Dir("secret"), "secret"))
     THEN Step(p, "read") /\ UNCHANGED <<task, at, mine, got, starts>>
     ELSE Fail(p)
  /\ UNCHANGED <<world, fsVars>>

\* Mutant: the length of what was read is not looked at.
SecretReadAny(p) ==
  /\ AtSecret(p, "read")
  /\ IF FileAt(Dir("secret"), "secret").tok # 0 THEN Finish(p, FileAt(Dir("secret"), "secret").tok) ELSE Fail(p)
  /\ UNCHANGED <<world, fsVars>>

SecretRead(p) ==
  /\ AtSecret(p, "read")
  /\ IF FileAt(Dir("secret"), "secret").whole THEN Finish(p, FileAt(Dir("secret"), "secret").tok) ELSE Fail(p)
  /\ UNCHANGED <<world, fsVars>>

SecretMkdir(p) ==
  /\ ~Windows /\ AtSecret(p, "ensure")
  /\ IF Dir("secret") = 0 THEN NewDir("priv", MadeByUmask) /\ UNCHANGED <<files, drawn, withdrawn>> ELSE UNCHANGED fsVars
  /\ Step(p, "create") /\ UNCHANGED <<world, task, at, mine, got, starts>>

\* Mutant: the mode is left as the umask made it.
SecretChmodMissing(p) ==
  /\ AtSecret(p, "chmod")
  /\ Finish(p, mine[p])
  /\ UNCHANGED <<world, fsVars>>

(* The mode the umask left is narrowed only now, by path.                    *)
SecretChmod(p) ==
  /\ AtSecret(p, "chmod")
  /\ \/ /\ FileAt(Dir("secret"), "secret").tok # 0
        /\ Put(Dir("secret"), "secret", [FileAt(Dir("secret"), "secret") EXCEPT !.private = TRUE])
        /\ Finish(p, mine[p])
     \/ /\ FileAt(Dir("secret"), "secret").tok = 0 \/ world.faults
        /\ Fail(p) /\ UNCHANGED files
  /\ UNCHANGED <<world, dir, dirs, sec, drawn, withdrawn>>

(* Windows, ensure_owner_only_dir. What exists must be owner-only and is     *)
(* held; what is missing is made below an ancestor held and judged a trusted *)
(* parent, one that appeared meanwhile is judged when it is opened.          *)
EnsureDir(p) ==
  /\ Windows /\ AtSecret(p, "ensure")
  /\ IF Dir("secret") # 0
     THEN IF OwnerOnlyDir(sec[Dir("secret")])
          THEN Step(p, "create") /\ At(p, Dir("secret")) /\ UNCHANGED <<task, mine, got, starts>>
          ELSE Fail(p)
     ELSE IF SafeAncestor(world.above.priv)
          THEN Step(p, "mkdir") /\ UNCHANGED <<task, at, mine, got, starts>>
          ELSE Fail(p)
  /\ UNCHANGED <<world, fsVars>>

CreateDir(p) ==
  /\ AtSecret(p, "mkdir")
  /\ IF Dir("secret") = 0 THEN NewDir("priv", MadeOwnerOnly) /\ UNCHANGED <<files, drawn, withdrawn>> ELSE UNCHANGED fsVars
  /\ Step(p, "opendir") /\ UNCHANGED <<world, task, at, mine, got, starts>>

OpenDir(p) ==
  /\ AtSecret(p, "opendir")
  /\ IF Dir("secret") # 0 /\ OwnerOnlyDir(sec[Dir("secret")])
     THEN Step(p, "create") /\ At(p, Dir("secret")) /\ UNCHANGED <<task, mine, got, starts>>
     ELSE Fail(p)
  /\ UNCHANGED <<world, fsVars>>

SecretStep(p) ==
  \/ SecretExists(p) \/ AssertOwnerOnly(p) \/ SecretRead(p) \/ SecretMkdir(p) \/ SecretChmod(p)
  \/ EnsureDir(p) \/ CreateDir(p) \/ OpenDir(p)
=============================================================================

---------------------------- MODULE ServicesProofs ----------------------------
(* Theorems about the programs' start, their files, their port and the       *)
(* observer, for every set of processes and situations.                      *)
EXTENDS Services, TLAPS, WellFoundedInduction

----------------------------------------------------------------------------
(* Windows access control.                                                   *)

\* The owner-only policy of winacl.py:94 lets nobody in: no account that carries
\* none of the user's, the machine's and the OWNER RIGHTS sids has any right on
\* an object the policy accepts, whatever else the descriptor holds.
THEOREM OwnerOnlyKeepsOut ==
  ASSUME NEW d \in Descriptor, OwnerOnly(d),
         NEW sids \in SUBSET (Sids \ {User, System, OwnerRights}), NEW right
  PROVE  ~MayHave(d, sids, right)
<1>1. d.present /\ d.owner = User
  BY DEF OwnerOnly, OwnerOnlyInfo, SecurityOfHandle
<1>2. ASSUME NEW i \in DOMAIN d.aces
      PROVE  d.aces[i].type # "other" /\ (d.aces[i].type = "allow" => d.aces[i].sid \in {User, System})
  BY <1>2 DEF OwnerOnly, OwnerOnlyInfo, SecurityOfHandle, Ace
<1>3. ASSUME NEW i \in DOMAIN d.aces PROVE d.aces[i].type \in AceTypes
  <2>1. d.aces \in Seq(RawAce)
    BY DEF Descriptor
  <2>2. d.aces[i] \in RawAce
    BY <1>3, <2>1
  <2>3. QED  BY <2>2 DEF RawAce
<1>4. User \notin sids /\ System \notin sids
  OBVIOUS
<1>5. ASSUME NEW i \in DOMAIN d.aces, d.aces[i].type # "deny" PROVE ~Applies(d.aces[i], d, sids)
  BY <1>1, <1>2, <1>3, <1>4, <1>5 DEF Applies, AceTypes
<1>6. QED
  BY <1>1, <1>4, <1>5 DEF MayHave

\* The parent policy of winacl.py:123 keeps out who could rename or remove
\* entries: nobody but the user, the machine and its administrators may change
\* those of a directory the policy accepts. Entries of a type the code does not
\* parse are refused, which is what this rests on.
THEOREM TrustedParentHolds ==
  ASSUME NEW d \in Descriptor, TrustedParent(d)
  PROVE  ~OutsidersMayChange(d)
<1>1. d.present /\ d.owner \in TrustedSids
  BY DEF TrustedParent, TrustedParentInfo, SecurityOfHandle
<1>2. ASSUME NEW i \in DOMAIN d.aces
      PROVE  \/ d.aces[i].inheritOnly
             \/ d.aces[i].type = "deny"
             \/ d.aces[i].mask \cap ChangesEntries # {} => d.aces[i].sid \in TrustedSids \cup {OwnerRights}
  BY <1>2 DEF TrustedParent, TrustedParentInfo, SecurityOfHandle, Ace
<1>3. QED
  BY <1>1, <1>2 DEF OutsidersMayChange, OutsideSids, MayHave, Applies

LEMMA OwnerOnlyHolds ==
  ASSUME NEW d \in Descriptor, OwnerOnly(d)
  PROVE  ~OutsidersMayChange(d)
  BY OwnerOnlyKeepsOut DEF OutsidersMayChange, OutsideSids, TrustedSids

\* What the program creates with owner_only_sddl (winacl.py:144) its own check
\* accepts.
THEOREM CreatedPasses == OwnerOnlySddl \in Descriptor /\ OwnerOnly(OwnerOnlySddl)
<1>1. /\ [type |-> "allow", sid |-> User, mask |-> Rights, inherited |-> FALSE, inheritOnly |-> FALSE] \in RawAce
      /\ [type |-> "allow", sid |-> System, mask |-> Rights, inherited |-> FALSE, inheritOnly |-> FALSE] \in RawAce
  BY SidsAssumption DEF RawAce, AceTypes
<1>2. OwnerOnlySddl \in Descriptor
  BY <1>1, SidsAssumption DEF OwnerOnlySddl, Descriptor
<1>3. OwnerOnly(OwnerOnlySddl)
  <2>1. DOMAIN OwnerOnlySddl.aces = {1, 2}
    BY DEF OwnerOnlySddl
  <2>2. \A i \in {1, 2} : LET ace == SecurityOfHandle(OwnerOnlySddl).aces[i]
                          IN  ~ace.inherited /\ ace.kind = "allow" /\ ace.sid \in {User, System}
    BY <2>1 DEF SecurityOfHandle, Ace, OwnerOnlySddl
  <2>3. DOMAIN SecurityOfHandle(OwnerOnlySddl).aces = {1, 2}
    BY <2>1 DEF SecurityOfHandle
  <2>4. /\ SecurityOfHandle(OwnerOnlySddl).owner = User /\ SecurityOfHandle(OwnerOnlySddl).present
        /\ SecurityOfHandle(OwnerOnlySddl).protected
    BY DEF SecurityOfHandle, OwnerOnlySddl
  <2>5. QED  BY <2>2, <2>3, <2>4 DEF OwnerOnly, OwnerOnlyInfo
<1>4. QED  BY <1>2, <1>3

----------------------------------------------------------------------------
(* Types. The parts of TypeOK that an action changes together.               *)

SecType == IF Windows THEN Descriptor ELSE PosixMode
FsOK ==
  /\ world \in Worlds
  /\ dirs \in 0 .. MaxDirs /\ dir \in [Paths -> 0 .. dirs]
  /\ sec \in [DirIds -> SecType]
  /\ files \in [DirIds -> [Names -> File]] /\ drawn \in Nat /\ withdrawn \subseteq Nat
ProcOK ==
  /\ pc \in [Procs -> Steps] /\ task \in [Procs -> Tasks] /\ mine \in [Procs -> Nat]
  /\ got \in [Procs -> [{"secret", "key"} -> Nat]] /\ starts \in Nat
AtOK == at \in [Procs -> 0 .. dirs]
GateOK == first \in [Procs -> BOOLEAN] /\ recorded \in BOOLEAN
PortOK == plugged \in [Devices -> Ids] /\ conn \in [Procs -> Conn]

LEMMA TypeParts == TypeOK <=> FsOK /\ ProcOK /\ AtOK /\ GateOK /\ PortOK /\ ObserverTypeOK
  BY DEF TypeOK, FilesTypeOK, FsOK, ProcOK, AtOK, GateOK, PortOK, SecType

LEMMA WorldFacts ==
  ASSUME world \in Worlds
  PROVE  /\ world.windows \in BOOLEAN /\ world.umask \subseteq ModeRights
         /\ world.prog \in [Procs -> Programs]
         /\ world.drawn \in Nat /\ world.dirs \in 0 .. MaxDirs /\ world.dir \in [Paths -> 0 .. world.dirs]
         /\ world.files \in [DirIds -> [Names -> File]] /\ world.plugged \in [Devices -> Ids]
         /\ world.port \in DOMAIN RealPath \cup {"none", "auto"} /\ world.baud \in Nat
         /\ world.sec \in [DirIds -> SecType] /\ world.foreign \in SecType /\ world.above \in [Paths -> SecType]
  BY WorldsAssumption DEF Situation, SecType, Windows

LEMMA MadeTypes ==
  ASSUME world \in Worlds
  PROVE  MadeOwnerOnly \in SecType /\ (~Windows => MadeByUmask \in SecType)
  BY WorldFacts, CreatedPasses DEF MadeOwnerOnly, MadeByUmask, SecType, PosixMode, ModeRights, Windows

LEMMA PathsAndNames ==
  /\ \A n \in Names : PathOf(n) \in Paths
  /\ \A t \in {"secret", "key", "provision", "state"} : FileOf(t) \in Names
  BY DEF PathOf, Paths, Names, FileOf

LEMMA DirType ==
  ASSUME FsOK, NEW n \in Names
  PROVE  /\ Dir(n) \in 0 .. dirs
         /\ FileAt(Dir(n), n) \in File
         /\ Dir(n) # 0 => Dir(n) \in DirIds
         /\ FileAt(Dir(n), n).tok # 0 \/ FileAt(Dir(n), n).whole => Dir(n) # 0
<1>1. Dir(n) \in 0 .. dirs
  BY PathsAndNames DEF FsOK, Dir
<1>2. dirs \in Nat /\ MaxDirs \in Nat /\ dirs <= MaxDirs
  BY BoundsAssumption DEF FsOK
<1>3. Dir(n) # 0 => Dir(n) \in DirIds
  BY <1>1, <1>2 DEF DirIds
<1>4. Absent \in File /\ Absent.tok = 0 /\ ~Absent.whole
  BY DEF Absent, File
<1>5. FileAt(Dir(n), n) \in File
  BY <1>3, <1>4 DEF FileAt, FsOK
<1>6. QED  BY <1>1, <1>3, <1>4, <1>5 DEF FileAt

LEMMA PutType ==
  ASSUME FsOK, NEW d \in DirIds, NEW n \in Names, NEW f \in File, Put(d, n, f)
  PROVE  files' \in [DirIds -> [Names -> File]]
  BY DEF FsOK, Put

LEMMA NewDirType ==
  ASSUME FsOK, NEW path \in Paths, NEW s \in SecType, NewDir(path, s)
  PROVE  /\ dirs' \in 0 .. MaxDirs /\ dirs' = dirs + 1 /\ dirs' \in DirIds
         /\ dir' \in [Paths -> 0 .. dirs'] /\ sec' \in [DirIds -> SecType]
<1>1. dirs \in Nat /\ MaxDirs \in Nat /\ dirs < MaxDirs
  BY BoundsAssumption DEF FsOK, NewDir
<1>2. dirs' = dirs + 1 /\ dirs' \in 0 .. MaxDirs /\ dirs' \in DirIds
  BY <1>1 DEF NewDir, DirIds
<1>3. dir' \in [Paths -> 0 .. dirs']
  <2>1. 0 .. dirs \subseteq 0 .. dirs' /\ dirs + 1 \in 0 .. dirs'
    BY <1>1, <1>2
  <2>2. QED  BY <2>1 DEF FsOK, NewDir
<1>4. sec' \in [DirIds -> SecType]
  BY <1>2 DEF FsOK, NewDir
<1>5. QED  BY <1>2, <1>3, <1>4

LEMMA FailType ==
  ASSUME ProcOK, NEW p \in Procs, Fail(p)
  PROVE  ProcOK' /\ at' = [at EXCEPT ![p] = 0]
<1>1. [secret |-> 0, key |-> 0] \in [{"secret", "key"} -> Nat]
  OBVIOUS
<1>2. QED  BY <1>1 DEF ProcOK, Fail, Step, At, Steps, Ended

LEMMA FinishType ==
  ASSUME ProcOK, NEW p \in Procs, NEW tok \in Nat, Finish(p, tok)
  PROVE  ProcOK' /\ at' = [at EXCEPT ![p] = 0]
<1>1. NextTask(p) \in Tasks
  BY DEF NextTask, Tasks
<1>2. pc' \in [Procs -> Steps] /\ task' \in [Procs -> Tasks]
  BY <1>1 DEF ProcOK, Finish, Step, Steps, Ended
<1>3. got' \in [Procs -> [{"secret", "key"} -> Nat]]
  <2>1. CASE task[p] \in {"secret", "key"}
    <3>1. got[p] \in [{"secret", "key"} -> Nat]
      BY DEF ProcOK
    <3>2. [got[p] EXCEPT ![task[p]] = tok] \in [{"secret", "key"} -> Nat]
      BY <3>1, <2>1
    <3>3. got' = [got EXCEPT ![p] = [got[p] EXCEPT ![task[p]] = tok]]
      BY <2>1 DEF Finish, ProcOK
    <3>4. QED  BY <3>2, <3>3 DEF ProcOK
  <2>2. CASE task[p] \notin {"secret", "key"}
    BY <2>2 DEF Finish, ProcOK
  <2>3. QED  BY <2>1, <2>2
<1>4. QED  BY <1>2, <1>3 DEF ProcOK, Finish, At

LEMMA StepType ==
  ASSUME ProcOK, NEW p \in Procs, NEW s \in Steps, Step(p, s), UNCHANGED <<task, mine, got, starts>>
  PROVE  ProcOK'
  BY DEF ProcOK, Step

LEMMA AtZero ==
  ASSUME FsOK, AtOK, NEW p \in Procs, at' = [at EXCEPT ![p] = 0], dirs' = dirs
  PROVE  AtOK'
  BY DEF FsOK, AtOK

LEMMA SameFs ==
  ASSUME FsOK, world' = world, UNCHANGED fsVars
  PROVE  FsOK'
  BY DEF FsOK, fsVars, SecType, Windows

AllOK == FsOK /\ ProcOK /\ AtOK

\* A step that changes neither files nor directories.
LEMMA LocalType ==
  ASSUME AllOK, NEW p \in Procs, UNCHANGED <<world, fsVars>>,
         \/ Fail(p)
         \/ \E tok \in Nat : Finish(p, tok)
         \/ \E s \in Steps : Step(p, s) /\ UNCHANGED <<task, mine, got, starts>>
                             /\ (at' = at \/ \E d \in 0 .. dirs : At(p, d))
  PROVE  AllOK'
<1>1. FsOK'
  BY SameFs DEF AllOK
<1>2. dirs' = dirs
  BY DEF fsVars
<1>3. CASE Fail(p)
  BY <1>1, <1>2, <1>3, FailType, AtZero DEF AllOK
<1>4. CASE \E tok \in Nat : Finish(p, tok)
  BY <1>1, <1>2, <1>4, FinishType, AtZero DEF AllOK
<1>5. CASE \E s \in Steps : Step(p, s) /\ UNCHANGED <<task, mine, got, starts>>
                            /\ (at' = at \/ \E d \in 0 .. dirs : At(p, d))
  <2>1. ProcOK'
    BY <1>5, StepType DEF AllOK
  <2>2. AtOK'
    BY <1>2, <1>5 DEF AllOK, AtOK, At
  <2>3. QED  BY <1>1, <2>1, <2>2 DEF AllOK
<1>6. QED  BY <1>3, <1>4, <1>5

\* A step that makes or keeps a directory and goes on.
LEMMA MkdirType ==
  ASSUME AllOK, NEW p \in Procs, NEW path \in Paths, NEW m \in SecType, NEW s \in Steps,
         \/ NewDir(path, m) /\ UNCHANGED <<files, drawn, withdrawn>>
         \/ UNCHANGED fsVars,
         Step(p, s), UNCHANGED <<world, task, at, mine, got, starts>>
  PROVE  AllOK'
<1>1. CASE UNCHANGED fsVars
  BY <1>1, LocalType DEF AllOK
<1>2. CASE NewDir(path, m) /\ UNCHANGED <<files, drawn, withdrawn>>
  <2>1. FsOK'
    BY <1>2, NewDirType DEF AllOK, FsOK, SecType, Windows
  <2>2. ProcOK'
    BY StepType DEF AllOK
  <2>3. AtOK'
    <3>1. 0 .. dirs \subseteq 0 .. dirs'
      BY <1>2, NewDirType DEF AllOK, FsOK
    <3>2. QED  BY <3>1 DEF AllOK, AtOK
  <2>4. QED  BY <2>1, <2>2, <2>3 DEF AllOK
<1>3. QED  BY <1>1, <1>2

LEMMA AtSecretIs ==
  ASSUME NEW p, NEW s, AtSecret(p, s) PROVE FileOf(task[p]) = "secret" /\ task[p] = "secret"
  BY DEF AtSecret, FileOf

LEMMA StepNames ==
  {"begin", "stat", "read", "ensure", "mkdir", "opendir", "create", "write", "chmod", "unlink", "reading", "open"} \subseteq Steps
  BY DEF Steps

LEMMA SecretStepType ==
  ASSUME AllOK, NEW p \in Procs, SecretStep(p)
  PROVE  AllOK'
<1> USE StepNames, PathsAndNames
<1>d. /\ Dir("secret") \in 0 .. dirs /\ FileAt(Dir("secret"), "secret") \in File
      /\ FileAt(Dir("secret"), "secret").tok \in Nat
      /\ FileAt(Dir("secret"), "secret").tok # 0 => Dir("secret") \in DirIds
  BY DirType DEF AllOK, Names, File
<1>1. CASE SecretExists(p)
  BY <1>1, LocalType DEF SecretExists
<1>2. CASE AssertOwnerOnly(p)
  BY <1>2, LocalType DEF AssertOwnerOnly
<1>3. CASE SecretRead(p)
  BY <1>3, <1>d, LocalType DEF SecretRead
<1>4. CASE SecretMkdir(p)
  <2>1. MadeByUmask \in SecType /\ "priv" \in Paths
    BY <1>4, MadeTypes DEF SecretMkdir, AllOK, FsOK, Paths
  <2>2. QED  BY <1>4, <2>1, MkdirType DEF SecretMkdir
<1>5. CASE SecretChmod(p)
  <2>1. CASE Fail(p) /\ UNCHANGED files
    BY <1>5, <2>1, LocalType DEF SecretChmod, fsVars
  <2>2. CASE /\ FileAt(Dir("secret"), "secret").tok # 0
             /\ Put(Dir("secret"), "secret", [FileAt(Dir("secret"), "secret") EXCEPT !.private = TRUE])
             /\ Finish(p, mine[p])
    <3>1. [FileAt(Dir("secret"), "secret") EXCEPT !.private = TRUE] \in File
      BY <1>d DEF File
    <3>2. files' \in [DirIds -> [Names -> File]]
      BY <2>2, <3>1, <1>d, PutType DEF AllOK, Names
    <3>3. FsOK'
      BY <1>5, <3>2 DEF SecretChmod, AllOK, FsOK, SecType, Windows
    <3>4. mine[p] \in Nat
      BY DEF AllOK, ProcOK
    <3>5. ProcOK' /\ AtOK'
      BY <1>5, <2>2, <3>4, FinishType, AtZero DEF AllOK, SecretChmod
    <3>6. QED  BY <3>3, <3>5 DEF AllOK
  <2>3. QED  BY <1>5, <2>1, <2>2 DEF SecretChmod
<1>6. CASE EnsureDir(p)
  BY <1>6, <1>d, LocalType DEF EnsureDir
<1>7. CASE CreateDir(p)
  <2>1. MadeOwnerOnly \in SecType /\ "priv" \in Paths
    BY MadeTypes DEF AllOK, FsOK, Paths
  <2>2. QED  BY <1>7, <2>1, MkdirType DEF CreateDir
<1>8. CASE OpenDir(p)
  BY <1>8, <1>d, LocalType DEF OpenDir
<1>9. QED
  BY <1>1, <1>2, <1>3, <1>4, <1>5, <1>6, <1>7, <1>8 DEF SecretStep

LEMMA KeyStepType ==
  ASSUME AllOK, GateOK, NEW p \in Procs, KeyStep(p)
  PROVE  AllOK' /\ GateOK'
<1> USE StepNames
<1>d. /\ Dir("key") \in 0 .. dirs /\ FileAt(Dir("key"), "key").tok \in Nat
      /\ Dir("state") \in 0 .. dirs /\ 0 \in Nat
  BY DirType DEF AllOK, Names, File
<1>1. CASE KeyLstat(p)
  BY <1>1, <1>d, LocalType DEF KeyLstat, gateVars, GateOK
<1>2. CASE KeyOpen(p)
  BY <1>2, <1>d, LocalType DEF KeyOpen, gateVars, GateOK
<1>3. CASE ProvisionLstat(p)
  BY <1>3, <1>d, LocalType DEF ProvisionLstat, gateVars, GateOK
<1>4. CASE OpenOwnerOnlyDir(p)
  BY <1>4, LocalType DEF OpenOwnerOnlyDir, gateVars, GateOK
<1>5. CASE ProvisionOpenDir(p)
  BY <1>5, <1>d, LocalType DEF ProvisionOpenDir, gateVars, GateOK
<1>6. CASE CheckStateDir(p)
  <2>1. AllOK'
    BY <1>6, <1>d, LocalType DEF CheckStateDir, FirstStart
  <2>2. GateOK'
    BY <1>6 DEF CheckStateDir, FirstStart, GateOK
  <2>3. QED  BY <2>1, <2>2
<1>7. CASE LoadWatermark(p)
  <2>1. AllOK'
    BY <1>7, <1>d, LocalType DEF LoadWatermark, FirstStart
  <2>2. GateOK'
    BY <1>7 DEF LoadWatermark, FirstStart, GateOK
  <2>3. QED  BY <2>1, <2>2
<1>8. QED
  BY <1>1, <1>2, <1>3, <1>4, <1>5, <1>6, <1>7 DEF KeyStep

\* Files are put where a process has a directory open; the two steps before the
\* write belong to the secret or a key that is provisioned.
Creating(p) ==
  /\ pc[p] \in {"create", "write", "unlink"} => task[p] \in {"secret", "provision"}
  /\ pc[p] \in {"write", "unlink", "reading"} => at[p] # 0
  /\ pc[p] = "reading" => task[p] \in {"secret", "key"}
AllCreating == \A p \in Procs : Creating(p)

LEMMA AtIsDir ==
  ASSUME AllOK, NEW p \in Procs, at[p] # 0
  PROVE  at[p] \in DirIds
  BY BoundsAssumption DEF AllOK, FsOK, AtOK, DirIds

\* A step of a process that writes a file.
LEMMA WritingType ==
  ASSUME AllOK, NEW p \in Procs, NEW d \in DirIds, NEW n \in Names, NEW f \in File,
         \/ Put(d, n, f)
         \/ UNCHANGED files,
         drawn' \in Nat, withdrawn' \subseteq Nat, UNCHANGED <<world, dir, dirs, sec>>
  PROVE  FsOK'
<1>1. files' \in [DirIds -> [Names -> File]]
  BY PutType DEF AllOK, FsOK
<1>2. QED  BY <1>1 DEF AllOK, FsOK, SecType, Windows

LEMMA FileStepType ==
  ASSUME AllOK, AllCreating, NEW p \in Procs,
         OpenForRead(p) \/ ReadOpened(p) \/ Create(p) \/ Write(p) \/ Unlink(p)
  PROVE  AllOK'
<1> USE StepNames
<1>d. \A n \in Names : Dir(n) \in 0 .. dirs
  BY DirType DEF AllOK
<1>n. "secret" \in Names /\ "key" \in Names
  BY DEF Names
<1>a. at[p] # 0 => at[p] \in DirIds
  BY AtIsDir
<1>t. Creating(p)
  BY DEF AllCreating
<1>1. CASE OpenForRead(p)
  <2>1. FileOf(task[p]) \in Names
    BY <1>1, PathsAndNames DEF OpenForRead
  <2>2. Dir(FileOf(task[p])) \in 0 .. dirs
    BY <2>1, <1>d
  <2>3. QED  BY <1>1, <2>2, LocalType DEF OpenForRead
<1>2. CASE ReadOpened(p)
  <2>1. FileOf(task[p]) \in Names /\ at[p] \in DirIds
    BY <1>2, <1>a, <1>t, PathsAndNames DEF ReadOpened, Creating
  <2>2. files[at[p]][FileOf(task[p])].tok \in Nat
    BY <2>1 DEF AllOK, FsOK, File
  <2>3. QED  BY <1>2, <2>2, LocalType DEF ReadOpened
<1>3. CASE Create(p)
  <2> DEFINE n == FileOf(task[p])
             d == IF ByPath(p) THEN Dir(n) ELSE at[p]
             f == [tok |-> drawn + 1, whole |-> FALSE, mine |-> TRUE, private |-> ~ByPath(p) \/ world.umask = {}]
  <2>1. n \in Names
    BY <1>3, <1>t, PathsAndNames DEF Create, Creating
  <2>2. d \in 0 .. dirs /\ (d # 0 => d \in DirIds)
    <3>1. Dir(n) \in 0 .. dirs /\ (Dir(n) # 0 => Dir(n) \in DirIds)
      BY <2>1, DirType DEF AllOK
    <3>2. at[p] \in 0 .. dirs
      BY DEF AllOK, AtOK
    <3>3. QED  BY <3>1, <3>2, <1>a
  <2>3. f \in File
    BY DEF File, AllOK, FsOK
  <2>4. CASE d = 0
    BY <1>3, <2>4, LocalType DEF Create
  <2>5. CASE d # 0 /\ files[d][n].tok # 0
    BY <1>3, <2>5, LocalType DEF Create
  <2>6. CASE d # 0 /\ files[d][n].tok = 0
    <3>1. /\ Put(d, n, f) /\ drawn' = drawn + 1 /\ mine' = [mine EXCEPT ![p] = drawn + 1]
          /\ At(p, d) /\ Step(p, "write") /\ UNCHANGED <<world, dir, dirs, sec, withdrawn, task, got, starts>>
      BY <1>3, <2>6 DEF Create
    <3>2. FsOK'
      BY <3>1, <2>1, <2>2, <2>3, <2>6, WritingType DEF AllOK, FsOK
    <3>3. ProcOK'
      BY <3>1 DEF AllOK, ProcOK, FsOK, Step
    <3>4. AtOK'
      BY <3>1, <2>2 DEF AllOK, AtOK, At
    <3>5. QED  BY <3>2, <3>3, <3>4 DEF AllOK
  <2>7. QED  BY <2>4, <2>5, <2>6
<1>4. CASE Write(p)
  <2> DEFINE n == FileOf(task[p])
  <2>1. n \in Names /\ at[p] \in DirIds
    BY <1>4, <1>a, <1>t, PathsAndNames DEF Write, Creating
  <2>2. ASSUME NEW whole \in BOOLEAN, Written(p, whole) PROVE FsOK'
    <3>0. files[at[p]][n] \in File
      BY <2>1 DEF AllOK, FsOK
    <3>1. [files[at[p]][n] EXCEPT !.whole = whole] \in File
      BY <3>0 DEF File
    <3>2. Put(at[p], n, [files[at[p]][n] EXCEPT !.whole = whole]) \/ UNCHANGED files
      BY <2>2 DEF Written
    <3>3. drawn' \in Nat /\ withdrawn' \subseteq Nat /\ UNCHANGED <<world, dir, dirs, sec>>
      BY <1>4 DEF Write, AllOK, FsOK
    <3>4. QED  BY <2>1, <3>1, <3>2, <3>3, WritingType
  <2>3. FsOK'
    BY <1>4, <2>2 DEF Write
  <2>4. ProcOK' /\ AtOK'
    <3>1. mine[p] \in Nat /\ dirs' = dirs /\ FsOK /\ ProcOK /\ AtOK
      BY <1>4 DEF AllOK, ProcOK, Write
    <3>2. CASE Fail(p)
      BY <3>1, <3>2, FailType, AtZero
    <3>3. CASE Finish(p, mine[p])
      BY <3>1, <3>3, FinishType, AtZero
    <3>4. CASE UNCHANGED <<task, at, mine, got, starts>> /\ (Step(p, "chmod") \/ Step(p, "unlink"))
      BY <3>1, <3>4, StepType DEF AtOK
    <3>5. QED  BY <1>4, <3>2, <3>3, <3>4 DEF Write
  <2>5. QED  BY <2>3, <2>4 DEF AllOK
<1>5. CASE Unlink(p)
  <2> DEFINE n == FileOf(task[p])
  <2>1. n \in Names /\ at[p] \in DirIds
    BY <1>5, <1>a, <1>t, PathsAndNames DEF Unlink, Creating
  <2>2. Absent \in File
    BY DEF Absent, File
  <2>3. withdrawn' \subseteq Nat /\ drawn' \in Nat
    <3>1. files[at[p]][n].tok \in Nat /\ withdrawn \subseteq Nat /\ drawn \in Nat
      BY <2>1 DEF AllOK, FsOK, File
    <3>2. QED  BY <1>5, <3>1 DEF Unlink
  <2>4. FsOK'
    BY <1>5, <2>1, <2>2, <2>3, WritingType DEF Unlink
  <2>5. ProcOK' /\ AtOK'
    BY <1>5, FailType, AtZero DEF Unlink, AllOK
  <2>6. QED  BY <2>4, <2>5 DEF AllOK
<1>6. QED
  BY <1>1, <1>2, <1>3, <1>4, <1>5

\* What a process does changes nothing of another process.
Others(p) ==
  \A q \in Procs \ {p} : /\ pc'[q] = pc[q] /\ task'[q] = task[q] /\ at'[q] = at[q]
                         /\ mine'[q] = mine[q] /\ got'[q] = got[q]

LEMMA MovesAlone ==
  ASSUME AllOK, NEW p \in Procs,
         \/ Fail(p)
         \/ \E tok \in Nat : Finish(p, tok)
         \/ \E s \in Steps : Step(p, s) /\ UNCHANGED <<task, mine, got, starts>>
                             /\ (at' = at \/ \E d \in 0 .. dirs : At(p, d))
         \/ UNCHANGED <<pc, task, at, mine, got>>
  PROVE  Others(p)
  BY DEF AllOK, ProcOK, AtOK, Others, Fail, Finish, Step, At

LEMMA OthersSecret ==
  ASSUME AllOK, NEW p \in Procs, SecretStep(p)
  PROVE  Others(p)
<1> USE StepNames
<1>d. Dir("secret") \in 0 .. dirs /\ FileAt(Dir("secret"), "secret").tok \in Nat /\ mine[p] \in Nat
  BY DirType DEF AllOK, Names, File, ProcOK
<1>1. QED
  BY <1>d, MovesAlone
     DEF SecretStep, SecretExists, AssertOwnerOnly, SecretRead, SecretMkdir, SecretChmod, EnsureDir, CreateDir, OpenDir

LEMMA OthersKey ==
  ASSUME AllOK, NEW p \in Procs, KeyStep(p)
  PROVE  Others(p)
<1> USE StepNames
<1>d. /\ Dir("key") \in 0 .. dirs /\ FileAt(Dir("key"), "key").tok \in Nat
      /\ Dir("state") \in 0 .. dirs /\ 0 \in Nat
  BY DirType DEF AllOK, Names, File
<1>1. QED
  BY <1>d, MovesAlone
     DEF KeyStep, KeyLstat, KeyOpen, ProvisionLstat, OpenOwnerOnlyDir, ProvisionOpenDir, CheckStateDir,
         LoadWatermark, FirstStart

LEMMA OthersFile ==
  ASSUME AllOK, NEW p \in Procs,
         OpenForRead(p) \/ ReadOpened(p) \/ Create(p) \/ Write(p) \/ Unlink(p)
  PROVE  Others(p)
  BY DEF OpenForRead, ReadOpened, Create, Write, Unlink, Others, Fail, Finish, Step, At, AllOK, ProcOK, AtOK

\* The condition on those steps is kept.
LEMMA CreatingMoves ==
  ASSUME AllCreating, NEW p \in Procs, Others(p), Creating(p)'
  PROVE  AllCreating'
  BY DEF AllCreating, Creating, Others

LEMMA EndsCreating ==
  ASSUME AllOK, NEW p \in Procs, Fail(p) \/ \E tok \in Nat : Finish(p, tok)
  PROVE  Creating(p)' /\ pc'[p] \in {"failed", "done", "up", "begin"}
<1>1. pc'[p] \in {"failed", "done", "up", "begin"}
  BY DEF Fail, Finish, Step, AllOK, ProcOK
<1>2. QED  BY <1>1 DEF Creating

LEMMA SecretCreating ==
  ASSUME AllOK, AllCreating, NEW p \in Procs, SecretStep(p)
  PROVE  AllCreating'
<1> USE StepNames
<1>d. Dir("secret") \in 0 .. dirs /\ FileAt(Dir("secret"), "secret").tok \in Nat /\ mine[p] \in Nat
  BY DirType DEF AllOK, Names, File, ProcOK
<1>1. Creating(p)'
  <2>1. CASE Fail(p) \/ \E tok \in Nat : Finish(p, tok)
    BY <2>1, EndsCreating
  <2>2. CASE /\ task' = task /\ task[p] = "secret"
             /\ \E s \in {"stat", "ensure", "read", "create", "mkdir", "opendir"} : Step(p, s)
    BY <2>2 DEF Step, Creating, AllOK, ProcOK
  <2>3. QED
    BY <1>d, <2>1, <2>2
       DEF SecretStep, SecretExists, AssertOwnerOnly, SecretRead, SecretMkdir, SecretChmod, EnsureDir, CreateDir,
           OpenDir, AtSecret
<1>2. QED  BY <1>1, OthersSecret, CreatingMoves

LEMMA KeyCreating ==
  ASSUME AllOK, AllCreating, NEW p \in Procs, KeyStep(p)
  PROVE  AllCreating'
<1> USE StepNames
<1>d. FileAt(Dir("key"), "key").tok \in Nat /\ 0 \in Nat
  BY DirType DEF AllOK, Names, File
<1>1. Creating(p)'
  <2>1. CASE Fail(p) \/ \E tok \in Nat : Finish(p, tok)
    BY <2>1, EndsCreating
  <2>2. CASE task' = task /\ \/ Step(p, "open") \/ Step(p, "opendir")
                             \/ Step(p, "create") /\ task[p] = "provision"
    BY <2>2 DEF Step, Creating, AllOK, ProcOK
  <2>3. QED
    BY <1>d, <2>1, <2>2
       DEF KeyStep, KeyLstat, KeyOpen, ProvisionLstat, OpenOwnerOnlyDir, ProvisionOpenDir, CheckStateDir,
           LoadWatermark, FirstStart
<1>2. QED  BY <1>1, OthersKey, CreatingMoves

LEMMA FileCreating ==
  ASSUME AllOK, AllCreating, NEW p \in Procs,
         OpenForRead(p) \/ ReadOpened(p) \/ Create(p) \/ Write(p) \/ Unlink(p)
  PROVE  AllCreating'
<1>t. Creating(p) /\ mine[p] \in Nat
  BY DEF AllCreating, AllOK, ProcOK
<1>e. ASSUME Fail(p) PROVE Creating(p)'
  BY <1>e, EndsCreating
<1>f. ASSUME NEW tok \in Nat, Finish(p, tok) PROVE Creating(p)'
  BY <1>f, EndsCreating
<1>1. CASE OpenForRead(p)
  <2>1. FileOf(task[p]) \in Names
    BY <1>1, PathsAndNames DEF OpenForRead
  <2>2. FileAt(Dir(FileOf(task[p])), FileOf(task[p])).tok # 0 => Dir(FileOf(task[p])) # 0
    BY <2>1, DirType DEF AllOK
  <2>3. Creating(p)'
    BY <1>1, <1>e, <2>2 DEF OpenForRead, Step, At, Creating, AllOK, ProcOK, AtOK
  <2>4. QED  BY <1>1, <2>3, OthersFile, CreatingMoves
<1>2. CASE ReadOpened(p)
  <2>1. FileOf(task[p]) \in Names /\ at[p] \in DirIds
    BY <1>2, <1>t, AtIsDir, PathsAndNames DEF ReadOpened, Creating
  <2>2. files[at[p]][FileOf(task[p])].tok \in Nat
    BY <2>1 DEF AllOK, FsOK, File
  <2>3. QED  BY <1>2, <1>e, <1>f, <2>2, OthersFile, CreatingMoves DEF ReadOpened
<1>3. CASE Create(p)
  <2>1. Creating(p)'
    BY <1>3, <1>t, <1>e DEF Create, Step, At, Creating, AllOK, ProcOK, AtOK
  <2>2. QED  BY <1>3, <2>1, OthersFile, CreatingMoves
<1>4. CASE Write(p)
  <2>1. CASE Fail(p) \/ Finish(p, mine[p])
    BY <1>4, <1>t, <1>e, <1>f, <2>1, OthersFile, CreatingMoves
  <2>2. CASE UNCHANGED <<task, at>> /\ (Step(p, "chmod") \/ Step(p, "unlink"))
    <3>1. Creating(p)'
      BY <1>4, <1>t, <2>2 DEF Write, Step, Creating, AllOK, ProcOK
    <3>2. QED  BY <1>4, <3>1, OthersFile, CreatingMoves
  <2>3. QED  BY <1>4, <2>1, <2>2 DEF Write
<1>5. CASE Unlink(p)
  BY <1>5, <1>e, OthersFile, CreatingMoves DEF Unlink
<1>6. QED  BY <1>1, <1>2, <1>3, <1>4, <1>5

----------------------------------------------------------------------------
(* The port, the observer, and what others do.                               *)

LEMMA KnownChipsIs ==
  /\ DOMAIN KnownChips = {"ch9329", "ch32v208"}
  /\ KnownChips["ch9329"] = [fixed |-> 0, default |-> 9600, auto |-> FALSE]
  /\ KnownChips["ch32v208"] = [fixed |-> 115200, default |-> 115200, auto |-> FALSE]
  BY DEF KnownChips

\* No known chip is one that "auto" may pick.
LEMMA NoneDetected == Detected = {}
  BY KnownChipsIs DEF Detected, Matches

LEMMA IdentifyType ==
  ASSUME PortOK, NEW name \in DOMAIN RealPath
  PROVE  Identify(name) \in {"none", "ch9329", "ch32v208"}
  BY BoundsAssumption, KnownChipsIs DEF Identify, Matches, SamePort, PortOK

LEMMA RateType ==
  ASSUME NEW id \in {"none", "ch9329", "ch32v208"}, NEW baud \in Nat
  PROVE  ResolveBaudrate(id, baud) \in Nat
  BY KnownChipsIs DEF ResolveBaudrate

\* What the opening and a serving executor rely on: the port was resolved.
Resolved(p) ==
  /\ world.port # "auto" /\ world.port \in DOMAIN RealPath /\ conn[p].device = RealPath[world.port]
  /\ conn[p].id \in {"none", "ch9329", "ch32v208"}
  /\ conn[p].baud = ResolveBaudrate(conn[p].id, world.baud)
Dialed(p) ==
  /\ pc[p] = "open" /\ task[p] = "port" => Resolved(p)
  /\ world.prog[p] = "executor" =>
       task[p] \in {"secret", "port", "serve"} /\ (task[p] = "serve" /\ world.port # "none" => Resolved(p))
  /\ pc[p] = "up" => task[p] = "serve"
AllDialed == \A p \in Procs : Dialed(p)

LEMMA PortStepType ==
  ASSUME AllOK, PortOK, AllDialed, NEW p \in Procs, PortStep(p)
  PROVE  AllOK' /\ PortOK' /\ Others(p)
<1> USE StepNames
<1>w. world.port \in DOMAIN RealPath \cup {"none", "auto"} /\ world.baud \in Nat
  BY WorldFacts DEF AllOK, FsOK
<1>1. CASE ResolveConnection(p)
  <2>1. CASE Finish(p, 0) /\ UNCHANGED conn
    BY <1>1, <2>1, LocalType, MovesAlone DEF ResolveConnection, PortOK
  <2>2. CASE Fail(p) /\ UNCHANGED conn
    BY <1>1, <2>2, LocalType, MovesAlone DEF ResolveConnection, PortOK
  <2>3. CASE world.port \notin {"none", "auto"}
    <3> DEFINE device == RealPath[world.port]
               c == [device |-> device, id |-> Identify(world.port), opened |-> "none",
                     baud |-> ResolveBaudrate(Identify(world.port), world.baud)]
    <3>1. world.port \in DOMAIN RealPath
      BY <1>w, <2>3
    <3>2. Identify(world.port) \in {"none", "ch9329", "ch32v208"}
      BY <3>1, IdentifyType
    <3>3. device \in Devices /\ ResolveBaudrate(Identify(world.port), world.baud) \in Nat
      BY <1>w, <3>1, <3>2, RateType, BoundsAssumption
    <3>4. c \in Conn
      BY <3>2, <3>3, KnownChipsIs DEF Conn, Ids
    <3>5. conn' = [conn EXCEPT ![p] = c] /\ Step(p, "open") /\ UNCHANGED <<task, at, mine, got, starts>>
      BY <1>1, <2>3 DEF ResolveConnection
    <3>6. PortOK'
      BY <1>1, <3>4, <3>5 DEF PortOK, ResolveConnection
    <3>7. QED  BY <1>1, <3>5, <3>6, LocalType, MovesAlone DEF ResolveConnection
  <2>4. QED
    BY <1>1, <2>1, <2>2, <2>3, NoneDetected DEF ResolveConnection
<1>2. CASE OpenSerial(p)
  <2>1. AllOK' /\ Others(p)
    BY <1>2, LocalType, MovesAlone DEF OpenSerial
  <2>2. PortOK'
    <3>1. conn[p] \in Conn
      BY DEF PortOK
    <3>2. conn[p].device \in Devices
      BY <1>2, BoundsAssumption DEF OpenSerial, AllDialed, Dialed, Resolved
    <3>3. plugged[conn[p].device] \in Ids
      BY <3>2 DEF PortOK
    <3>4. [conn[p] EXCEPT !.opened = plugged[conn[p].device]] \in Conn
      BY <3>1, <3>3 DEF Conn
    <3>5. conn' = conn \/ conn' = [conn EXCEPT ![p] = [conn[p] EXCEPT !.opened = plugged[conn[p].device]]]
      BY <1>2 DEF OpenSerial, PortOK
    <3>6. QED  BY <1>2, <3>4, <3>5 DEF OpenSerial, PortOK
  <2>3. QED  BY <2>1, <2>2
<1>3. QED  BY <1>1, <1>2 DEF PortStep

LEMMA DialedMoves ==
  ASSUME AllOK, AllDialed, NEW p \in Procs, Others(p), UNCHANGED <<world, conn>>,
         \/ Fail(p)
         \/ task[p] # "port" /\ \E tok \in Nat : Finish(p, tok)
         \/ \E s \in Steps \ {"up", "open"} : Step(p, s) /\ task' = task
         \/ Step(p, "open") /\ task' = task /\ task[p] # "port"
  PROVE  AllDialed'
<1>1. ASSUME NEW q \in Procs PROVE Resolved(q)' = Resolved(q)
  BY DEF Resolved
<1>2. ASSUME NEW q \in Procs \ {p} PROVE Dialed(q)'
  BY <1>1 DEF AllDialed, Dialed, Others
<1>3. Dialed(p)'
  <2>1. CASE Fail(p)
    BY <1>1, <2>1 DEF AllOK, ProcOK, AllDialed, Dialed, Fail, Step
  <2>2. CASE task[p] # "port" /\ \E tok \in Nat : Finish(p, tok)
    <3>1. task'[p] = NextTask(p) /\ (pc'[p] = "up" => NextTask(p) = "serve") /\ pc'[p] # "open"
      BY <2>2 DEF AllOK, ProcOK, Finish, Step
    <3>2. world.prog[p] = "executor" => task[p] \in {"secret", "serve"}
      BY <2>2 DEF AllDialed, Dialed
    <3>3. world.prog[p] = "executor" /\ task[p] = "serve" /\ world.port # "none" => Resolved(p)
      BY DEF AllDialed, Dialed
    <3>4. QED  BY <1>1, <3>1, <3>2, <3>3 DEF Dialed, NextTask
  <2>3. CASE \E s \in Steps \ {"up", "open"} : Step(p, s) /\ task' = task
    BY <1>1, <2>3 DEF AllOK, ProcOK, AllDialed, Dialed, Step
  <2>4. CASE Step(p, "open") /\ task' = task /\ task[p] # "port"
    BY <1>1, <2>4 DEF AllOK, ProcOK, AllDialed, Dialed, Step
  <2>5. QED  BY <2>1, <2>2, <2>3, <2>4
<1>4. QED  BY <1>2, <1>3 DEF AllDialed

LEMMA SecretDialed ==
  ASSUME AllOK, AllDialed, NEW p \in Procs, SecretStep(p), UNCHANGED conn
  PROVE  AllDialed'
<1> USE StepNames
<1>d. FileAt(Dir("secret"), "secret").tok \in Nat /\ mine[p] \in Nat
  BY DirType DEF AllOK, Names, File, ProcOK
<1>s. {"begin", "stat", "read", "ensure", "mkdir", "opendir", "create"} \subseteq Steps \ {"up", "open"}
  BY DEF Steps
<1>1. task[p] = "secret" /\ world' = world
  BY DEF SecretStep, SecretExists, AssertOwnerOnly, SecretRead, SecretMkdir, SecretChmod, EnsureDir, CreateDir,
         OpenDir, AtSecret
<1>2. \/ Fail(p)
      \/ \E tok \in Nat : Finish(p, tok)
      \/ \E s \in Steps \ {"up", "open"} : Step(p, s) /\ task' = task
  BY <1>d, <1>s
     DEF SecretStep, SecretExists, AssertOwnerOnly, SecretRead, SecretMkdir, SecretChmod, EnsureDir, CreateDir,
         OpenDir
<1>3. QED  BY <1>1, <1>2, OthersSecret, DialedMoves

LEMMA KeyDialed ==
  ASSUME AllOK, AllDialed, NEW p \in Procs, KeyStep(p), UNCHANGED conn
  PROVE  AllDialed'
<1> USE StepNames
<1>d. FileAt(Dir("key"), "key").tok \in Nat /\ 0 \in Nat
  BY DirType DEF AllOK, Names, File
<1>s. {"create", "opendir"} \subseteq Steps \ {"up", "open"}
  BY DEF Steps
<1>1. task[p] # "port" /\ world' = world
  BY DEF KeyStep, KeyLstat, KeyOpen, ProvisionLstat, OpenOwnerOnlyDir, ProvisionOpenDir, CheckStateDir, LoadWatermark
<1>2. \/ Fail(p)
      \/ \E tok \in Nat : Finish(p, tok)
      \/ \E s \in Steps \ {"up", "open"} : Step(p, s) /\ task' = task
      \/ Step(p, "open") /\ task' = task
  BY <1>d, <1>s
     DEF KeyStep, KeyLstat, KeyOpen, ProvisionLstat, OpenOwnerOnlyDir, ProvisionOpenDir, CheckStateDir,
         LoadWatermark, FirstStart
<1>3. QED  BY <1>1, <1>2, OthersKey, DialedMoves

LEMMA FileDialed ==
  ASSUME AllOK, AllCreating, AllDialed, NEW p \in Procs, UNCHANGED conn,
         OpenForRead(p) \/ ReadOpened(p) \/ Create(p) \/ Write(p) \/ Unlink(p)
  PROVE  AllDialed'
<1>s. {"ensure", "reading", "begin", "write", "chmod", "unlink"} \subseteq Steps \ {"up", "open"}
  BY DEF Steps
<1>t. Creating(p) /\ mine[p] \in Nat
  BY DEF AllCreating, AllOK, ProcOK
<1>1. task[p] # "port" /\ world' = world
  BY <1>t DEF OpenForRead, ReadOpened, Create, Write, Unlink, Creating
<1>2. \/ Fail(p)
      \/ \E tok \in Nat : Finish(p, tok)
      \/ \E s \in Steps \ {"up", "open"} : Step(p, s) /\ task' = task
  <2>1. CASE ReadOpened(p)
    <3>1. FileOf(task[p]) \in Names /\ at[p] \in DirIds
      BY <2>1, <1>t, AtIsDir, PathsAndNames DEF ReadOpened, Creating
    <3>2. files[at[p]][FileOf(task[p])].tok \in Nat
      BY <3>1 DEF AllOK, FsOK, File
    <3>3. QED  BY <2>1, <3>2 DEF ReadOpened
  <2>2. CASE ~ReadOpened(p)
    BY <1>s, <1>t, <2>2 DEF OpenForRead, Create, Write, Unlink
  <2>3. QED  BY <2>1, <2>2
<1>3. QED  BY <1>1, <1>2, OthersFile, DialedMoves

LEMMA PortDialed ==
  ASSUME AllOK, PortOK, AllDialed, NEW p \in Procs, PortStep(p)
  PROVE  AllDialed'
<1> USE StepNames
<1>w. world' = world /\ Others(p) /\ (world.port \in DOMAIN RealPath \cup {"none", "auto"})
  BY PortStepType, WorldFacts DEF AllOK, FsOK, PortStep, ResolveConnection, OpenSerial
<1>c. \A q \in Procs \ {p} : conn'[q] = conn[q]
  BY DEF PortStep, ResolveConnection, OpenSerial, PortOK
<1>1. ASSUME NEW q \in Procs \ {p} PROVE Dialed(q)'
  BY <1>w, <1>c DEF AllDialed, Dialed, Others, Resolved
<1>2. Dialed(p)'
  <2>1. CASE Fail(p) /\ conn' = conn
    BY <1>w, <2>1, DialedMoves DEF AllDialed
  <2>2. CASE task[p] = "port" /\ Finish(p, 0) /\ (world.port = "none" \/ Resolved(p)')
    BY <1>w, <2>2 DEF AllOK, ProcOK, Dialed, Finish, Step, NextTask
  <2>3. CASE ResolveConnection(p) /\ world.port \notin {"none", "auto"}
    <3>1. world.port \in DOMAIN RealPath
      BY <1>w, <2>3
    <3>2. Identify(world.port) \in {"none", "ch9329", "ch32v208"}
      BY <3>1, IdentifyType
    <3>3. /\ conn' = [conn EXCEPT ![p] = [device |-> RealPath[world.port], id |-> Identify(world.port),
                                          opened |-> "none", baud |-> ResolveBaudrate(Identify(world.port), world.baud)]]
          /\ Step(p, "open") /\ UNCHANGED <<world, task, at, mine, got, starts>> /\ task[p] = "port"
      BY <2>3 DEF ResolveConnection
    <3>4. /\ conn'[p].device = RealPath[world.port] /\ conn'[p].id = Identify(world.port)
          /\ conn'[p].baud = ResolveBaudrate(Identify(world.port), world.baud)
      BY <3>3 DEF PortOK
    <3>5. Resolved(p)'
      BY <2>3, <3>1, <3>2, <3>3, <3>4 DEF Resolved
    <3>6. QED  BY <3>3, <3>5 DEF AllOK, ProcOK, Step, Dialed
  <2>4. CASE OpenSerial(p) /\ Finish(p, 0)
    <3>1. Resolved(p) /\ task[p] = "port" /\ conn[p] \in Conn
      BY <2>4 DEF OpenSerial, AllDialed, Dialed, PortOK
    <3>2. conn' = conn \/ conn' = [conn EXCEPT ![p].opened = plugged[conn[p].device]]
      BY <2>4 DEF OpenSerial
    <3>3. conn'[p].device = conn[p].device /\ conn'[p].id = conn[p].id /\ conn'[p].baud = conn[p].baud
      BY <3>1, <3>2 DEF PortOK, Conn
    <3>4. Resolved(p)'
      BY <1>w, <3>1, <3>3 DEF Resolved
    <3>5. QED  BY <2>2, <2>4, <3>1, <3>4
  <2>5. QED
    BY <2>1, <2>2, <2>3, <2>4, NoneDetected DEF PortStep, ResolveConnection, OpenSerial
<1>3. QED  BY <1>1, <1>2 DEF AllDialed

Base == AllOK /\ GateOK /\ PortOK /\ ObserverTypeOK /\ AllCreating /\ AllDialed

LEMMA BaseTypes == Base => TypeOK
  BY TypeParts DEF Base, AllOK

\* Nothing that Base speaks of but the files has changed.
LEMMA SameProcs ==
  ASSUME ProcOK, AllCreating, AllDialed, UNCHANGED <<world, procVars, conn>>
  PROVE  ProcOK' /\ AllCreating' /\ AllDialed'
  BY DEF ProcOK, procVars, AllCreating, Creating, AllDialed, Dialed, Resolved

LEMMA InitBase == Init => Base
<1> SUFFICES ASSUME Init PROVE Base
  OBVIOUS
<1>1. FsOK
  BY WorldFacts DEF Init, FsOK, SecType, Windows
<1>2. ProcOK
  <2>1. [secret |-> 0, key |-> 0] \in [{"secret", "key"} -> Nat]
    OBVIOUS
  <2>2. QED  BY <2>1 DEF Init, ProcOK, Steps, Ended, Tasks
<1>3. AtOK
  BY <1>1, BoundsAssumption DEF Init, AtOK, FsOK
<1>4. GateOK
  BY DEF Init, GateOK
<1>5. PortOK
  BY <1>1, WorldFacts, KnownChipsIs DEF Init, PortOK, FsOK, NoConn, Conn, Ids
<1>6. ObserverTypeOK
  BY ElementsAssumption DEF Init, ObserverInit, ObserverTypeOK, NoReply, HealthType, None, Screens
<1>7. AllCreating /\ AllDialed
  BY DEF Init, AllCreating, Creating, AllDialed, Dialed
<1>8. QED  BY <1>1, <1>2, <1>3, <1>4, <1>5, <1>6, <1>7 DEF AllOK, Base

LEMMA StartBase ==
  ASSUME Base, NEW p \in Procs, Start(p)
  PROVE  Base'
<1> USE DEF Base
<1>1. FsOK' /\ AtOK'
  BY SameFs DEF Start, AllOK, AtOK, fsVars
<1>2. ProcOK'
  BY DEF Start, AllOK, ProcOK, Step, Steps, Ended, Tasks
<1>3. GateOK' /\ ObserverTypeOK'
  BY DEF Start, GateOK, ObserverTypeOK, obsVars
<1>4. PortOK'
  BY KnownChipsIs DEF Start, PortOK, NoConn, Conn, Ids
<1>5. \A q \in Procs \ {p} : pc'[q] = pc[q] /\ task'[q] = task[q] /\ at'[q] = at[q] /\ conn'[q] = conn[q]
  BY DEF Start, Step, AllOK, ProcOK, PortOK
<1>6. pc'[p] \in {"failed", "begin"} /\ (world.prog[p] = "executor" => task'[p] = "secret") /\ world' = world
  BY DEF Start, Step, AllOK, ProcOK
<1>7. AllCreating'
  BY <1>5, <1>6 DEF AllCreating, Creating
<1>8. AllDialed'
  BY <1>5, <1>6 DEF AllDialed, Dialed, Resolved
<1>9. QED  BY <1>1, <1>2, <1>3, <1>4, <1>7, <1>8 DEF AllOK

LEMMA CrashBase ==
  ASSUME Base, NEW p \in Procs, Crash(p)
  PROVE  Base'
<1> USE DEF Base
<1>1. AllOK' /\ Others(p)
  BY LocalType, MovesAlone DEF Crash, Die
<1>2. AllCreating' /\ AllDialed'
  BY <1>1, EndsCreating, CreatingMoves, DialedMoves DEF Crash, Die, portVars
<1>3. GateOK' /\ PortOK' /\ ObserverTypeOK'
  BY DEF Crash, Die, gateVars, portVars, GateOK, PortOK, ObserverTypeOK
<1>4. QED  BY <1>1, <1>2, <1>3

LEMMA FileStepBase ==
  ASSUME Base, NEW p \in Procs, FileStep(p), UNCHANGED <<portVars, obsVars>>
  PROVE  Base'
<1> USE DEF Base
<1>1. PortOK' /\ ObserverTypeOK' /\ conn' = conn
  BY DEF portVars, obsVars, PortOK, ObserverTypeOK
<1>2. CASE (OpenForRead(p) \/ ReadOpened(p) \/ Create(p) \/ Write(p) \/ Unlink(p)) /\ UNCHANGED gateVars
  BY <1>1, <1>2, FileStepType, FileCreating, FileDialed DEF gateVars, GateOK
<1>3. CASE SecretStep(p) /\ UNCHANGED gateVars
  BY <1>1, <1>3, SecretStepType, SecretCreating, SecretDialed DEF gateVars, GateOK
<1>4. CASE KeyStep(p)
  BY <1>1, <1>4, KeyStepType, KeyCreating, KeyDialed
<1>5. QED  BY <1>2, <1>3, <1>4 DEF FileStep

LEMMA PortStepBase ==
  ASSUME Base, NEW p \in Procs, PortStep(p), UNCHANGED <<gateVars, obsVars>>
  PROVE  Base'
<1> USE DEF Base
<1> USE StepNames
<1>1. AllOK' /\ PortOK' /\ Others(p) /\ AllDialed'
  BY PortStepType, PortDialed
<1>2. GateOK' /\ ObserverTypeOK'
  BY DEF gateVars, obsVars, GateOK, ObserverTypeOK
<1>3. pc'[p] \in {"failed", "done", "up", "begin", "open"}
  BY DEF PortStep, ResolveConnection, OpenSerial, Fail, Finish, Step, AllOK, ProcOK
<1>4. AllCreating'
  BY <1>1, <1>3, CreatingMoves DEF Creating
<1>5. QED  BY <1>1, <1>2, <1>4

LEMMA BuildCaptureBase ==
  ASSUME Base, NEW p \in Procs, BuildCapture(p), UNCHANGED <<gateVars, portVars>>
  PROVE  Base'
<1> USE DEF Base
<1>1. Fail(p) \/ Finish(p, 0)
  BY DEF BuildCapture
<1>2. UNCHANGED <<world, fsVars, conn>> /\ task[p] = "capture" /\ 0 \in Nat
  BY DEF BuildCapture, portVars
<1>3. AllOK' /\ Others(p)
  BY <1>1, <1>2, LocalType, MovesAlone
<1>4. AllCreating' /\ AllDialed'
  BY <1>1, <1>2, <1>3, EndsCreating, CreatingMoves, DialedMoves
<1>5. GateOK' /\ PortOK'
  BY DEF gateVars, portVars, GateOK, PortOK
<1>6. ObserverTypeOK'
  <2>1. UNCHANGED <<op, reply, peer, clock, screen, stopped>>
    BY DEF BuildCapture
  <2>2. \/ UNCHANGED <<phase, capture, sequence, failures, success, signed>>
        \/ /\ phase' = "accept" /\ capture' = "open" /\ sequence' = 0 /\ signed' = 0 /\ success' = None
           /\ failures' = FALSE
    BY DEF BuildCapture
  <2>3. screen' \in Screens' /\ reply' \in [ok: BOOLEAN, health: HealthType']
    BY <2>1 DEF ObserverTypeOK, Screens, HealthType, None
  <2>4. phase' \in {"off", "accept", "handle", "build", "sign", "send"} /\ capture' \in {"open", "closed"}
    BY <2>2 DEF ObserverTypeOK
  <2>5. failures' \in BOOLEAN
    BY <2>2, Zenon DEF ObserverTypeOK
  <2>6. sequence' \in Nat /\ signed' \in Nat /\ success' \in Nat \cup {None}
    BY <2>2 DEF ObserverTypeOK
  <2>7. op' \in {"observe", "health", "invalid"} /\ peer' \in {"none", "waiting", "gone"} /\ clock' \in Nat
        /\ stopped' \in BOOLEAN
    BY <2>1 DEF ObserverTypeOK
  <2>8. QED  BY <2>3, <2>4, <2>5, <2>6, <2>7 DEF ObserverTypeOK
<1>7. QED  BY <1>3, <1>4, <1>5, <1>6

LEMMA StopBase ==
  ASSUME Base, NEW p \in Procs, Stop(p), stopped' \in BOOLEAN, UNCHANGED <<gateVars, portVars>>
  PROVE  Base'
<1> USE DEF Base
<1>d. "done" \in Steps \ {"up", "open"} /\ "done" \in Steps
  BY DEF Steps, Ended
<1>1. UNCHANGED <<world, fsVars, conn, task, at>> /\ Step(p, "done")
  BY DEF Stop, portVars
<1>2. AllOK' /\ Others(p)
  BY <1>1, <1>d, LocalType, MovesAlone DEF Stop
<1>3. AllDialed'
  BY <1>1, <1>2, <1>d, DialedMoves
<1>4. Creating(p)'
  BY <1>1 DEF Creating, Step, AllOK, ProcOK
<1>5. GateOK' /\ PortOK'
  BY DEF gateVars, portVars, GateOK, PortOK
<1>6. ObserverTypeOK'
  BY DEF Stop, ObserverTypeOK
<1>7. QED  BY <1>2, <1>3, <1>4, <1>5, <1>6, CreatingMoves

\* Steps that leave the processes and the files alone.
LEMMA ElseBase ==
  ASSUME Base, UNCHANGED <<fileVars, gateVars, conn>>, plugged' \in [Devices -> Ids], ObserverTypeOK'
  PROVE  Base'
<1> USE DEF Base
<1>1. FsOK' /\ AtOK'
  BY SameFs DEF AllOK, AtOK, fileVars, fsVars
<1>2. ProcOK' /\ AllCreating' /\ AllDialed'
  BY SameProcs DEF AllOK, fileVars, procVars
<1>3. GateOK' /\ PortOK'
  BY DEF GateOK, PortOK, gateVars
<1>4. QED  BY <1>1, <1>2, <1>3 DEF AllOK

LEMMA RespondType ==
  ASSUME NEW ok \in BOOLEAN, Respond(ok), sequence' \in Nat, failures' \in BOOLEAN, success' \in Nat \cup {None}
  PROVE  reply' \in [ok: BOOLEAN, health: HealthType] /\ phase' = "send"
<1>1. Health' \in HealthType
  BY DEF Health, HealthType
<1>2. QED  BY <1>1 DEF Respond

LEMMA ServeType ==
  ASSUME ObserverTypeOK, ServeStep
  PROVE  ObserverTypeOK'
<1>1. CASE Handle
  <2>1. UNCHANGED <<op, peer, clock, screen, signed, stopped, capture, sequence, failures, success>>
    BY <1>1 DEF Handle
  <2>2. phase' \in {"build", "send"} /\ reply' \in [ok: BOOLEAN, health: HealthType]
    BY <1>1, <2>1, RespondType DEF Handle, ObserverTypeOK
  <2>3. QED  BY <2>1, <2>2 DEF ObserverTypeOK
<1>2. CASE ObserveFails
  <2>1. UNCHANGED <<op, peer, clock, screen, signed, stopped, capture, sequence, success>> /\ failures' = TRUE
    BY <1>2 DEF ObserveFails
  <2>2. sequence' \in Nat /\ success' \in Nat \cup {None} /\ failures' \in BOOLEAN
    BY <2>1 DEF ObserverTypeOK
  <2>3. phase' = "send" /\ reply' \in [ok: BOOLEAN, health: HealthType]
    BY <1>2, <2>2, RespondType DEF ObserveFails
  <2>4. QED  BY <2>1, <2>2, <2>3 DEF ObserverTypeOK
<1>3. CASE Sign
  <2>1. UNCHANGED <<op, peer, clock, screen, stopped, capture>> /\ failures' = FALSE
    BY <1>3 DEF Sign
  <2>2. sequence' \in Nat /\ signed' \in Nat /\ success' \in Nat \cup {None} /\ failures' \in BOOLEAN
    <3>1. sequence' = sequence + 1 /\ signed' = signed + 1 /\ success' = clock
      BY <1>3 DEF Sign
    <3>2. sequence \in Nat /\ signed \in Nat /\ clock \in Nat
      BY DEF ObserverTypeOK
    <3>3. failures' \in BOOLEAN
      BY <2>1
    <3>4. QED  BY <3>1, <3>2, <3>3
  <2>3. phase' = "send" /\ reply' \in [ok: BOOLEAN, health: HealthType]
    BY <1>3, <2>2, RespondType DEF Sign
  <2>4. QED  BY <2>1, <2>2, <2>3 DEF ObserverTypeOK
<1>4. CASE \E a11y, ocr \in BOOLEAN : Build(a11y, ocr)
  <2>1. phase' = "sign"
        /\ UNCHANGED <<op, sequence, failures, success, reply, peer, clock, screen, signed, stopped, capture>>
    BY <1>4 DEF Build
  <2>2. QED  BY <2>1 DEF ObserverTypeOK
<1>5. QED  BY <1>1, <1>2, <1>3, <1>4 DEF ServeStep

LEMMA ReplyType == NoReply \in [ok: BOOLEAN, health: HealthType]
  BY DEF NoReply, HealthType

LEMMA ObserverBase ==
  ASSUME Base, ObserverStep
  PROVE  Base'
<1> USE DEF Base
<1>1. CASE ServeStep
  <2>1. UNCHANGED fileVars
    BY <1>1 DEF ServeStep, Handle, ObserveFails, Sign, Build
  <2>2. UNCHANGED <<gateVars, conn, plugged>> /\ plugged' \in [Devices -> Ids]
    BY DEF ObserverStep, portVars, PortOK
  <2>3. QED  BY <1>1, <2>1, <2>2, ServeType, ElseBase
<1>2. CASE \E p \in Procs : Send(p)
  <2>1. PICK p \in Procs : Send(p)
    BY <1>2
  <2>2. UNCHANGED <<gateVars, portVars>>
    BY DEF ObserverStep
  <2>3. CASE peer = "gone" /\ Stop(p) /\ UNCHANGED stopped
    BY <2>2, <2>3, StopBase DEF ObserverTypeOK
  <2>4. CASE /\ phase' = "accept" /\ peer' = "none" /\ reply' = NoReply
             /\ UNCHANGED <<fileVars, op, draft, sequence, failures, success, clock, screen,
                            signed, published, stopped, capture>>
    <3>1. ObserverTypeOK'
      BY <2>4, ReplyType DEF ObserverTypeOK
    <3>2. UNCHANGED <<fileVars, gateVars, conn>> /\ plugged' \in [Devices -> Ids]
      BY <2>2, <2>4 DEF portVars, PortOK
    <3>3. QED  BY <3>1, <3>2, ElseBase
  <2>5. QED  BY <2>1, <2>3, <2>4 DEF Send
<1>3. QED  BY <1>1, <1>2 DEF ObserverStep

\* Steps on the files of no process.
LEMMA OutsideBase ==
  ASSUME Base, FsOK', dirs <= dirs', UNCHANGED <<world, procVars, portVars, obsVars>>, GateOK'
  PROVE  Base'
<1> USE DEF Base
<1>1. AtOK'
  <2>1. 0 .. dirs \subseteq 0 .. dirs'
    BY DEF AllOK, FsOK
  <2>2. QED  BY <2>1 DEF AllOK, AtOK, procVars
<1>2. ProcOK' /\ AllCreating' /\ AllDialed'
  BY SameProcs DEF AllOK, portVars
<1>3. PortOK' /\ ObserverTypeOK'
  BY DEF portVars, obsVars, PortOK, ObserverTypeOK
<1>4. QED  BY <1>1, <1>2, <1>3 DEF AllOK

LEMMA OthersStepBase ==
  ASSUME Base, OthersStep, UNCHANGED <<gateVars, portVars, obsVars>>
  PROVE  Base'
<1> USE DEF Base
<1>g. GateOK' /\ dirs \in Nat
  BY DEF gateVars, GateOK, AllOK, FsOK
<1>1. ASSUME NEW path \in Paths, MoveDirAway(path) PROVE Base'
  <2>1. FsOK'
    BY <1>1 DEF MoveDirAway, AllOK, FsOK, SecType, Windows
  <2>2. QED  BY <1>1, <1>g, <2>1, OutsideBase DEF MoveDirAway
<1>2. ASSUME NEW path \in Paths, PutDirThere(path) PROVE Base'
  <2>1. world.foreign \in SecType
    BY WorldFacts DEF AllOK, FsOK
  <2>2. FsOK' /\ dirs <= dirs'
    <3>1. CASE NewDir(path, world.foreign)
      BY <1>2, <1>g, <2>1, <3>1, NewDirType DEF PutDirThere, AllOK, FsOK, SecType, Windows
    <3>2. ASSUME NEW d \in 1 .. dirs, dir' = [dir EXCEPT ![path] = d], UNCHANGED <<dirs, sec>>
          PROVE  FsOK' /\ dirs <= dirs'
      BY <1>2, <1>g, <3>2 DEF PutDirThere, AllOK, FsOK, SecType, Windows
    <3>3. QED  BY <1>2, <3>1, <3>2 DEF PutDirThere
  <2>3. QED  BY <1>2, <1>g, <2>2, OutsideBase DEF PutDirThere
<1>3. ASSUME NEW n \in Names, RemoveFile(n) PROVE Base'
  <2>1. Absent \in File /\ Dir(n) \in DirIds
    BY <1>3, DirType DEF Absent, File, RemoveFile, AllOK
  <2>2. FsOK'
    <3>1. Put(Dir(n), n, Absent) /\ UNCHANGED <<world, dir, dirs, sec, drawn, withdrawn>>
      BY <1>3 DEF RemoveFile
    <3>2. drawn' \in Nat /\ withdrawn' \subseteq Nat
      BY <3>1 DEF AllOK, FsOK
    <3>3. files' \in [DirIds -> [Names -> File]]
      BY <2>1, <3>1, PutType DEF AllOK
    <3>4. QED  BY <3>1, <3>2, <3>3 DEF AllOK, FsOK, SecType, Windows
  <2>3. QED  BY <1>3, <1>g, <2>2, OutsideBase DEF RemoveFile
<1>4. QED  BY <1>1, <1>2, <1>3 DEF OthersStep

LEMMA EnvironmentBase ==
  ASSUME Base, Environment
  PROVE  Base'
<1> USE DEF Base
<1>1. CASE (\E d \in Devices, id \in Ids : Replug(d, id)) /\ UNCHANGED <<gateVars, obsVars>>
  <2>1. ObserverTypeOK' /\ UNCHANGED <<fileVars, gateVars, conn>> /\ plugged' \in [Devices -> Ids]
    BY <1>1 DEF Replug, obsVars, ObserverTypeOK, PortOK
  <2>2. QED  BY <2>1, ElseBase
<1>2. CASE UNCHANGED <<gateVars, portVars>> /\ (GiveUp \/ ObserverWorld \/ \E o \in {"observe", "health", "invalid"} : Call(o))
  <2>1. UNCHANGED <<fileVars, gateVars, conn>> /\ plugged' \in [Devices -> Ids]
    BY <1>2 DEF GiveUp, ObserverWorld, Call, portVars, PortOK
  <2>2. ObserverTypeOK'
    BY <1>2 DEF GiveUp, ObserverWorld, Call, ObserverTypeOK
  <2>3. QED  BY <2>1, <2>2, ElseBase
<1>3. CASE UNCHANGED <<gateVars, portVars>> /\ \E p \in Procs : Interrupt(p)
  BY <1>3, StopBase DEF Interrupt
<1>4. CASE OthersStep /\ UNCHANGED <<gateVars, portVars, obsVars>>
  BY <1>4, OthersStepBase
<1>5. QED  BY <1>1, <1>2, <1>3, <1>4 DEF Environment

LEMMA RecordBase ==
  ASSUME Base, NEW p \in Procs, Record(p), UNCHANGED <<portVars, obsVars>>
  PROVE  Base'
<1> USE DEF Base
<1>n. "state" \in Names /\ PathOf("state") \in Paths
  BY PathsAndNames DEF Names
<1>f. [tok |-> drawn + 1, whole |-> TRUE, private |-> TRUE, mine |-> TRUE] \in File
  BY DEF AllOK, FsOK, File
<1>g. GateOK' /\ dirs \in Nat /\ drawn' \in Nat /\ withdrawn' \subseteq Nat /\ world' = world
  BY DEF Record, GateOK, AllOK, FsOK
<1>1. CASE Dir("state") = 0
  <2>1. MadeOwnerOnly \in SecType
    BY MadeTypes DEF AllOK, FsOK
  <2>2. NewDir(PathOf("state"), MadeOwnerOnly)
        /\ Put(dirs + 1, "state", [tok |-> drawn + 1, whole |-> TRUE, private |-> TRUE, mine |-> TRUE])
    BY <1>1 DEF Record
  <2>3. /\ dirs' \in 0 .. MaxDirs /\ dirs' = dirs + 1 /\ dirs' \in DirIds
        /\ dir' \in [Paths -> 0 .. dirs'] /\ sec' \in [DirIds -> SecType]
    BY <1>n, <2>1, <2>2, NewDirType DEF AllOK
  <2>4. files' \in [DirIds -> [Names -> File]]
    BY <1>n, <1>f, <2>2, <2>3, PutType DEF AllOK
  <2>5. FsOK'
    BY <1>g, <2>3, <2>4 DEF AllOK, FsOK, SecType, Windows
  <2>6. QED  BY <1>g, <2>3, <2>5, OutsideBase DEF Record
<1>2. CASE Dir("state") # 0
  <2>1. Dir("state") \in DirIds
    BY <1>n, <1>2, DirType DEF AllOK
  <2>2. FsOK' /\ dirs <= dirs'
    BY <1>n, <1>f, <1>g, <1>2, <2>1, WritingType DEF Record
  <2>3. QED  BY <1>g, <2>2, OutsideBase DEF Record
<1>3. QED  BY <1>1, <1>2

LEMMA NextBase == Base /\ [Next]_vars => Base'
<1> SUFFICES ASSUME Base, [Next]_vars PROVE Base'
  OBVIOUS
<1>1. CASE UNCHANGED vars
  <2>1. UNCHANGED <<fileVars, gateVars, conn>> /\ plugged' \in [Devices -> Ids] /\ ObserverTypeOK'
    BY <1>1 DEF vars, portVars, obsVars, Base, PortOK, ObserverTypeOK
  <2>2. QED  BY <2>1, ElseBase
<1>2. ASSUME NEW p \in Procs, Start(p) PROVE Base'
  BY <1>2, StartBase
<1>3. ASSUME NEW p \in Procs, ProcStep(p) PROVE Base'
  BY <1>3, FileStepBase, PortStepBase, BuildCaptureBase DEF ProcStep
<1>4. ASSUME NEW p \in Procs, Crash(p) PROVE Base'
  BY <1>4, CrashBase
<1>5. ASSUME NEW p \in Procs, Record(p), UNCHANGED <<portVars, obsVars>> PROVE Base'
  BY <1>5, RecordBase
<1>6. CASE ObserverStep
  BY <1>6, ObserverBase
<1>7. CASE Environment
  BY <1>7, EnvironmentBase
<1>8. QED  BY <1>1, <1>2, <1>3, <1>4, <1>5, <1>6, <1>7 DEF Next

LEMMA BaseHolds == Spec => []Base
  BY InitBase, NextBase, PTL DEF Spec

\* Files, processes, ports and the observer keep their shapes: what is opened
\* is open, and no directory is held that does not exist.
THEOREM TypeCorrect == Spec => []TypeOK
  BY BaseHolds, BaseTypes, PTL

\* An executor is up only with the port its configuration names, at the rate of
\* the chip that was found there, and "auto" never gives one (the chips the code
\* knows are none it may pick).
THEOREM PortIsConfigured == Spec => []PortAsConfigured
<1>1. Base => PortAsConfigured
  <2> SUFFICES ASSUME Base, NEW p \in Procs, pc[p] = "up", world.prog[p] = "executor", world.port # "none"
               PROVE  /\ world.port # "auto" /\ conn[p].device = RealPath[world.port]
                      /\ conn[p].id \in DOMAIN KnownChips =>
                           conn[p].baud \in IF KnownChips[conn[p].id].fixed # 0 THEN {KnownChips[conn[p].id].fixed}
                                            ELSE IF world.baud # 0 THEN {world.baud}
                                            ELSE {KnownChips[conn[p].id].default}
    BY DEF PortAsConfigured
  <2>1. Resolved(p)
    BY DEF Base, AllDialed, Dialed
  <2>2. conn[p].id \in DOMAIN KnownChips => conn[p].id # "none"
    BY KnownChipsIs
  <2>3. QED  BY <2>1, <2>2 DEF Resolved, ResolveBaudrate
<1>2. QED  BY <1>1, BaseHolds, PTL

----------------------------------------------------------------------------
(* The observer.                                                             *)

Counted ==
  phase # "off" => /\ published.sequence = signed /\ sequence = signed
                   /\ published.issued >= published.captured
                   /\ sequence # 0 => success = published.issued
ServeInv == Counted /\ HealthTells

\* Steps that count nothing and answer nothing.
LEMMA QuietServe ==
  ASSUME ServeInv, UNCHANGED <<signed, published, sequence, success, op, reply>>,
         phase' = "send" => phase = "send", phase' # "off" => phase # "off"
  PROVE  ServeInv'
  BY DEF ServeInv, Counted, HealthTells

LEMMA ServeStepInv ==
  ASSUME Base, ServeInv, ServeStep
  PROVE  ServeInv'
<1>t. sequence \in Nat /\ signed \in Nat
  BY DEF Base, ObserverTypeOK
<1>1. CASE Handle
  <2>1. CASE op = "observe"
    BY <1>1, <2>1 DEF Handle, ServeInv, Counted, HealthTells
  <2>2. CASE op # "observe"
    <3>1. reply'.health = [status |-> IF failures' THEN "degraded" ELSE "ready", sequence |-> sequence', success |-> success']
      BY <1>1, <2>2 DEF Handle, Respond, Health
    <3>2. UNCHANGED <<sequence, success, signed, published, op>> /\ phase = "handle"
      BY <1>1, <2>2 DEF Handle
    <3>3. QED  BY <2>2, <3>1, <3>2, <1>t DEF ServeInv, Counted, HealthTells
  <2>3. QED  BY <2>1, <2>2
<1>2. CASE ObserveFails
  <2>1. /\ reply'.ok = FALSE /\ reply'.health.status = "degraded"
        /\ reply'.health.sequence = sequence' /\ reply'.health.success = success'
    BY <1>2 DEF ObserveFails, Respond, Health
  <2>2. UNCHANGED <<sequence, success, signed, published, op>> /\ phase # "off"
    BY <1>2 DEF ObserveFails
  <2>3. QED  BY <2>1, <2>2, <1>t DEF ServeInv, Counted, HealthTells
<1>3. CASE Sign
  <2>1. /\ reply'.ok = TRUE /\ reply'.health.status = "ready"
        /\ reply'.health.sequence = sequence' /\ reply'.health.success = success'
    BY <1>3 DEF Sign, Respond, Health
  <2>2. /\ signed' = signed + 1 /\ sequence' = sequence + 1 /\ success' = clock
        /\ published'.sequence = sequence + 1 /\ published'.issued = clock
        /\ published'.captured = draft.captured /\ clock >= draft.captured /\ phase # "off"
    BY <1>3 DEF Sign
  <2>3. QED  BY <2>1, <2>2, <1>t DEF ServeInv, Counted, HealthTells
<1>4. CASE \E a11y, ocr \in BOOLEAN : Build(a11y, ocr)
  BY <1>4, QuietServe DEF Build
<1>5. QED  BY <1>1, <1>2, <1>3, <1>4 DEF ServeStep

LEMMA NextServeInv == Base /\ ServeInv /\ [Next]_vars => ServeInv'
<1> SUFFICES ASSUME Base, ServeInv, [Next]_vars PROVE ServeInv'
  OBVIOUS
<1>s. ASSUME NEW p \in Procs, Stop(p) PROVE ServeInv'
  BY <1>s, QuietServe DEF Stop
<1>u. ASSUME UNCHANGED obsVars PROVE ServeInv'
  BY <1>u, QuietServe DEF obsVars
<1>1. ASSUME NEW p \in Procs, BuildCapture(p) PROVE ServeInv'
  <2>1. CASE UNCHANGED <<phase, success, sequence, published, signed, op, reply>>
    BY <2>1, QuietServe
  <2>2. CASE phase' = "accept" /\ sequence' = 0 /\ signed' = 0 /\ published' = NoEnvelope
    BY <2>2 DEF ServeInv, Counted, HealthTells, NoEnvelope
  <2>3. QED  BY <1>1, <2>1, <2>2 DEF BuildCapture
<1>2. ASSUME NEW p \in Procs, Start(p) \/ ProcStep(p) PROVE ServeInv'
  BY <1>2, <1>u, <1>1 DEF Start, ProcStep
<1>3. ASSUME NEW p \in Procs, Crash(p) PROVE ServeInv'
  BY <1>3, QuietServe DEF Crash
<1>4. CASE ObserverStep
  <2>1. ASSUME NEW p \in Procs, Send(p) PROVE ServeInv'
    <3>1. CASE phase' = "accept" /\ reply' = NoReply /\ UNCHANGED <<op, sequence, success, signed, published>>
      BY <2>1, <3>1 DEF Send, ServeInv, Counted, HealthTells
    <3>2. QED  BY <2>1, <3>1, <1>s DEF Send
  <2>2. QED  BY <1>4, <2>1, ServeStepInv DEF ObserverStep
<1>5. CASE Environment
  <2>1. ASSUME NEW o, Call(o) PROVE ServeInv'
    BY <2>1 DEF Call, ServeInv, Counted, HealthTells
  <2>2. CASE GiveUp \/ ObserverWorld
    BY <2>2, QuietServe DEF GiveUp, ObserverWorld
  <2>3. ASSUME NEW p \in Procs, Interrupt(p) PROVE ServeInv'
    BY <2>3, <1>s DEF Interrupt
  <2>4. QED  BY <1>5, <1>u, <2>1, <2>2, <2>3 DEF Environment
<1>6. QED  BY <1>u, <1>2, <1>3, <1>4, <1>5 DEF Next, vars

LEMMA InitServeInv == Init => ServeInv
  BY DEF Init, ObserverInit, ServeInv, Counted, HealthTells

LEMMA ServeInvHolds == Spec => []ServeInv
  BY InitServeInv, NextServeInv, BaseHolds, PTL DEF Spec

\* Whatever fails and however the clock is set, the envelopes of one lifetime of
\* the observer count without a gap, and none is issued before its capture.
THEOREM EnvelopesInOrder == Spec => []EnvelopeInOrder
<1>1. ServeInv => EnvelopeInOrder
  BY DEF ServeInv, Counted, EnvelopeInOrder
<1>2. QED  BY <1>1, ServeInvHolds, PTL

\* Every answer of the observer carries a health that agrees with it and with
\* the last envelope, after any run of failures and successes.
THEOREM HealthIsTrue == Spec => []HealthTells
<1>1. ServeInv => HealthTells
  BY DEF ServeInv
<1>2. QED  BY <1>1, ServeInvHolds, PTL

----------------------------------------------------------------------------
(* First starts. The invariant says where the recorded watermark can be.     *)

GP == PathOf("state")
Fixed == ~OthersMayChange(world.above[GP])

\* What a gatekeeper on its way to its watermark has made sure of.
OnItsWay(p) ==
  /\ pc[p] = "mkdir" => Windows /\ SafeAncestor(world.above["priv"])
  /\ pc[p] = "reading" => Windows
  /\ task[p] = "state" => world.prog[p] = "gatekeeper"
  /\ world.prog[p] = "gatekeeper" => task[p] \in {"secret", "key", "state", "serve"}
  /\ world.prog[p] = "gatekeeper" /\ task[p] # "secret" /\ ~Windows /\ ~OthersMayChange(world.above["priv"])
       => dir["priv"] # 0
  /\ task[p] = "state" /\ pc[p] = "open" =>
       /\ Windows => dir[GP] # 0 /\ at[p] = dir[GP] /\ StateDirOk(sec[dir[GP]])
       /\ Fixed /\ dir[GP] # 0 => StateDirOk(sec[dir[GP]])

\* The watermark is where it was recorded, or the directory there is not fit.
MarkThere ==
  /\ recorded /\ Fixed => dir[GP] # 0
  /\ recorded /\ Fixed /\ dir[GP] # 0 /\ StateDirOk(sec[dir[GP]])
       => files[dir[GP]]["state"].tok # 0

FirstInv == MarkThere /\ \A p \in Procs : OnItsWay(p)

LEMMA SafeIsFixed ==
  ASSUME NEW s \in SecType
  PROVE  /\ SafeAncestor(s) => ~OthersMayChange(s)
         /\ StateDirOk(s) => ~OthersMayChange(s)
<1>1. CASE Windows
  BY <1>1, TrustedParentHolds, OwnerOnlyHolds
     DEF SafeAncestor, OthersMayChange, StateDirOk, SecType, OwnerOnly, OwnerOnlyInfo, SecurityOfHandle
<1>2. CASE ~Windows
  BY <1>2 DEF SafeAncestor, OthersMayChange, StateDirOk
<1>3. QED  BY <1>1, <1>2

LEMMA MadeIsFit ==
  ASSUME world \in Worlds PROVE StateDirOk(MadeOwnerOnly)
  BY CreatedPasses DEF StateDirOk, MadeOwnerOnly

LEMMA GPFacts ==
  ASSUME AllOK
  PROVE  /\ GP \in Paths /\ "priv" \in Paths /\ Dir("state") = dir[GP] /\ Dir("secret") = dir["priv"]
         /\ dir[GP] \in 0 .. dirs /\ dir["priv"] \in 0 .. dirs /\ dirs \in Nat
         /\ dir[GP] # 0 => dir[GP] \in DirIds /\ dir[GP] # dirs + 1 /\ sec[dir[GP]] \in SecType
         /\ world.above \in [Paths -> SecType] /\ world.above[GP] \in SecType /\ world.above["priv"] \in SecType
         /\ GP \in {"priv", "gate"}
<1>1. GP \in Paths /\ "priv" \in Paths /\ Dir("state") = dir[GP] /\ Dir("secret") = dir["priv"] /\ GP \in {"priv", "gate"}
  BY DEF GP, Paths, Dir, PathOf
<1>2. dir[GP] \in 0 .. dirs /\ dir["priv"] \in 0 .. dirs /\ dirs \in 0 .. MaxDirs /\ MaxDirs \in Nat
  BY <1>1, BoundsAssumption DEF AllOK, FsOK
<1>3. world.above \in [Paths -> SecType]
  BY WorldFacts DEF AllOK, FsOK
<1>4. dir[GP] # 0 => dir[GP] \in DirIds /\ dir[GP] # dirs + 1
  BY <1>2 DEF DirIds
<1>5. dir[GP] # 0 => sec[dir[GP]] \in SecType
  BY <1>4 DEF AllOK, FsOK
<1>6. QED  BY <1>1, <1>2, <1>3, <1>4, <1>5

\* A step leaves the directory at the state's path and the file in it alone.
Kept ==
  /\ world' = world /\ recorded' = recorded
  /\ dir'[GP] = dir[GP]
  /\ dir[GP] # 0 => /\ sec'[dir[GP]] = sec[dir[GP]]
                    /\ files'[dir[GP]]["state"].tok = files[dir[GP]]["state"].tok
  /\ dir["priv"] # 0 => dir'["priv"] # 0

LEMMA WorldSame ==
  ASSUME world' = world
  PROVE  /\ GP' = GP /\ Fixed' = Fixed /\ Windows' = Windows
         /\ \A s : StateDirOk(s)' = StateDirOk(s)
         /\ SafeAncestor(world.above["priv"])' = SafeAncestor(world.above["priv"])
         /\ OthersMayChange(world.above["priv"])' = OthersMayChange(world.above["priv"])
  BY DEF GP, PathOf, Fixed, Windows, OthersMayChange, StateDirOk, SafeAncestor

LEMMA KeptFirst ==
  ASSUME FirstInv, NEW p \in Procs, Kept, Others(p), OnItsWay(p)'
  PROVE  FirstInv'
<1> USE WorldSame
<1>1. world' = world
  BY DEF Kept
<1>2. MarkThere'
  BY <1>1 DEF FirstInv, MarkThere, Kept, StateDirOk, Windows
<1>3. ASSUME NEW q \in Procs \ {p} PROVE OnItsWay(q)'
  BY <1>1, <1>3 DEF FirstInv, OnItsWay, Kept, Others, StateDirOk, Windows
<1>4. QED  BY <1>2, <1>3 DEF FirstInv

\* The process that takes the step.
LEMMA WayFail ==
  ASSUME AllOK, FirstInv, NEW p \in Procs, Kept, Fail(p)
  PROVE  OnItsWay(p)'
<1>1. task' = task /\ pc'[p] = "failed" /\ world' = world
  BY DEF Fail, Step, AllOK, ProcOK, Kept
<1>2. QED
  BY <1>1, WorldSame DEF FirstInv, OnItsWay, Kept

LEMMA WayFinish ==
  ASSUME AllOK, FirstInv, NEW p \in Procs, Kept, NEW tok, Finish(p, tok),
         task[p] = "secret" /\ ~Windows => dir["priv"] # 0
  PROVE  OnItsWay(p)'
<1>1. /\ task'[p] = NextTask(p) /\ pc'[p] \in {"done", "up", "failed", "begin"} /\ world' = world
  BY DEF Finish, Step, AllOK, ProcOK, Kept
<1>2. OnItsWay(p)
  BY DEF FirstInv
<1>3. world.prog[p] = "gatekeeper" => /\ task'[p] \in {"key", "state", "serve"}
                                      /\ task[p] = "secret" \/ task[p] # "secret"
  BY <1>1, <1>2 DEF OnItsWay, NextTask
<1>4. task'[p] = "state" => world.prog[p] = "gatekeeper"
  BY <1>1, <1>2 DEF OnItsWay, NextTask
<1>5. world.prog[p] = "gatekeeper" /\ ~Windows /\ ~OthersMayChange(world.above["priv"]) => dir'["priv"] # 0
  BY <1>2 DEF OnItsWay, Kept
<1>6. QED
  BY <1>1, <1>3, <1>4, <1>5, WorldSame DEF OnItsWay

LEMMA WayStep ==
  ASSUME AllOK, FirstInv, NEW p \in Procs, Kept, NEW s, Step(p, s), task' = task,
         s = "mkdir" => Windows /\ SafeAncestor(world.above["priv"]),
         s = "reading" => Windows,
         s = "open" /\ task[p] = "state" =>
           /\ Windows => dir[GP] # 0 /\ at'[p] = dir[GP] /\ StateDirOk(sec[dir[GP]])
           /\ Fixed /\ dir[GP] # 0 => StateDirOk(sec[dir[GP]])
  PROVE  OnItsWay(p)'
<1>1. task'[p] = task[p] /\ pc'[p] = s /\ world' = world
  BY DEF Step, AllOK, ProcOK, Kept
<1>2. OnItsWay(p)
  BY DEF FirstInv
<1>3. dir'[GP] = dir[GP] /\ (dir[GP] # 0 => sec'[dir[GP]] = sec[dir[GP]]) /\ (dir["priv"] # 0 => dir'["priv"] # 0)
  BY DEF Kept
<1>4. (task[p] = "state" /\ s = "open" =>
       /\ Windows => dir[GP] # 0 /\ at[p] = dir[GP] /\ StateDirOk(sec[dir[GP]])
       /\ Fixed /\ dir[GP] # 0 => StateDirOk(sec[dir[GP]]))'
  BY <1>1, <1>3, WorldSame
<1>5. QED
  BY <1>1, <1>2, <1>3, <1>4, WorldSame DEF OnItsWay

LEMMA KeptLocal ==
  ASSUME UNCHANGED <<world, fsVars, recorded>>
  PROVE  Kept
  BY DEF Kept, fsVars

\* Content of another name comes and goes.
LEMMA KeptPut ==
  ASSUME AllOK, NEW d \in DirIds, NEW n \in Names \ {"state"}, NEW f \in File,
         Put(d, n, f) \/ UNCHANGED files, UNCHANGED <<world, dir, sec, recorded>>
  PROVE  Kept
<1>1. ASSUME dir[GP] # 0 PROVE files'[dir[GP]]["state"].tok = files[dir[GP]]["state"].tok
  <2>1. dir[GP] \in DirIds
    BY <1>1, GPFacts
  <2>2. files \in [DirIds -> [Names -> File]] /\ "state" \in Names
    BY DEF AllOK, FsOK, Names
  <2>3. QED  BY <2>1, <2>2 DEF Put
<1>2. QED  BY <1>1 DEF Kept

\* A directory new at a path where there was none.
LEMMA NewDirElse ==
  ASSUME AllOK, NEW path \in Paths, NEW s \in SecType, NewDir(path, s)
  PROVE  /\ dir'[path] = dirs + 1 /\ sec'[dirs + 1] = s
         /\ \A x \in Paths \ {path} : dir'[x] = dir[x]
         /\ dir[GP] # 0 => sec'[dir[GP]] = sec[dir[GP]]
<1>1. dirs + 1 \in DirIds
  BY NewDirType DEF AllOK
<1>2. dir[GP] # dirs + 1 \/ dir[GP] = 0
  BY GPFacts
<1>3. QED  BY <1>1, <1>2, GPFacts DEF NewDir, AllOK, FsOK

\* A program makes the private directory where there was none: that it was
\* missing means that no watermark can have been recorded below it.
LEMMA PrivMadeFirst ==
  ASSUME AllOK, FirstInv, NEW p \in Procs, NEW m \in SecType, NEW s \in Steps \ {"mkdir", "reading", "open"},
         dir["priv"] = 0, NewDir("priv", m), UNCHANGED <<files, world, recorded, task, at, mine, got>>,
         Step(p, s),
         Windows => SafeAncestor(world.above["priv"])
  PROVE  FirstInv'
<1>1. /\ dir'["priv"] = dirs + 1 /\ dirs + 1 # 0 /\ sec'[dirs + 1] = m
      /\ GP # "priv" => dir'[GP] = dir[GP]
      /\ dir[GP] # 0 => sec'[dir[GP]] = sec[dir[GP]]
  BY NewDirElse, GPFacts
<1>2. Windows /\ GP = "priv" => Fixed
  BY SafeIsFixed, GPFacts DEF Fixed
<1>3. GP = "priv" => ~recorded \/ (~Fixed /\ ~Windows)
  BY <1>2 DEF FirstInv, MarkThere
<1>4. MarkThere'
  <2>1. CASE GP = "priv"
    BY <1>3, <2>1, WorldSame DEF MarkThere
  <2>2. CASE GP # "priv"
    BY <1>1, <2>2, WorldSame DEF FirstInv, MarkThere
  <2>3. QED  BY <2>1, <2>2
<1>5. ASSUME NEW q \in Procs PROVE OnItsWay(q)'
  <2>1. OnItsWay(q)
    BY DEF FirstInv
  <2>2. task'[q] = task[q] /\ at'[q] = at[q] /\ (pc'[q] = pc[q] \/ pc'[q] \notin {"mkdir", "reading", "open"})
    BY DEF Step, AllOK, ProcOK
  <2>3. task[q] = "state" /\ pc[q] = "open" /\ GP = "priv" => ~Windows /\ ~Fixed
    BY <2>1 DEF OnItsWay, Fixed
  <2>4. (task[q] = "state" /\ pc[q] = "open" =>
         /\ Windows => dir[GP] # 0 /\ at[q] = dir[GP] /\ StateDirOk(sec[dir[GP]])
         /\ Fixed /\ dir[GP] # 0 => StateDirOk(sec[dir[GP]]))'
    BY <1>1, <2>1, <2>2, <2>3, WorldSame DEF OnItsWay
  <2>5. QED  BY <1>1, <2>1, <2>2, <2>4, WorldSame DEF OnItsWay
<1>6. QED  BY <1>4, <1>5 DEF FirstInv

LEMMA SecretStepFirst ==
  ASSUME AllOK, AllCreating, FirstInv, NEW p \in Procs, SecretStep(p), UNCHANGED gateVars
  PROVE  FirstInv'
<1>o. Others(p) /\ recorded' = recorded
  BY OthersSecret DEF gateVars
<1>l. ASSUME UNCHANGED <<world, fsVars>> PROVE Kept
  BY <1>o, <1>l, KeptLocal
<1>d. /\ Dir("secret") = dir["priv"] /\ FileAt(Dir("secret"), "secret") \in File
      /\ FileAt(Dir("secret"), "secret").tok # 0 \/ FileAt(Dir("secret"), "secret").whole =>
           Dir("secret") \in DirIds /\ dir["priv"] # 0
      /\ "secret" \in Names \ {"state"} /\ "priv" \in Paths /\ MadeOwnerOnly \in SecType
  BY DirType, GPFacts, MadeTypes DEF AllOK, FsOK, Names
<1>s. \A s \in {"stat", "ensure", "read", "create", "opendir"} : s \in Steps \ {"mkdir", "reading", "open"}
  BY DEF Steps
<1>1. CASE SecretExists(p)
  BY <1>1, <1>o, <1>l, <1>s, WayStep, KeptFirst DEF SecretExists
<1>2. CASE AssertOwnerOnly(p)
  BY <1>2, <1>o, <1>l, <1>s, WayStep, WayFail, KeptFirst DEF AssertOwnerOnly
<1>3. CASE SecretRead(p)
  BY <1>3, <1>o, <1>l, <1>d, WayFinish, WayFail, KeptFirst DEF SecretRead
<1>4. CASE SecretMkdir(p)
  <2>1. CASE Dir("secret") = 0
    <3>1. MadeByUmask \in SecType /\ ~Windows
      BY <1>4, MadeTypes DEF SecretMkdir, AllOK, FsOK
    <3>2. QED  BY <1>4, <1>d, <1>o, <1>s, <2>1, <3>1, PrivMadeFirst DEF SecretMkdir
  <2>2. CASE Dir("secret") # 0
    BY <1>4, <1>o, <1>l, <1>s, <2>2, WayStep, KeptFirst DEF SecretMkdir
  <2>3. QED  BY <2>1, <2>2
<1>5. CASE SecretChmod(p)
  <2>1. CASE Fail(p) /\ UNCHANGED files
    <3>1. UNCHANGED <<world, fsVars>>
      BY <1>5, <2>1 DEF SecretChmod, fsVars
    <3>2. QED  BY <1>o, <1>l, <2>1, <3>1, WayFail, KeptFirst
  <2>2. CASE /\ FileAt(Dir("secret"), "secret").tok # 0
             /\ Put(Dir("secret"), "secret", [FileAt(Dir("secret"), "secret") EXCEPT !.private = TRUE])
             /\ Finish(p, mine[p])
    <3>1. [FileAt(Dir("secret"), "secret") EXCEPT !.private = TRUE] \in File
      BY <1>d DEF File
    <3>2. Kept
      BY <1>5, <1>d, <1>o, <2>2, <3>1, KeptPut DEF SecretChmod
    <3>3. OnItsWay(p)'
      BY <1>d, <2>2, <3>2, WayFinish
    <3>4. QED  BY <1>o, <3>2, <3>3, KeptFirst
  <2>3. QED  BY <1>5, <2>1, <2>2 DEF SecretChmod
<1>6. CASE EnsureDir(p)
  BY <1>6, <1>o, <1>l, <1>s, WayStep, WayFail, KeptFirst DEF EnsureDir
<1>7. CASE CreateDir(p)
  <2>1. CASE Dir("secret") = 0
    <3>1. Windows /\ SafeAncestor(world.above["priv"])
      BY <1>7 DEF CreateDir, AtSecret, FirstInv, OnItsWay
    <3>2. QED  BY <1>7, <1>d, <1>o, <1>s, <2>1, <3>1, PrivMadeFirst DEF CreateDir
  <2>2. CASE Dir("secret") # 0
    BY <1>7, <1>o, <1>l, <1>s, <2>2, WayStep, KeptFirst DEF CreateDir
  <2>3. QED  BY <2>1, <2>2
<1>8. CASE OpenDir(p)
  BY <1>8, <1>o, <1>l, <1>s, WayStep, WayFail, KeptFirst DEF OpenDir
<1>9. QED
  BY <1>1, <1>2, <1>3, <1>4, <1>5, <1>6, <1>7, <1>8 DEF SecretStep

LEMMA KeyStepFirst ==
  ASSUME AllOK, FirstInv, NEW p \in Procs, KeyStep(p)
  PROVE  FirstInv'
<1>o. Others(p) /\ UNCHANGED <<world, fsVars, recorded>>
  BY OthersKey DEF KeyStep, KeyLstat, KeyOpen, ProvisionLstat, OpenOwnerOnlyDir, ProvisionOpenDir,
                   CheckStateDir, LoadWatermark, gateVars
<1>k. Kept
  BY <1>o, KeptLocal
<1>w. OnItsWay(p) /\ Dir("state") = dir[GP]
  BY GPFacts DEF FirstInv
<1>1. CASE KeyLstat(p)
  BY <1>1, <1>o, <1>k, WayStep, WayFail, KeptFirst DEF KeyLstat
<1>2. CASE KeyOpen(p)
  BY <1>2, <1>o, <1>k, WayFinish, WayFail, KeptFirst DEF KeyOpen
<1>3. CASE ProvisionLstat(p)
  BY <1>3, <1>o, <1>k, WayStep, WayFail, KeptFirst DEF ProvisionLstat
<1>4. CASE OpenOwnerOnlyDir(p)
  BY <1>4, <1>o, <1>k, WayStep, WayFail, KeptFirst DEF OpenOwnerOnlyDir
<1>5. CASE ProvisionOpenDir(p)
  BY <1>5, <1>o, <1>k, WayStep, WayFail, KeptFirst DEF ProvisionOpenDir
<1>6. CASE CheckStateDir(p)
  <2>1. CASE Fail(p)
    BY <1>o, <1>k, <2>1, WayFail, KeptFirst
  <2>2. CASE FirstStart(p)
    BY <1>6, <1>o, <1>k, <2>2, WayFinish, KeptFirst DEF CheckStateDir, FirstStart
  <2>3. CASE Dir("state") = 0 /\ ~Windows /\ Step(p, "open") /\ task' = task
    BY <1>w, <1>o, <1>k, <2>3, WayStep, KeptFirst
  <2>4. CASE /\ Dir("state") # 0 /\ StateDirOk(sec[Dir("state")])
             /\ Step(p, "open") /\ At(p, Dir("state")) /\ task' = task
    <3>1. at'[p] = dir[GP]
      BY <1>w, <2>4 DEF At, AllOK, AtOK
    <3>2. QED  BY <1>w, <1>o, <1>k, <2>4, <3>1, WayStep, KeptFirst
  <2>5. QED  BY <1>6, <2>1, <2>2, <2>3, <2>4 DEF CheckStateDir
<1>7. CASE LoadWatermark(p)
  BY <1>7, <1>o, <1>k, WayFinish, WayFail, KeptFirst DEF LoadWatermark, FirstStart
<1>8. QED
  BY <1>1, <1>2, <1>3, <1>4, <1>5, <1>6, <1>7 DEF KeyStep

LEMMA FileStepFirst ==
  ASSUME AllOK, AllCreating, FirstInv, NEW p \in Procs, recorded' = recorded,
         OpenForRead(p) \/ ReadOpened(p) \/ Create(p) \/ Write(p) \/ Unlink(p)
  PROVE  FirstInv'
<1>o. Others(p)
  BY OthersFile
<1>t. Creating(p) /\ OnItsWay(p)
  BY DEF AllCreating, FirstInv
<1>l. ASSUME UNCHANGED <<world, fsVars>> PROVE Kept
  BY <1>l, KeptLocal
<1>a. at[p] # 0 => at[p] \in DirIds
  BY AtIsDir
<1>n. FileOf("secret") = "secret" /\ FileOf("provision") = "key" /\ "secret" \in Names \ {"state"} /\ "key" \in Names \ {"state"}
  BY DEF FileOf, Names
<1>1. CASE OpenForRead(p)
  <2>1. CASE Fail(p)
    BY <1>1, <1>o, <1>l, <2>1, WayFail, KeptFirst DEF OpenForRead
  <2>2. CASE Step(p, "ensure") /\ task' = task
    BY <1>1, <1>o, <1>l, <2>2, WayStep, KeptFirst DEF OpenForRead
  <2>3. CASE Step(p, "reading") /\ task' = task
    BY <1>1, <1>o, <1>l, <2>3, WayStep, KeptFirst DEF OpenForRead
  <2>4. QED  BY <1>1, <2>1, <2>2, <2>3 DEF OpenForRead
<1>2. CASE ReadOpened(p)
  <2>1. Windows
    BY <1>2, <1>t DEF ReadOpened, OnItsWay
  <2>2. QED  BY <1>2, <1>o, <1>l, <2>1, WayFinish, WayFail, KeptFirst DEF ReadOpened
<1>3. CASE Create(p)
  <2> DEFINE n == FileOf(task[p])
             d == IF ByPath(p) THEN Dir(n) ELSE at[p]
             f == [tok |-> drawn + 1, whole |-> FALSE, mine |-> TRUE, private |-> ~ByPath(p) \/ world.umask = {}]
  <2>1. n \in Names \ {"state"}
    BY <1>3, <1>t, <1>n DEF Create, Creating
  <2>2. d # 0 => d \in DirIds
    BY <2>1, <1>a, DirType DEF AllOK
  <2>3. f \in File
    BY DEF File, AllOK, FsOK
  <2>4. CASE UNCHANGED fsVars /\ (Fail(p) \/ (Step(p, "begin") /\ task' = task))
    BY <1>3, <1>o, <1>l, <2>4, WayStep, WayFail, KeptFirst DEF Create
  <2>5. CASE /\ d # 0 /\ Put(d, n, f) /\ Step(p, "write") /\ UNCHANGED <<dir, sec, task, world>>
    <3>1. Kept
      BY <2>1, <2>2, <2>3, <2>5, KeptPut
    <3>2. OnItsWay(p)'
      BY <2>5, <3>1, WayStep
    <3>3. QED  BY <1>o, <3>1, <3>2, KeptFirst
  <2>6. QED  BY <1>3, <2>4, <2>5 DEF Create
<1>4. CASE Write(p)
  <2> DEFINE n == FileOf(task[p])
  <2>1. n \in Names \ {"state"} /\ at[p] \in DirIds
    BY <1>4, <1>a, <1>t, <1>n DEF Write, Creating
  <2>2. ASSUME NEW whole \in BOOLEAN, Written(p, whole) PROVE Kept
    <3>1. files[at[p]][n] \in File
      BY <2>1 DEF AllOK, FsOK
    <3>2. [files[at[p]][n] EXCEPT !.whole = whole] \in File
      BY <3>1 DEF File
    <3>3. Put(at[p], n, [files[at[p]][n] EXCEPT !.whole = whole]) \/ UNCHANGED files
      BY <2>2 DEF Written
    <3>4. QED  BY <1>4, <2>1, <3>2, <3>3, KeptPut DEF Write
  <2>3. Kept
    BY <1>4, <2>2 DEF Write
  <2>4. CASE Fail(p)
    BY <1>o, <2>3, <2>4, WayFail, KeptFirst
  <2>5. CASE Finish(p, mine[p]) /\ ~ByPath(p)
    BY <1>o, <2>3, <2>5, WayFinish, KeptFirst DEF ByPath
  <2>6. CASE (Step(p, "chmod") \/ Step(p, "unlink")) /\ task' = task
    BY <1>o, <2>3, <2>6, WayStep, KeptFirst
  <2>7. QED  BY <1>4, <2>4, <2>5, <2>6 DEF Write
<1>5. CASE Unlink(p)
  <2>1. FileOf(task[p]) \in Names \ {"state"} /\ at[p] \in DirIds
    BY <1>5, <1>a, <1>t, <1>n DEF Unlink, Creating
  <2>2. Absent \in File
    BY DEF Absent, File
  <2>3. Kept
    BY <1>5, <2>1, <2>2, KeptPut DEF Unlink
  <2>4. QED  BY <1>5, <1>o, <2>3, WayFail, KeptFirst DEF Unlink
<1>6. QED  BY <1>1, <1>2, <1>3, <1>4, <1>5

\* The watermark is recorded, in the directory that is there or in one made for
\* it that the next start will find fit.
LEMMA RecordFirst ==
  ASSUME Base, FirstInv, NEW p \in Procs, Record(p)
  PROVE  FirstInv'
<1> DEFINE f == [tok |-> drawn + 1, whole |-> TRUE, private |-> TRUE, mine |-> TRUE]
<1>o. UNCHANGED <<world, pc, task, at>> /\ recorded' /\ drawn + 1 # 0
  BY DEF Record, procVars, Base, AllOK, FsOK
<1>g. GP \in Paths /\ Dir("state") = dir[GP] /\ (dir[GP] # 0 => dir[GP] \in DirIds)
  BY GPFacts DEF Base
<1>n. files \in [DirIds -> [Names -> File]] /\ "state" \in Names
  BY DEF Base, AllOK, FsOK, Names
<1>1. CASE Dir("state") = 0
  <2>1. MadeOwnerOnly \in SecType /\ StateDirOk(MadeOwnerOnly)
    BY MadeTypes, MadeIsFit DEF Base, AllOK, FsOK
  <2>2. NewDir(GP, MadeOwnerOnly) /\ Put(dirs + 1, "state", f)
    BY <1>1 DEF Record, GP
  <2>3. /\ dir'[GP] = dirs + 1 /\ dirs + 1 \in DirIds /\ dirs + 1 # 0 /\ sec'[dirs + 1] = MadeOwnerOnly
        /\ \A x \in Paths \ {GP} : dir'[x] = dir[x]
    <3>1. AllOK
      BY DEF Base
    <3>2. dirs' = dirs + 1 /\ dirs' \in DirIds
      BY <3>1, <1>g, <2>1, <2>2, NewDirType DEF AllOK
    <3>3. dirs + 1 # 0
      BY <3>1, GPFacts
    <3>4. dir'[GP] = dirs + 1 /\ sec'[dirs + 1] = MadeOwnerOnly /\ \A x \in Paths \ {GP} : dir'[x] = dir[x]
      BY <3>1, <1>g, <2>1, <2>2, NewDirElse
    <3>5. QED  BY <3>2, <3>3, <3>4
  <2>4. files'[dirs + 1]["state"].tok = drawn + 1
    BY <1>n, <2>2, <2>3 DEF Put
  <2>5. MarkThere'
    BY <1>o, <2>3, <2>4, WorldSame DEF MarkThere
  <2>6. ASSUME NEW q \in Procs PROVE OnItsWay(q)'
    <3>1. OnItsWay(q)
      BY DEF FirstInv
    <3>2. dir["priv"] # 0 => dir'["priv"] # 0
      BY <2>3 DEF Paths
    <3>3. task[q] = "state" /\ pc[q] = "open" => ~Windows
      BY <1>1, <1>g, <3>1 DEF OnItsWay
    <3>4. (task[q] = "state" /\ pc[q] = "open" =>
           /\ Windows => dir[GP] # 0 /\ at[q] = dir[GP] /\ StateDirOk(sec[dir[GP]])
           /\ Fixed /\ dir[GP] # 0 => StateDirOk(sec[dir[GP]]))'
      BY <1>o, <2>1, <2>3, <3>3, WorldSame
    <3>5. QED  BY <1>o, <3>1, <3>2, <3>4, WorldSame DEF OnItsWay
  <2>7. QED  BY <2>5, <2>6 DEF FirstInv
<1>2. CASE Dir("state") # 0
  <2>1. Put(dir[GP], "state", f) /\ UNCHANGED <<dir, sec>>
    BY <1>2, <1>g DEF Record
  <2>2. files'[dir[GP]]["state"].tok = drawn + 1
    BY <1>n, <1>g, <1>2, <2>1 DEF Put
  <2>3. MarkThere'
    BY <1>o, <1>g, <1>2, <2>1, <2>2, WorldSame DEF MarkThere
  <2>4. ASSUME NEW q \in Procs PROVE OnItsWay(q)'
    BY <1>o, <2>1, WorldSame DEF FirstInv, OnItsWay
  <2>5. QED  BY <2>3, <2>4 DEF FirstInv
<1>3. QED  BY <1>1, <1>2

\* Another account moves and removes what it may: never, then, the recorded
\* watermark of a directory that a start would find fit.
LEMMA OthersFirst ==
  ASSUME AllOK, FirstInv, OthersStep, recorded' = recorded
  PROVE  FirstInv'
<1>g. /\ GP \in Paths /\ "priv" \in Paths /\ Dir("state") = dir[GP] /\ (dir[GP] # 0 => dir[GP] \in DirIds)
      /\ dir \in [Paths -> 0 .. dirs] /\ world.above[GP] \in SecType
      /\ files \in [DirIds -> [Names -> File]] /\ "state" \in Names
  BY GPFacts DEF AllOK, FsOK, Names
<1>w. ASSUME NEW q \in Procs PROVE OnItsWay(q)
  BY DEF FirstInv
<1>1. ASSUME NEW path \in Paths, MoveDirAway(path) PROVE FirstInv'
  <2>1. UNCHANGED <<world, sec, files, pc, task, at>> /\ dir' = [dir EXCEPT ![path] = 0]
    BY <1>1 DEF MoveDirAway, procVars
  <2>2. path = GP => ~Fixed /\ dir'[GP] = 0
    BY <1>1, <1>g, <2>1 DEF MoveDirAway, Fixed
  <2>3. path # GP => dir'[GP] = dir[GP]
    BY <1>g, <2>1
  <2>4. MarkThere'
    BY <2>1, <2>2, <2>3, WorldSame DEF FirstInv, MarkThere
  <2>5. ASSUME NEW q \in Procs PROVE OnItsWay(q)'
    <3>1. dir["priv"] # 0 /\ ~OthersMayChange(world.above["priv"]) => dir'["priv"] # 0
      BY <1>1, <1>g, <2>1 DEF MoveDirAway
    <3>2. Windows /\ at[q] = dir[GP] => path # GP
      BY <1>1 DEF MoveDirAway, Held
    <3>3. (task[q] = "state" /\ pc[q] = "open" =>
           /\ Windows => dir[GP] # 0 /\ at[q] = dir[GP] /\ StateDirOk(sec[dir[GP]])
           /\ Fixed /\ dir[GP] # 0 => StateDirOk(sec[dir[GP]]))'
      BY <1>w, <2>1, <2>2, <2>3, <3>2, WorldSame DEF OnItsWay
    <3>4. QED  BY <1>w, <2>1, <3>1, <3>3, WorldSame DEF OnItsWay
  <2>6. QED  BY <2>4, <2>5 DEF FirstInv
<1>2. ASSUME NEW path \in Paths, PutDirThere(path) PROVE FirstInv'
  <2>1. UNCHANGED <<world, files, pc, task, at>> /\ dir[path] = 0 /\ OthersMayChange(world.above[path])
    BY <1>2 DEF PutDirThere, procVars
  <2>2. world.foreign \in SecType
    BY WorldFacts DEF AllOK, FsOK
  <2>4. /\ \A x \in Paths \ {path} : dir'[x] = dir[x]
        /\ dir[GP] # 0 => sec'[dir[GP]] = sec[dir[GP]]
    <3>1. CASE NewDir(path, world.foreign)
      BY <2>2, <3>1, NewDirElse, GPFacts
    <3>2. CASE sec' = sec /\ \E d \in 1 .. dirs : dir' = [dir EXCEPT ![path] = d]
      BY <1>g, <3>2
    <3>3. QED  BY <1>2, <3>1, <3>2 DEF PutDirThere
  <2>5. path = GP => ~Fixed
    BY <2>1 DEF Fixed
  <2>6. MarkThere'
    BY <1>g, <2>1, <2>4, <2>5, WorldSame DEF FirstInv, MarkThere
  <2>7. ASSUME NEW q \in Procs PROVE OnItsWay(q)'
    <3>1. dir["priv"] # 0 => dir'["priv"] # 0
      BY <1>g, <2>1, <2>4
    <3>2. (task[q] = "state" /\ pc[q] = "open" =>
           /\ Windows => dir[GP] # 0 /\ at[q] = dir[GP] /\ StateDirOk(sec[dir[GP]])
           /\ Fixed /\ dir[GP] # 0 => StateDirOk(sec[dir[GP]]))'
      <4>1. CASE path = GP
        BY <1>w, <2>1, <2>5, <4>1, WorldSame DEF OnItsWay
      <4>2. CASE path # GP
        BY <1>w, <1>g, <2>1, <2>4, <4>2, WorldSame DEF OnItsWay
      <4>3. QED  BY <4>1, <4>2
    <3>3. QED  BY <1>w, <2>1, <3>1, <3>2, WorldSame DEF OnItsWay
  <2>8. QED  BY <2>6, <2>7 DEF FirstInv
<1>3. ASSUME NEW n \in Names, RemoveFile(n) PROVE FirstInv'
  <2>1. UNCHANGED <<world, dir, sec, pc, task, at>> /\ Put(Dir(n), n, Absent) /\ OthersMayChange(sec[Dir(n)])
    BY <1>3 DEF RemoveFile, procVars
  <2>2. ASSUME dir[GP] # 0, StateDirOk(sec[dir[GP]])
        PROVE  files'[dir[GP]]["state"] = files[dir[GP]]["state"]
    <3>1. ~OthersMayChange(sec[dir[GP]])
      BY <2>2, SafeIsFixed, GPFacts
    <3>2. n # "state"
      BY <1>g, <2>1, <3>1
    <3>3. QED  BY <1>g, <2>1, <2>2, <3>2 DEF Put
  <2>3. MarkThere'
    BY <2>1, <2>2, WorldSame DEF FirstInv, MarkThere
  <2>4. ASSUME NEW q \in Procs PROVE OnItsWay(q)'
    BY <1>w, <2>1, WorldSame DEF OnItsWay
  <2>5. QED  BY <2>3, <2>4 DEF FirstInv
<1>4. QED  BY <1>1, <1>2, <1>3 DEF OthersStep

LEMMA FirstElse ==
  ASSUME FirstInv, UNCHANGED <<world, dir, sec, files, recorded, pc, task, at>>
  PROVE  FirstInv'
<1>1. MarkThere'
  BY WorldSame DEF FirstInv, MarkThere
<1>2. ASSUME NEW q \in Procs PROVE OnItsWay(q)'
  BY WorldSame DEF FirstInv, OnItsWay
<1>3. QED  BY <1>1, <1>2 DEF FirstInv

LEMMA StopFirst ==
  ASSUME AllOK, FirstInv, NEW p \in Procs, Stop(p), recorded' = recorded
  PROVE  FirstInv'
<1>1. UNCHANGED <<world, fsVars, recorded, task, at, mine, got>> /\ Step(p, "done")
  BY DEF Stop
<1>2. Kept
  BY <1>1, KeptLocal
<1>3. Others(p)
  BY <1>1 DEF Others, Step, AllOK, ProcOK
<1>4. OnItsWay(p)'
  BY <1>1, <1>2, WayStep
<1>5. QED  BY <1>2, <1>3, <1>4, KeptFirst

LEMMA StartFirst ==
  ASSUME AllOK, FirstInv, NEW p \in Procs, Start(p)
  PROVE  FirstInv'
<1>1. /\ UNCHANGED <<world, fsVars, recorded, at, mine, got>>
      /\ pc'[p] \in {"failed", "begin"}
      /\ task'[p] \in {"key", "provision", "secret"}
      /\ world.prog[p] = "gatekeeper" => task'[p] = "secret"
  BY DEF Start, Step, AllOK, ProcOK
<1>2. Kept
  BY <1>1, KeptLocal
<1>3. Others(p)
  BY <1>1 DEF Start, Others, Step, AllOK, ProcOK
<1>4. OnItsWay(p)'
  BY <1>1 DEF OnItsWay
<1>5. QED  BY <1>2, <1>3, <1>4, KeptFirst

LEMMA ProcStepFirst ==
  ASSUME Base, FirstInv, NEW p \in Procs, ProcStep(p)
  PROVE  FirstInv'
<1>b. AllOK /\ AllCreating /\ PortOK /\ AllDialed
  BY DEF Base
<1>1. CASE FileStep(p)
  BY <1>1, <1>b, FileStepFirst, SecretStepFirst, KeyStepFirst DEF FileStep, gateVars
<1>2. CASE PortStep(p) /\ UNCHANGED gateVars
  <2>1. UNCHANGED <<world, fsVars, recorded>> /\ task[p] = "port"
    BY <1>2 DEF PortStep, ResolveConnection, OpenSerial, gateVars
  <2>2. Kept
    BY <2>1, KeptLocal
  <2>3. Others(p)
    BY <1>2, <1>b, PortStepType
  <2>4. \/ Fail(p) \/ Finish(p, 0)
        \/ Step(p, "open") /\ task' = task
    BY <1>2 DEF PortStep, ResolveConnection, OpenSerial
  <2>5. OnItsWay(p)'
    BY <1>b, <2>1, <2>2, <2>4, WayFail, WayFinish, WayStep
  <2>6. QED  BY <2>2, <2>3, <2>5, KeptFirst
<1>3. CASE BuildCapture(p) /\ UNCHANGED gateVars
  <2>1. UNCHANGED <<world, fsVars, recorded>> /\ task[p] = "capture" /\ (Fail(p) \/ Finish(p, 0))
    BY <1>3 DEF BuildCapture, gateVars
  <2>2. Kept
    BY <2>1, KeptLocal
  <2>3. Others(p)
    BY <1>b, <2>1, MovesAlone
  <2>4. OnItsWay(p)'
    BY <1>b, <2>1, <2>2, WayFail, WayFinish
  <2>5. QED  BY <2>2, <2>3, <2>4, KeptFirst
<1>4. QED  BY <1>1, <1>2, <1>3 DEF ProcStep

LEMMA NextFirst == Base /\ FirstInv /\ [Next]_vars => FirstInv'
<1> SUFFICES ASSUME Base, FirstInv, [Next]_vars PROVE FirstInv'
  OBVIOUS
<1>b. AllOK
  BY DEF Base
<1>1. CASE UNCHANGED vars
  BY <1>1, FirstElse DEF vars, fileVars, gateVars
<1>2. ASSUME NEW p \in Procs, Start(p) PROVE FirstInv'
  BY <1>2, <1>b, StartFirst
<1>3. ASSUME NEW p \in Procs, ProcStep(p) PROVE FirstInv'
  BY <1>3, ProcStepFirst
<1>4. ASSUME NEW p \in Procs, Crash(p) PROVE FirstInv'
  <2>1. Fail(p) /\ UNCHANGED <<world, fsVars, recorded>>
    BY <1>4 DEF Crash, Die, gateVars
  <2>2. Kept
    BY <2>1, KeptLocal
  <2>3. Others(p)
    BY <1>b, <2>1, MovesAlone
  <2>4. QED  BY <1>b, <2>1, <2>2, <2>3, WayFail, KeptFirst
<1>5. ASSUME NEW p \in Procs, Record(p) PROVE FirstInv'
  BY <1>5, RecordFirst
<1>6. CASE ObserverStep
  <2>1. CASE ServeStep
    BY <1>6, <2>1, FirstElse DEF ObserverStep, ServeStep, Handle, ObserveFails, Sign, Build, fileVars, gateVars
  <2>2. ASSUME NEW p \in Procs, Send(p) PROVE FirstInv'
    BY <1>6, <1>b, <2>2, FirstElse, StopFirst DEF ObserverStep, Send, fileVars, gateVars
  <2>3. QED  BY <1>6, <2>1, <2>2 DEF ObserverStep
<1>7. CASE Environment
  <2>1. CASE OthersStep /\ UNCHANGED gateVars
    BY <1>b, <2>1, OthersFirst DEF gateVars
  <2>2. CASE UNCHANGED <<fileVars, gateVars>>
    BY <2>2, FirstElse DEF fileVars, gateVars
  <2>3. ASSUME NEW p \in Procs, Interrupt(p), UNCHANGED gateVars PROVE FirstInv'
    BY <1>b, <2>3, StopFirst DEF Interrupt, gateVars
  <2>4. QED  BY <1>7, <2>1, <2>2, <2>3 DEF Environment, Replug, Call, GiveUp, ObserverWorld
<1>8. QED  BY <1>1, <1>2, <1>3, <1>4, <1>5, <1>6, <1>7 DEF Next

LEMMA InitFirst == Init => FirstInv
<1> SUFFICES ASSUME Init PROVE FirstInv
  OBVIOUS
<1>1. \A p \in Procs : pc[p] = "idle" /\ task[p] = "secret"
  BY DEF Init
<1>2. recorded = (FileAt(dir[GP], "state").tok # 0)
  BY DEF Init, Dir, GP
<1>3. recorded => dir[GP] # 0 /\ files[dir[GP]]["state"].tok # 0
  BY <1>2 DEF FileAt, Absent
<1>4. QED  BY <1>1, <1>3 DEF FirstInv, MarkThere, OnItsWay

\* A step that takes something for a first start.
LEMMA FirstStartStep ==
  ASSUME Base, FirstInv, [Next]_vars, FirstStartBegins, recorded
  PROVE  OthersMayChange(world.above[GP]) /\ (Windows => dir[GP] # 0)
<1>g. Dir("state") = dir[GP] /\ world.above[GP] \in SecType
  BY GPFacts DEF Base
<1>1. PICK p \in Procs : ~first[p] /\ first'[p]
  BY DEF FirstStartBegins
<1>2. ASSUME NEW q \in Procs, CheckStateDir(q) \/ LoadWatermark(q), FirstStart(q) PROVE ~Fixed /\ (Windows => dir[GP] # 0)
  <2>1. OnItsWay(q)
    BY DEF FirstInv
  <2>2. CASE CheckStateDir(q)
    <3>1. CASE Dir("state") = 0 /\ SafeAncestor(world.above[GP])
      BY <1>g, <3>1, SafeIsFixed DEF FirstInv, MarkThere, Fixed
    <3>2. CASE Dir("state") # 0 \/ ~SafeAncestor(world.above[GP])
      <4>1. first' = first
        BY <2>2, <3>2 DEF CheckStateDir, GP
      <4>2. QED  BY <1>1, <4>1
    <3>3. QED  BY <3>1, <3>2
  <2>3. CASE LoadWatermark(q)
    <3>1. task[q] = "state" /\ pc[q] = "open"
      BY <2>3 DEF LoadWatermark
    <3>2. FileAt(dir[GP], "state").tok = 0
      BY <1>1, <1>g, <2>3 DEF LoadWatermark
    <3>3. QED  BY <2>1, <3>1, <3>2 DEF FirstInv, MarkThere, OnItsWay, FileAt
  <2>4. QED  BY <1>2, <2>2, <2>3
<1>3. ASSUME NEW q \in Procs, KeyStep(q) PROVE ~Fixed /\ (Windows => dir[GP] # 0)
  <2>1. (CheckStateDir(q) \/ LoadWatermark(q)) /\ FirstStart(q)
    BY <1>1, <1>3 DEF KeyStep, KeyLstat, KeyOpen, ProvisionLstat, OpenOwnerOnlyDir, ProvisionOpenDir,
                      CheckStateDir, LoadWatermark, gateVars
  <2>2. QED  BY <1>2, <2>1
<1>4. ASSUME first' = first PROVE FALSE
  BY <1>1, <1>4
<1>5. ASSUME NEW q \in Procs, Start(q) PROVE FALSE
  <2>1. first' = [first EXCEPT ![q] = FALSE] /\ first \in [Procs -> BOOLEAN]
    BY <1>5 DEF Start, Base, GateOK
  <2>2. QED  BY <1>1, <2>1
<1>6. ASSUME NEW q \in Procs, Start(q) \/ ProcStep(q) \/ Crash(q) \/ Record(q) PROVE ~Fixed /\ (Windows => dir[GP] # 0)
  <2>1. CASE KeyStep(q)
    BY <1>3, <2>1
  <2>2. CASE Start(q)
    BY <1>5, <2>2
  <2>3. CASE first' = first
    BY <1>4, <2>3
  <2>4. QED
    BY <1>6, <2>1, <2>2, <2>3 DEF ProcStep, FileStep, Crash, Record, gateVars
<1>7. CASE ObserverStep \/ Environment \/ UNCHANGED vars
  BY <1>4, <1>7 DEF ObserverStep, Environment, vars, gateVars, Replug, portVars
<1>8. QED  BY <1>6, <1>7 DEF Next, Fixed

LEMMA FirstHolds == Spec => [](Base /\ FirstInv)
<1>1. Base /\ FirstInv /\ [Next]_vars => (Base /\ FirstInv)'
  BY NextBase, NextFirst
<1>2. Init => Base /\ FirstInv
  BY InitBase, InitFirst
<1>3. QED  BY <1>1, <1>2, PTL DEF Spec

\* A recorded watermark is never mistaken for a first start, not after any run
\* of starts, deaths, failed writes and moves of another account, whenever no
\* other account may change the directory above; and on Windows never because
\* the directory is missing, whoever may change the one above.
THEOREM FirstStartsAreFirst == Spec => FirstStartUnlessMoved
<1>1. Base /\ FirstInv /\ [Next]_vars
        => [FirstStartBegins /\ recorded => /\ OthersMayChange(world.above[PathOf("state")])
                                            /\ (Windows => Dir("state") # 0)]_vars
  BY FirstStartStep DEF GP, Dir
<1>2. QED  BY <1>1, FirstHolds, PTL DEF Spec, FirstStartUnlessMoved

----------------------------------------------------------------------------
(* Provisioned keys. The invariant says where each one lies.                 *)

\* The key that p made lies in directory d, which nobody else may change.
Own(d, p) ==
  /\ d \in 1 .. dirs /\ OwnerOnlyDir(sec[d])
  /\ mine[p] # 0 /\ files[d]["key"].tok = mine[p]
  /\ files[d]["key"].private /\ files[d]["key"].mine

\* What an attestation-keygen has open, has made and has reported.
Provides(p) ==
  /\ mine[p] <= drawn
  /\ task[p] = "provision" /\ pc[p] = "opendir" => at[p] # 0
  /\ task[p] = "provision" /\ pc[p] = "create" => at[p] # 0 /\ OwnerOnlyDir(sec[at[p]])
  /\ task[p] = "provision" /\ pc[p] \in {"write", "unlink"} => Own(at[p], p)
  /\ world.prog[p] = "keygen" /\ pc[p] = "done" => \E d \in 1 .. dirs : Own(d, p) /\ files[d]["key"].whole

\* No two processes drew the same content.
Distinctly == \A p, q \in Procs : p # q /\ mine[p] # 0 => mine[p] # mine[q]

KeyInv == Distinctly /\ \A p \in Procs : Provides(p)

\* A step leaves every directory, and the keys in those that are owner-only,
\* as they are; all keys but that with content t.
Stand(t) ==
  /\ world' = world /\ drawn <= drawn' /\ dirs <= dirs' /\ drawn' \in Nat /\ dirs' \in Nat
  /\ \A d \in 1 .. dirs :
       /\ sec'[d] = sec[d]
       /\ OwnerOnlyDir(sec[d]) /\ files[d]["key"].tok \notin {0, t} => files'[d]["key"] = files[d]["key"]

LEMMA OwnerOnlySame ==
  ASSUME world' = world PROVE \A s : OwnerOnlyDir(s)' = OwnerOnlyDir(s)
  BY DEF OwnerOnlyDir, Windows

LEMMA DirIdFacts ==
  ASSUME AllOK
  PROVE  /\ dirs \in Nat /\ drawn \in Nat /\ 1 .. dirs \subseteq DirIds
         /\ \A p \in Procs : mine[p] \in Nat /\ at[p] \in 0 .. dirs /\ (at[p] # 0 => at[p] \in 1 .. dirs)
         /\ "key" \in Names /\ files \in [DirIds -> [Names -> File]]
         /\ \A n \in Names : Dir(n) \in 0 .. dirs
<1>1. dirs \in 0 .. MaxDirs /\ MaxDirs \in Nat
  BY BoundsAssumption DEF AllOK, FsOK
<1>2. \A n \in Names : Dir(n) \in 0 .. dirs
  BY DirType DEF AllOK
<1>3. QED  BY <1>1, <1>2 DEF AllOK, FsOK, ProcOK, AtOK, DirIds, Names

\* What has been provided stands when the process does not move.
LEMMA ProvidesStands ==
  ASSUME AllOK, NEW q \in Procs, Provides(q), NEW t, mine[q] = 0 \/ mine[q] # t, Stand(t),
         pc'[q] = pc[q], task'[q] = task[q], at'[q] = at[q], mine'[q] = mine[q]
  PROVE  Provides(q)'
<1>f. /\ dirs \in Nat /\ drawn \in Nat /\ mine[q] \in Nat /\ at[q] \in 0 .. dirs
      /\ at[q] # 0 => at[q] \in 1 .. dirs
  BY DirIdFacts
<1>1. /\ drawn <= drawn' /\ drawn' \in Nat /\ 1 .. dirs \subseteq 1 .. dirs'
      /\ \A d \in 1 .. dirs : OwnerOnlyDir(sec[d])' = OwnerOnlyDir(sec[d])
  BY <1>f, OwnerOnlySame DEF Stand, OwnerOnlyDir, Windows
<1>2. ASSUME NEW d \in 1 .. dirs, Own(d, q)
      PROVE  Own(d, q)' /\ files'[d]["key"] = files[d]["key"]
  <2>1. mine[q] \notin {0, t}
    BY <1>2, <1>f DEF Own
  <2>2. files'[d]["key"] = files[d]["key"]
    BY <1>2, <2>1 DEF Own, Stand
  <2>3. QED  BY <1>1, <1>2, <2>2 DEF Own
<1>3. mine'[q] <= drawn'
  BY <1>f, <1>1 DEF Provides
<1>4. (task[q] = "provision" /\ pc[q] = "opendir" => at[q] # 0)'
  BY DEF Provides
<1>5. (task[q] = "provision" /\ pc[q] = "create" => at[q] # 0 /\ OwnerOnlyDir(sec[at[q]]))'
  BY <1>f, <1>1 DEF Provides
<1>6. (task[q] = "provision" /\ pc[q] \in {"write", "unlink"} => Own(at[q], q))'
  <2>1. PICK d : d = at[q]
    OBVIOUS
  <2>2. Own(at[q], q) => Own(d, q)'
    BY <1>2, <2>1 DEF Own
  <2>3. Own(d, q)' => Own(at[q], q)'
    BY <2>1 DEF Own
  <2>4. QED  BY <2>2, <2>3 DEF Provides
<1>7. (world.prog[q] = "keygen" /\ pc[q] = "done" => \E d \in 1 .. dirs : Own(d, q) /\ files[d]["key"].whole)'
  <2>1. world' = world
    BY DEF Stand
  <2>2. ASSUME NEW d \in 1 .. dirs, Own(d, q), files[d]["key"].whole
        PROVE  d \in 1 .. dirs' /\ Own(d, q)' /\ files'[d]["key"].whole
    BY <1>1, <1>2, <2>2
  <2>3. QED  BY <2>1, <2>2 DEF Provides
<1>8. QED  BY <1>3, <1>4, <1>5, <1>6, <1>7 DEF Provides

\* A process moves; nobody draws anything, except p in the last case.
LEMMA KeyMoves ==
  ASSUME AllOK, KeyInv, NEW p \in Procs, Others(p), NEW t \in {0, mine[p]}, Stand(t), Provides(p)',
         mine' = mine \/ (mine' = [mine EXCEPT ![p] = drawn + 1])
  PROVE  KeyInv'
<1>1. ASSUME NEW q \in Procs \ {p} PROVE Provides(q)'
  <2>1. mine[q] = 0 \/ mine[q] # t
    BY DEF KeyInv, Distinctly
  <2>2. QED  BY <2>1, ProvidesStands DEF KeyInv, Others
<1>2. Distinctly'
  <2>1. CASE mine' = mine
    BY <2>1 DEF KeyInv, Distinctly
  <2>2. CASE mine' = [mine EXCEPT ![p] = drawn + 1]
    <3>1. mine'[p] = drawn + 1 /\ \A q \in Procs \ {p} : mine'[q] = mine[q]
      BY <2>2 DEF AllOK, ProcOK
    <3>2. \A q \in Procs : mine[q] \in Nat /\ mine[q] <= drawn /\ drawn \in Nat
      BY DirIdFacts DEF KeyInv, Provides
    <3>3. \A q \in Procs : mine[q] # drawn + 1
      BY <3>2
    <3>4. QED  BY <3>1, <3>3 DEF KeyInv, Distinctly
  <2>3. QED  BY <2>1, <2>2
<1>3. QED  BY <1>1, <1>2 DEF KeyInv

\* What leaves the keys alone.
LEMMA StandSame ==
  ASSUME AllOK, UNCHANGED <<world, fsVars>>
  PROVE  Stand(0)
  BY DirIdFacts DEF Stand, fsVars

LEMMA StandNew ==
  ASSUME AllOK, NEW path \in Paths, NEW s \in SecType, NewDir(path, s), UNCHANGED <<world, files, drawn>>
  PROVE  Stand(0)
<1>1. dirs' = dirs + 1 /\ dirs \in Nat /\ drawn \in Nat /\ 1 .. dirs \subseteq DirIds
  BY DirIdFacts DEF NewDir
<1>2. ASSUME NEW d \in 1 .. dirs PROVE sec'[d] = sec[d]
  <2>1. d # dirs + 1 /\ d \in DirIds
    BY <1>1
  <2>2. QED  BY <2>1 DEF NewDir, AllOK, FsOK
<1>3. QED  BY <1>1, <1>2 DEF Stand

LEMMA StandPut ==
  ASSUME AllOK, NEW d \in DirIds, NEW n \in Names, NEW f, NEW t,
         Put(d, n, f) \/ UNCHANGED files, UNCHANGED <<world, dirs, sec>>,
         drawn' = drawn \/ drawn' = drawn + 1,
         n = "key" /\ OwnerOnlyDir(sec[d]) => files[d]["key"].tok \in {0, t}
  PROVE  Stand(t)
<1>1. dirs \in Nat /\ drawn \in Nat /\ 1 .. dirs \subseteq DirIds /\ "key" \in Names
      /\ files \in [DirIds -> [Names -> File]]
  BY DirIdFacts
<1>2. ASSUME NEW e \in 1 .. dirs, OwnerOnlyDir(sec[e]), files[e]["key"].tok \notin {0, t}
      PROVE  files'[e]["key"] = files[e]["key"]
  BY <1>1, <1>2 DEF Put
<1>3. QED  BY <1>1, <1>2 DEF Stand

\* The process that moves: it ends, or it comes to a step that says nothing.
LEMMA ProvidesEnds ==
  ASSUME AllOK, KeyInv, NEW p \in Procs, NEW t, Stand(t), mine' = mine,
         \/ Fail(p)
         \/ \E tok : Finish(p, tok) /\ task[p] # "provision"
         \/ \E s : Step(p, s) /\ s \notin {"opendir", "create", "write", "unlink", "done"} /\ UNCHANGED task
         \/ \E s : Step(p, s) /\ s # "done" /\ UNCHANGED task /\ task[p] # "provision"
         \/ Step(p, "done") /\ UNCHANGED task /\ world.prog[p] # "keygen"
  PROVE  Provides(p)'
<1>1. mine'[p] <= drawn'
  <2>1. mine[p] <= drawn /\ mine[p] \in Nat /\ drawn \in Nat
    BY DirIdFacts DEF KeyInv, Provides
  <2>2. QED  BY <2>1 DEF Stand
<1>2. world' = world /\ NextTask(p) # "provision"
  BY DEF Stand, NextTask
<1>3. \/ pc'[p] \notin {"opendir", "create", "write", "unlink", "done"}
      \/ pc'[p] # "done" /\ task'[p] # "provision"
      \/ pc'[p] = "done" /\ world.prog[p] # "keygen"
  BY <1>2 DEF Fail, Finish, Step, AllOK, ProcOK
<1>4. QED  BY <1>1, <1>2, <1>3 DEF Provides

LEMMA SecretStepKey ==
  ASSUME AllOK, KeyInv, NEW p \in Procs, SecretStep(p)
  PROVE  KeyInv'
<1>o. Others(p) /\ task[p] = "secret"
  BY OthersSecret
     DEF SecretStep, SecretExists, AssertOwnerOnly, SecretRead, SecretMkdir, SecretChmod, EnsureDir, CreateDir,
         OpenDir, AtSecret
<1>1. mine' = mine
  BY DEF SecretStep, SecretExists, AssertOwnerOnly, SecretRead, SecretMkdir, SecretChmod, EnsureDir, CreateDir,
         OpenDir, Fail, Finish
<1>2. \/ Fail(p) \/ \E tok : Finish(p, tok)
      \/ \E s : Step(p, s) /\ s # "done" /\ UNCHANGED task
  BY DEF SecretStep, SecretExists, AssertOwnerOnly, SecretRead, SecretMkdir, SecretChmod, EnsureDir, CreateDir,
         OpenDir
<1>3. Stand(0)
  <2>1. CASE UNCHANGED <<world, fsVars>>
    BY <2>1, StandSame
  <2>2. ASSUME NEW s \in SecType, NewDir("priv", s), UNCHANGED <<world, files, drawn>> PROVE Stand(0)
    BY <2>2, StandNew DEF Paths
  <2>3. MadeOwnerOnly \in SecType /\ (~Windows => MadeByUmask \in SecType)
    BY MadeTypes DEF AllOK, FsOK
  <2>4. CASE SecretMkdir(p)
    BY <2>1, <2>2, <2>3, <2>4 DEF SecretMkdir
  <2>5. CASE CreateDir(p)
    BY <2>1, <2>2, <2>3, <2>5 DEF CreateDir
  <2>6. CASE SecretChmod(p)
    <3>1. CASE files' = files
      BY <2>1, <2>6, <3>1 DEF SecretChmod, fsVars
    <3>2. CASE /\ FileAt(Dir("secret"), "secret").tok # 0
               /\ Put(Dir("secret"), "secret", [FileAt(Dir("secret"), "secret") EXCEPT !.private = TRUE])
      <4>1. Dir("secret") \in DirIds /\ "secret" \in Names
        BY <3>2, DirType DEF AllOK, Names
      <4>2. QED  BY <2>6, <3>2, <4>1, StandPut DEF SecretChmod
    <3>3. QED  BY <2>6, <3>1, <3>2 DEF SecretChmod
  <2>7. QED  BY <2>1, <2>4, <2>5, <2>6
                DEF SecretStep, SecretExists, AssertOwnerOnly, SecretRead, EnsureDir, OpenDir
<1>4. Provides(p)'
  BY <1>o, <1>1, <1>2, <1>3, ProvidesEnds
<1>5. QED  BY <1>o, <1>1, <1>3, <1>4, KeyMoves

LEMMA KeyStepKey ==
  ASSUME AllOK, KeyInv, NEW p \in Procs, KeyStep(p)
  PROVE  KeyInv'
<1>o. Others(p) /\ Stand(0) /\ world' = world
  BY OthersKey, StandSame
     DEF KeyStep, KeyLstat, KeyOpen, ProvisionLstat, OpenOwnerOnlyDir, ProvisionOpenDir, CheckStateDir, LoadWatermark
<1>1. mine' = mine /\ UNCHANGED sec
  BY DEF KeyStep, KeyLstat, KeyOpen, ProvisionLstat, OpenOwnerOnlyDir, ProvisionOpenDir, CheckStateDir, LoadWatermark,
         FirstStart, Fail, Finish, fsVars
<1>2. Provides(p)'
  <2>1. CASE \/ Fail(p)
             \/ \E tok : Finish(p, tok) /\ task[p] # "provision"
             \/ \E s : Step(p, s) /\ s \notin {"opendir", "create", "write", "unlink", "done"} /\ UNCHANGED task
    BY <1>o, <1>1, <2>1, ProvidesEnds
  <2>2. CASE /\ task' = task /\ task[p] = "provision" /\ Step(p, "opendir")
             /\ Dir("key") # 0 /\ At(p, Dir("key"))
    <3>1. pc'[p] = "opendir" /\ at'[p] # 0
      BY <2>2 DEF Step, At, AllOK, ProcOK, AtOK
    <3>2. mine'[p] <= drawn'
      BY <1>o, <1>1, DirIdFacts DEF KeyInv, Provides, Stand
    <3>3. QED  BY <3>1, <3>2 DEF Provides
  <2>3. CASE /\ task' = task /\ task[p] = "provision" /\ Step(p, "create")
             /\ at'[p] # 0 /\ OwnerOnlyDir(sec[at'[p]])
    <3>1. pc'[p] = "create"
      BY <2>3 DEF Step, AllOK, ProcOK
    <3>2. mine'[p] <= drawn'
      BY <1>o, <1>1, DirIdFacts DEF KeyInv, Provides, Stand
    <3>3. OwnerOnlyDir(sec[at[p]])'
      BY <1>o, <1>1, <2>3 DEF OwnerOnlyDir, Windows
    <3>4. QED  BY <2>3, <3>1, <3>2, <3>3 DEF Provides
  <2>4. CASE KeyLstat(p)
    BY <2>1, <2>4 DEF KeyLstat
  <2>5. CASE KeyOpen(p)
    BY <2>1, <2>5 DEF KeyOpen
  <2>6. CASE ProvisionLstat(p)
    BY <2>1, <2>2, <2>6 DEF ProvisionLstat
  <2>7. CASE OpenOwnerOnlyDir(p)
    <3>1. at[p] # 0
      BY <2>7 DEF OpenOwnerOnlyDir, KeyInv, Provides
    <3>2. QED  BY <2>1, <2>3, <2>7, <3>1 DEF OpenOwnerOnlyDir
  <2>8. CASE ProvisionOpenDir(p)
    <3>1. At(p, Dir("key")) => at'[p] = Dir("key")
      BY DEF At, AllOK, AtOK
    <3>2. QED  BY <2>1, <2>3, <2>8, <3>1 DEF ProvisionOpenDir
  <2>9. CASE CheckStateDir(p)
    BY <2>1, <2>9 DEF CheckStateDir, FirstStart
  <2>10. CASE LoadWatermark(p)
    BY <2>1, <2>10 DEF LoadWatermark, FirstStart
  <2>11. QED  BY <2>4, <2>5, <2>6, <2>7, <2>8, <2>9, <2>10 DEF KeyStep
<1>3. QED  BY <1>o, <1>1, <1>2, KeyMoves

\* A file is opened, read, created, written or taken back.
LEMMA FileStepKey ==
  ASSUME AllOK, AllCreating, KeyInv, NEW p \in Procs,
         OpenForRead(p) \/ ReadOpened(p) \/ Create(p) \/ Write(p) \/ Unlink(p)
  PROVE  KeyInv'
<1>o. Others(p)
  BY OthersFile
<1>t. Creating(p) /\ Provides(p)
  BY DEF AllCreating, KeyInv
<1>l. ASSUME UNCHANGED <<world, fsVars>> PROVE Stand(0)
  BY <1>l, StandSame
<1>f. /\ dirs \in Nat /\ drawn \in Nat /\ 1 .. dirs \subseteq DirIds /\ mine[p] \in Nat
      /\ at[p] # 0 => at[p] \in 1 .. dirs /\ at[p] \in DirIds
      /\ "key" \in Names /\ files \in [DirIds -> [Names -> File]]
  BY DirIdFacts
<1>n. FileOf("secret") = "secret" /\ FileOf("provision") = "key" /\ "secret" \in Names /\ "key" \in Names
  BY DEF FileOf, Names
<1>1. CASE OpenForRead(p)
  <2>1. mine' = mine /\ Stand(0)
    BY <1>1, <1>l DEF OpenForRead, Fail
  <2>2. Fail(p) \/ \E s : Step(p, s) /\ s \notin {"opendir", "create", "write", "unlink", "done"} /\ UNCHANGED task
    BY <1>1 DEF OpenForRead
  <2>3. Provides(p)'
    BY <2>1, <2>2, ProvidesEnds
  <2>4. QED  BY <1>o, <2>1, <2>3, KeyMoves
<1>2. CASE ReadOpened(p)
  <2>1. mine' = mine /\ Stand(0) /\ task[p] # "provision"
    BY <1>2, <1>l, <1>t DEF ReadOpened, Fail, Finish, Creating
  <2>2. Fail(p) \/ \E tok : Finish(p, tok)
    BY <1>2 DEF ReadOpened
  <2>3. Provides(p)'
    BY <2>1, <2>2, ProvidesEnds
  <2>4. QED  BY <1>o, <2>1, <2>3, KeyMoves
<1>3. CASE Create(p)
  <2> DEFINE n == FileOf(task[p])
             d == IF ByPath(p) THEN Dir(n) ELSE at[p]
             f == [tok |-> drawn + 1, whole |-> FALSE, mine |-> TRUE, private |-> ~ByPath(p) \/ world.umask = {}]
  <2>1. n \in Names /\ task[p] \in {"secret", "provision"}
    BY <1>3, <1>t, <1>n DEF Create, Creating
  <2>2. d # 0 => d \in DirIds
    BY <2>1, <1>f, DirType DEF AllOK
  <2>3. CASE UNCHANGED fsVars
    <3>1. mine' = mine /\ Stand(0)
      BY <1>3, <1>l, <1>f, <1>n, <2>2, <2>3 DEF Create, Fail, fsVars
    <3>2. Fail(p) \/ (Step(p, "begin") /\ UNCHANGED task)
      BY <1>3, <1>f, <2>3 DEF Create, fsVars
    <3>3. Provides(p)'
      BY <3>1, <3>2, ProvidesEnds
    <3>4. QED  BY <1>o, <3>1, <3>3, KeyMoves
  <2>4. CASE /\ d # 0 /\ files[d][n].tok = 0 /\ Put(d, n, f) /\ drawn' = drawn + 1
             /\ mine' = [mine EXCEPT ![p] = drawn + 1] /\ At(p, d) /\ Step(p, "write")
             /\ UNCHANGED <<world, dirs, sec, task>>
    <3>1. Stand(0)
      BY <2>1, <2>2, <2>4, StandPut
    <3>2. /\ mine'[p] = drawn + 1 /\ at'[p] = d /\ pc'[p] = "write" /\ task'[p] = task[p]
          /\ drawn + 1 <= drawn' /\ drawn + 1 # 0
      BY <1>f, <2>4 DEF At, Step, AllOK, ProcOK, AtOK
    <3>3. ASSUME task[p] = "secret" PROVE Provides(p)'
      BY <3>2, <3>3 DEF Provides
    <3>4. ASSUME task[p] = "provision" PROVE Provides(p)'
      <4>1. d = at[p] /\ n = "key" /\ f.private /\ f.mine /\ f.tok = drawn + 1
        BY <3>4, <1>n DEF ByPath
      <4>2. PICK e : e = at[p]
        OBVIOUS
      <4>3. e \in 1 .. dirs /\ OwnerOnlyDir(sec[e])
        BY <1>3, <1>f, <1>t, <3>4, <4>2 DEF Create, Provides
      <4>4. files'[e]["key"] = f
        BY <1>f, <2>4, <4>1, <4>2, <4>3 DEF Put
      <4>5. OwnerOnlyDir(sec[e])'
        BY <2>4, <4>3 DEF OwnerOnlyDir, Windows
      <4>6. Own(e, p)'
        BY <2>4, <3>2, <4>1, <4>3, <4>4, <4>5 DEF Own
      <4>7. at'[p] = e
        BY <3>2, <4>1, <4>2
      <4>8. Own(at[p], p)'
        BY <4>6, <4>7 DEF Own
      <4>9. QED  BY <3>2, <3>4, <4>8 DEF Provides
    <3>5. Provides(p)'
      BY <2>1, <3>3, <3>4
    <3>6. QED  BY <1>o, <2>4, <3>1, <3>5, KeyMoves
  <2>5. QED  BY <1>3, <2>3, <2>4 DEF Create
<1>4. CASE Write(p)
  <2> DEFINE n == FileOf(task[p])
  <2>1. n \in Names /\ at[p] \in DirIds /\ task[p] \in {"secret", "provision"} /\ pc[p] = "write"
    BY <1>4, <1>f, <1>t, <1>n DEF Write, Creating
  <2>2. mine' = mine /\ UNCHANGED <<world, dir, dirs, sec, drawn>>
    BY <1>4 DEF Write, Fail, Finish
  <2>3. Stand(mine[p])
    <3>1. ASSUME NEW whole \in BOOLEAN, Written(p, whole) PROVE Stand(mine[p])
      <4>1. CASE files[at[p]][n].tok = mine[p] /\ Put(at[p], n, [files[at[p]][n] EXCEPT !.whole = whole])
        BY <2>1, <2>2, <4>1, StandPut
      <4>2. CASE UNCHANGED files
        <5>1. UNCHANGED <<world, dirs, sec, drawn, files>>
          BY <2>2, <4>2
        <5>2. QED  BY <1>f, <5>1 DEF Stand
      <4>3. QED  BY <3>1, <4>1, <4>2 DEF Written
    <3>2. QED  BY <1>4, <3>1 DEF Write
  <2>4. CASE task[p] = "secret"
    <3>1. \/ Fail(p) \/ \E tok : Finish(p, tok)
          \/ \E s : Step(p, s) /\ s # "done" /\ UNCHANGED task
      BY <1>4 DEF Write
    <3>2. Provides(p)'
      BY <2>2, <2>3, <2>4, <3>1, ProvidesEnds
    <3>3. QED  BY <1>o, <2>2, <2>3, <3>2, KeyMoves
  <2>5. CASE task[p] = "provision"
    <3>1. Own(at[p], p) /\ n = "key" /\ ~ByPath(p) /\ NextTask(p) = "serve"
      BY <1>t, <1>n, <2>1, <2>5 DEF Provides, ByPath, NextTask
    <3>2. ASSUME NEW whole \in BOOLEAN, Written(p, whole), NEW d, d = at[p]
          PROVE  Own(d, p)' /\ files'[d]["key"].whole = whole
      <4>1. files'[d]["key"] = [files[d]["key"] EXCEPT !.whole = whole] /\ files[d]["key"] \in File
        BY <1>f, <2>1, <3>1, <3>2 DEF Written, Put, Own
      <4>2. OwnerOnlyDir(sec[d])' = OwnerOnlyDir(sec[d])
        BY <2>2 DEF OwnerOnlyDir, Windows
      <4>3. /\ files'[d]["key"].tok = files[d]["key"].tok /\ files'[d]["key"].private = files[d]["key"].private
            /\ files'[d]["key"].mine = files[d]["key"].mine /\ files'[d]["key"].whole = whole
        BY <4>1 DEF File
      <4>4. QED  BY <2>2, <3>1, <3>2, <4>2, <4>3 DEF Own
    <3>3. PICK d : d = at[p]
      OBVIOUS
    <3>4. mine'[p] <= drawn'
      BY <1>f, <1>t, <2>2 DEF Provides
    <3>5. ASSUME Written(p, TRUE), Finish(p, mine[p]) PROVE Provides(p)'
      <4>1. pc'[p] = "done" /\ task'[p] = "serve"
        BY <2>5, <3>1, <3>5 DEF Finish, Step, AllOK, ProcOK
      <4>2. Own(d, p)' /\ files'[d]["key"].whole
        BY <3>2, <3>3, <3>5
      <4>3. \E e \in 1 .. dirs' : Own(e, p)' /\ files'[e]["key"].whole
        BY <4>2 DEF Own
      <4>4. QED  BY <3>4, <4>1, <4>3 DEF Provides
    <3>6. ASSUME NEW whole \in BOOLEAN, Written(p, whole), Step(p, "unlink"), UNCHANGED <<task, at>>
          PROVE  Provides(p)'
      <4>1. pc'[p] = "unlink" /\ at'[p] = d
        BY <3>3, <3>6 DEF Step, AllOK, ProcOK
      <4>2. Own(d, p)'
        BY <3>2, <3>3, <3>6
      <4>3. Own(at[p], p)'
        BY <4>1, <4>2 DEF Own
      <4>4. QED  BY <3>4, <4>1, <4>3 DEF Provides
    <3>7. Provides(p)'
      BY <1>4, <3>1, <3>5, <3>6 DEF Write
    <3>8. QED  BY <1>o, <2>2, <2>3, <3>7, KeyMoves
  <2>6. QED  BY <2>1, <2>4, <2>5
<1>5. CASE Unlink(p)
  <2>1. /\ FileOf(task[p]) \in Names /\ at[p] \in DirIds /\ task[p] \in {"secret", "provision"} /\ Fail(p)
        /\ UNCHANGED <<world, dir, dirs, sec, drawn>> /\ mine' = mine
        /\ UNCHANGED files \/ Put(at[p], FileOf(task[p]), Absent)
    BY <1>5, <1>f, <1>t, <1>n DEF Unlink, Creating, Fail
  <2>2. FileOf(task[p]) = "key" => files[at[p]]["key"].tok = mine[p]
    BY <1>5, <1>t, <1>n, <2>1 DEF Unlink, Provides, Own
  <2>3. Stand(mine[p])
    BY <2>1, <2>2, StandPut
  <2>4. Provides(p)'
    BY <2>1, <2>3, ProvidesEnds
  <2>5. QED  BY <1>o, <2>1, <2>3, <2>4, KeyMoves
<1>6. QED  BY <1>1, <1>2, <1>3, <1>4, <1>5

\* A step in which no process moves.
LEMMA KeyElse ==
  ASSUME AllOK, KeyInv, Stand(0), UNCHANGED procVars
  PROVE  KeyInv'
<1>1. ASSUME NEW q \in Procs PROVE Provides(q)'
  BY ProvidesStands DEF KeyInv, procVars
<1>2. Distinctly'
  BY DEF KeyInv, Distinctly, procVars
<1>3. QED  BY <1>1, <1>2 DEF KeyInv

\* Another account removes nothing from a directory it may not change.
LEMMA OthersKeys ==
  ASSUME AllOK, KeyInv, OthersStep
  PROVE  KeyInv'
<1>1. ASSUME NEW path \in Paths, MoveDirAway(path) PROVE KeyInv'
  <2>1. UNCHANGED <<world, dirs, sec, files, drawn, procVars>>
    BY <1>1 DEF MoveDirAway
  <2>2. Stand(0)
    BY <2>1, DirIdFacts DEF Stand
  <2>3. QED  BY <2>1, <2>2, KeyElse
<1>2. ASSUME NEW path \in Paths, PutDirThere(path) PROVE KeyInv'
  <2>1. UNCHANGED <<world, files, drawn, procVars>>
    BY <1>2 DEF PutDirThere
  <2>2. world.foreign \in SecType
    BY WorldFacts DEF AllOK, FsOK
  <2>3. CASE NewDir(path, world.foreign)
    BY <2>1, <2>2, <2>3, StandNew, KeyElse
  <2>4. CASE UNCHANGED <<dirs, sec>>
    <3>1. Stand(0)
      BY <2>1, <2>4, DirIdFacts DEF Stand
    <3>2. QED  BY <2>1, <2>4, <3>1, KeyElse
  <2>5. QED  BY <1>2, <2>3, <2>4 DEF PutDirThere
<1>3. ASSUME NEW n \in Names, RemoveFile(n) PROVE KeyInv'
  <2>1. /\ UNCHANGED <<world, dirs, sec, drawn, procVars>> /\ Put(Dir(n), n, Absent)
        /\ OthersMayChange(sec[Dir(n)]) /\ Dir(n) \in DirIds
    BY <1>3, DirType DEF RemoveFile, AllOK
  <2>2. sec[Dir(n)] \in SecType
    BY <2>1 DEF AllOK, FsOK
  <2>3. ~OwnerOnlyDir(sec[Dir(n)])
    BY <2>1, <2>2, OwnerOnlyHolds DEF OwnerOnlyDir, OthersMayChange, SecType, PosixMode
  <2>4. Stand(0)
    BY <2>1, <2>3, StandPut
  <2>5. QED  BY <2>1, <2>4, KeyElse
<1>4. QED  BY <1>1, <1>2, <1>3 DEF OthersStep

LEMMA RecordKey ==
  ASSUME AllOK, KeyInv, NEW p \in Procs, Record(p)
  PROVE  KeyInv'
<1> DEFINE f == [tok |-> drawn + 1, whole |-> TRUE, private |-> TRUE, mine |-> TRUE]
<1>f. /\ dirs \in Nat /\ drawn \in Nat /\ 1 .. dirs \subseteq DirIds /\ "key" \in Names /\ "state" \in Names
      /\ files \in [DirIds -> [Names -> File]]
  BY DirIdFacts DEF Names
<1>1. CASE Dir("state") = 0
  <2>1. /\ dirs' = dirs + 1 /\ drawn' = drawn + 1 /\ world' = world
        /\ sec' = [sec EXCEPT ![dirs + 1] = MadeOwnerOnly] /\ files' = [files EXCEPT ![dirs + 1]["state"] = f]
    BY <1>1 DEF Record, NewDir, Put
  <2>2. ASSUME NEW d \in 1 .. dirs PROVE sec'[d] = sec[d] /\ files'[d]["key"] = files[d]["key"]
    <3>1. d # dirs + 1 /\ d \in DirIds
      BY <1>f
    <3>2. QED  BY <1>f, <2>1, <3>1 DEF AllOK, FsOK
  <2>3. QED  BY <1>f, <2>1, <2>2, KeyElse DEF Stand, Record
<1>2. CASE Dir("state") # 0
  <2>1. /\ Dir("state") \in DirIds /\ Put(Dir("state"), "state", f) /\ UNCHANGED <<world, dirs, sec>>
        /\ drawn' = drawn + 1
    BY <1>2, <1>f, DirType DEF Record, AllOK
  <2>2. Stand(0)
    BY <1>f, <2>1, StandPut
  <2>3. QED  BY <2>2, KeyElse DEF Record
<1>3. QED  BY <1>1, <1>2

LEMMA StopKey ==
  ASSUME AllOK, KeyInv, NEW p \in Procs, Stop(p), world.prog[p] = "observer"
  PROVE  KeyInv'
<1>1. UNCHANGED <<world, fsVars, task, at, mine, got>> /\ Step(p, "done") /\ world.prog[p] # "keygen"
  BY DEF Stop
<1>2. Stand(0)
  BY <1>1, StandSame
<1>3. Others(p)
  BY <1>1 DEF Others, Step, AllOK, ProcOK
<1>4. Provides(p)'
  BY <1>1, <1>2, ProvidesEnds
<1>5. QED  BY <1>1, <1>2, <1>3, <1>4, KeyMoves

LEMMA StartKey ==
  ASSUME AllOK, KeyInv, NEW p \in Procs, Start(p)
  PROVE  KeyInv'
<1>1. UNCHANGED <<world, fsVars, at, mine, got>> /\ pc'[p] \in {"failed", "begin"} /\ drawn' = drawn
  BY DEF Start, Step, AllOK, ProcOK, fsVars
<1>2. Stand(0)
  BY <1>1, StandSame
<1>3. Others(p)
  BY DEF Start, Others, Step, AllOK, ProcOK
<1>4. Provides(p)'
  BY <1>1 DEF KeyInv, Provides
<1>5. QED  BY <1>1, <1>2, <1>3, <1>4, KeyMoves

LEMMA ProcStepKey ==
  ASSUME AllOK, AllCreating, PortOK, AllDialed, KeyInv, NEW p \in Procs, ProcStep(p)
  PROVE  KeyInv'
<1>1. CASE FileStep(p)
  BY <1>1, FileStepKey, SecretStepKey, KeyStepKey DEF FileStep
<1>2. CASE PortStep(p)
  <2>1. UNCHANGED <<world, fsVars, mine>> /\ task[p] = "port"
    BY <1>2 DEF PortStep, ResolveConnection, OpenSerial, Fail, Finish
  <2>2. Fail(p) \/ Finish(p, 0) \/ (Step(p, "open") /\ task' = task)
    BY <1>2 DEF PortStep, ResolveConnection, OpenSerial
  <2>3. Stand(0) /\ Others(p)
    BY <1>2, <2>1, StandSame, PortStepType
  <2>4. Provides(p)'
    BY <2>1, <2>2, <2>3, ProvidesEnds
  <2>5. QED  BY <2>1, <2>3, <2>4, KeyMoves
<1>3. CASE BuildCapture(p)
  <2>1. UNCHANGED <<world, fsVars, mine>> /\ task[p] = "capture" /\ (Fail(p) \/ Finish(p, 0))
    BY <1>3 DEF BuildCapture, Fail, Finish
  <2>2. Stand(0) /\ Others(p)
    BY <2>1, StandSame, MovesAlone
  <2>3. Provides(p)'
    BY <2>1, <2>2, ProvidesEnds
  <2>4. QED  BY <2>1, <2>2, <2>3, KeyMoves
<1>4. QED  BY <1>1, <1>2, <1>3 DEF ProcStep

LEMMA NextKey == Base /\ KeyInv /\ [Next]_vars => KeyInv'
<1> SUFFICES ASSUME Base, KeyInv, [Next]_vars PROVE KeyInv'
  OBVIOUS
<1>b. AllOK /\ AllCreating /\ PortOK /\ AllDialed
  BY DEF Base
<1>e. ASSUME UNCHANGED fileVars PROVE KeyInv'
  <2>1. UNCHANGED <<world, fsVars, procVars>>
    BY <1>e DEF fileVars, fsVars, procVars
  <2>2. QED  BY <1>b, <2>1, StandSame, KeyElse
<1>1. CASE UNCHANGED vars
  BY <1>1, <1>e DEF vars
<1>2. ASSUME NEW p \in Procs, Start(p) PROVE KeyInv'
  BY <1>2, <1>b, StartKey
<1>3. ASSUME NEW p \in Procs, ProcStep(p) PROVE KeyInv'
  BY <1>3, <1>b, ProcStepKey
<1>4. ASSUME NEW p \in Procs, Crash(p) PROVE KeyInv'
  <2>1. Fail(p) /\ UNCHANGED <<world, fsVars, mine>>
    BY <1>4 DEF Crash, Die, Fail
  <2>2. Stand(0) /\ Others(p)
    BY <1>b, <2>1, StandSame, MovesAlone
  <2>3. Provides(p)'
    BY <1>b, <2>1, <2>2, ProvidesEnds
  <2>4. QED  BY <1>b, <2>1, <2>2, <2>3, KeyMoves
<1>5. ASSUME NEW p \in Procs, Record(p) PROVE KeyInv'
  BY <1>5, <1>b, RecordKey
<1>6. CASE ObserverStep
  <2>1. CASE ServeStep
    <3>1. CASE Handle \/ ObserveFails \/ Sign
      BY <1>e, <3>1 DEF Handle, ObserveFails, Sign, fileVars
    <3>2. ASSUME NEW a \in BOOLEAN, NEW o \in BOOLEAN, Build(a, o) PROVE KeyInv'
      BY <1>e, <3>2 DEF Build, fileVars
    <3>3. QED  BY <2>1, <3>1, <3>2 DEF ServeStep
  <2>2. ASSUME NEW p \in Procs, Send(p) PROVE KeyInv'
    BY <1>b, <1>e, <2>2, StopKey DEF Send
  <2>3. QED  BY <1>6, <2>1, <2>2 DEF ObserverStep
<1>7. CASE Environment
  <2>1. CASE OthersStep
    BY <1>b, <2>1, OthersKeys
  <2>2. CASE UNCHANGED fileVars
    BY <1>e, <2>2
  <2>3. ASSUME NEW p \in Procs, Interrupt(p) PROVE KeyInv'
    BY <1>b, <2>3, StopKey DEF Interrupt
  <2>4. QED  BY <1>7, <2>1, <2>2, <2>3 DEF Environment, Replug, Call, GiveUp, ObserverWorld
<1>8. QED  BY <1>1, <1>2, <1>3, <1>4, <1>5, <1>6, <1>7 DEF Next

LEMMA InitKey == Init => KeyInv
<1> SUFFICES ASSUME Init PROVE KeyInv
  OBVIOUS
<1>1. \A p \in Procs : pc[p] = "idle" /\ mine[p] = 0
  BY DEF Init
<1>2. drawn \in Nat
  BY InitBase, DirIdFacts DEF Base
<1>3. QED  BY <1>1, <1>2 DEF KeyInv, Distinctly, Provides

\* A key that attestation-keygen reported is in a directory that only the owner
\* may use, complete, private and the owner's, as long as no other start of that
\* process took its place: whatever other processes create, fail to write, take
\* back or leave behind when they die, and whatever is moved or removed meanwhile.
THEOREM ProvisionedKeyStays == Spec => []KeyIsKept
<1>1. Base /\ KeyInv => KeyIsKept
  <2> SUFFICES ASSUME Base, KeyInv, NEW p \in Procs, world.prog[p] = "keygen", pc[p] = "done"
               PROVE  \E d \in DirIds :
                        /\ OwnerOnlyDir(sec[d])
                        /\ files[d]["key"] = [tok |-> mine[p], whole |-> TRUE, private |-> TRUE, mine |-> TRUE]
    BY DEF KeyIsKept
  <2>1. PICK d \in 1 .. dirs : Own(d, p) /\ files[d]["key"].whole
    BY DEF KeyInv, Provides
  <2>2. d \in DirIds /\ files[d]["key"] \in File
    BY DirIdFacts DEF Base
  <2>3. files[d]["key"] = [tok |-> mine[p], whole |-> TRUE, private |-> TRUE, mine |-> TRUE]
    BY <2>1, <2>2 DEF File, Own
  <2>4. QED  BY <2>1, <2>2, <2>3 DEF Own
<1>2. Init => Base /\ KeyInv
  BY InitBase, InitKey
<1>3. Base /\ KeyInv /\ [Next]_vars => (Base /\ KeyInv)'
  BY NextBase, NextKey
<1>4. QED  BY <1>1, <1>2, <1>3, PTL DEF Spec

----------------------------------------------------------------------------
(* What a service holds. The invariant follows the secret and the key that   *)
(* lie at their paths, as long as nobody else may disturb those.             *)

Kinds == {"secret", "key"}
OnDisk(n) == FileAt(Dir(n), n)
Quiet(n) == Undisturbed(PathOf(n))

\* Steps that one platform alone takes.
Where(p) ==
  /\ pc[p] \in {"stat", "read"} => ~Windows /\ task[p] = "secret"
  /\ pc[p] = "reading" => Windows
  /\ pc[p] = "unlink" /\ task[p] = "secret" => Windows

\* What a process on its way has seen, opened or made of file n.
Sees(p, n) ==
  FileOf(task[p]) = n /\ Quiet(n) =>
    /\ pc[p] \in {"opendir", "create"} /\ (task[p] = "provision" \/ (Windows /\ pc[p] = "create"))
         => at[p] = Dir(n) /\ at[p] # 0
    /\ pc[p] \in {"write", "unlink", "chmod"} =>
         /\ at[p] = Dir(n) /\ at[p] # 0 /\ OnDisk(n).tok = mine[p] /\ mine[p] # 0 /\ OnDisk(n).mine
         /\ pc[p] = "write" \/ (pc[p] = "unlink" /\ n = "secret") => ~OnDisk(n).whole
         /\ pc[p] = "chmod" => OnDisk(n).whole
         /\ Windows => OnDisk(n).private
    /\ pc[p] = "reading" => at[p] = Dir(n) /\ at[p] # 0 /\ OnDisk(n).tok # 0 /\ OwnerOnlyFile(OnDisk(n))
    /\ pc[p] \in {"stat", "read"} => OnDisk(n).tok # 0
    /\ pc[p] = "read" => OwnerOnlyFile(OnDisk(n))

\* What a process has is what lies there. A key that was taken back is excepted.
Holds(p, n) ==
  Quiet(n) /\ got[p][n] # 0 /\ (n = "key" => got[p][n] \notin withdrawn) =>
    /\ OnDisk(n).whole /\ OnDisk(n).tok = got[p][n]
    /\ n = "secret" => OwnerOnlyFile(OnDisk(n))

DiskInv == \A p \in Procs : Where(p) /\ \A n \in Kinds : Sees(p, n) /\ Holds(p, n)

\* How a step may change file n: not at all; or what a process with content t
\* made of it is written or taken back; or it becomes private.
Turn(t, n) ==
  /\ world' = world /\ withdrawn \subseteq withdrawn'
  /\ Quiet(n)' => Quiet(n) /\ (Dir(n) # 0 => Dir(n)' = Dir(n))
  /\ Quiet(n)' /\ OnDisk(n).tok # 0 =>
       \/ OnDisk(n)' = OnDisk(n)
       \/ /\ OnDisk(n).tok = t /\ ~OnDisk(n).whole
          /\ OnDisk(n)'.tok = t /\ OnDisk(n)'.mine = OnDisk(n).mine /\ OnDisk(n)'.private = OnDisk(n).private
       \/ /\ OnDisk(n)'.tok = OnDisk(n).tok /\ OnDisk(n)'.mine = OnDisk(n).mine
          /\ OnDisk(n)'.whole = OnDisk(n).whole /\ OnDisk(n)'.private
       \/ /\ OnDisk(n).tok = t /\ OnDisk(n).tok \in withdrawn'
          /\ n = "secret" => ~OnDisk(n).whole /\ Windows
          /\ ~(Windows /\ Reading(Dir(n), n))

LEMMA HoldsStands ==
  ASSUME NEW p \in Procs, NEW n \in Kinds, Holds(p, n), NEW t, Turn(t, n), got'[p][n] = got[p][n]
  PROVE  Holds(p, n)'
<1> SUFFICES ASSUME Quiet(n)', got[p][n] # 0, n = "key" => got[p][n] \notin withdrawn'
             PROVE  /\ OnDisk(n)'.whole /\ OnDisk(n)'.tok = got[p][n]
                    /\ n = "secret" => OwnerOnlyFile(OnDisk(n))'
  BY DEF Holds
<1>1. Quiet(n) /\ (n = "key" => got[p][n] \notin withdrawn)
  BY DEF Turn
<1>2. OnDisk(n).whole /\ OnDisk(n).tok = got[p][n] /\ (n = "secret" => OwnerOnlyFile(OnDisk(n)))
  BY <1>1 DEF Holds
<1>3. /\ OnDisk(n)'.whole /\ OnDisk(n)'.tok = OnDisk(n).tok /\ OnDisk(n)'.mine = OnDisk(n).mine
      /\ OnDisk(n).private => OnDisk(n)'.private
  BY <1>2 DEF Turn, Kinds
<1>4. QED  BY <1>2, <1>3 DEF OwnerOnlyFile

LEMMA SeesStands ==
  ASSUME NEW p \in Procs, NEW n \in Kinds, Sees(p, n), Where(p), NEW t, mine[p] = 0 \/ mine[p] # t, Turn(t, n),
         pc'[p] = pc[p], task'[p] = task[p], at'[p] = at[p], mine'[p] = mine[p]
  PROVE  Sees(p, n)'
<1> SUFFICES ASSUME FileOf(task[p]) = n, Quiet(n)' PROVE Sees(p, n)'
  BY DEF Sees, FileOf
<1>w. Windows' = Windows /\ FileOf(task[p])' = FileOf(task[p]) /\ Quiet(n)
  BY DEF Turn, Windows, FileOf
<1>1. CASE pc[p] \in {"opendir", "create"}
  BY <1>1, <1>w DEF Sees, Turn
<1>2. CASE pc[p] \in {"write", "unlink", "chmod"}
  <2>1. /\ at[p] = Dir(n) /\ at[p] # 0 /\ OnDisk(n).tok = mine[p] /\ mine[p] # 0 /\ OnDisk(n).mine
        /\ pc[p] = "write" \/ (pc[p] = "unlink" /\ n = "secret") => ~OnDisk(n).whole
        /\ pc[p] = "chmod" => OnDisk(n).whole
        /\ Windows => OnDisk(n).private
    BY <1>2, <1>w DEF Sees
  <2>2. /\ Dir(n)' = Dir(n) /\ OnDisk(n)'.tok = OnDisk(n).tok /\ OnDisk(n)'.mine = OnDisk(n).mine
        /\ OnDisk(n)'.whole = OnDisk(n).whole /\ (OnDisk(n).private => OnDisk(n)'.private)
    BY <2>1 DEF Turn
  <2>3. QED  BY <1>2, <1>w, <2>1, <2>2 DEF Sees
<1>3. CASE pc[p] = "reading"
  <2>1. at[p] = Dir(n) /\ at[p] # 0 /\ OnDisk(n).tok # 0 /\ OwnerOnlyFile(OnDisk(n)) /\ Windows
    BY <1>3, <1>w DEF Sees, Where
  <2>2. Reading(Dir(n), n)
    BY <1>3, <2>1 DEF Reading
  <2>3. /\ Dir(n)' = Dir(n) /\ OnDisk(n)'.tok = OnDisk(n).tok /\ OnDisk(n)'.mine = OnDisk(n).mine
        /\ OnDisk(n).private => OnDisk(n)'.private
    BY <2>1, <2>2 DEF Turn
  <2>4. QED  BY <1>3, <1>w, <2>1, <2>3 DEF Sees, OwnerOnlyFile
<1>4. CASE pc[p] \in {"stat", "read"}
  <2>1. n = "secret" /\ ~Windows /\ OnDisk(n).tok # 0 /\ (pc[p] = "read" => OwnerOnlyFile(OnDisk(n)))
    BY <1>4, <1>w DEF Sees, Where, FileOf
  <2>2. /\ OnDisk(n)'.tok = OnDisk(n).tok /\ OnDisk(n)'.mine = OnDisk(n).mine
        /\ OnDisk(n).private => OnDisk(n)'.private
    BY <2>1 DEF Turn
  <2>3. QED  BY <1>4, <1>w, <2>1, <2>2 DEF Sees, OwnerOnlyFile
<1>5. CASE pc[p] \notin {"opendir", "create", "write", "unlink", "chmod", "reading", "stat", "read"}
  BY <1>5 DEF Sees
<1>6. QED  BY <1>1, <1>2, <1>3, <1>4, <1>5

\* A process moves.
LEMMA DiskMoves ==
  ASSUME DiskInv, KeyInv, NEW p \in Procs, Others(p), NEW t \in {0, mine[p]}, \A n \in Kinds : Turn(t, n),
         Where(p)', \A n \in Kinds : Sees(p, n)' /\ Holds(p, n)'
  PROVE  DiskInv'
<1>1. ASSUME NEW q \in Procs \ {p}, NEW n \in Kinds PROVE Where(q)' /\ Sees(q, n)' /\ Holds(q, n)'
  <2>1. mine[q] = 0 \/ mine[q] # t
    BY DEF KeyInv, Distinctly
  <2>2. Turn(t, n) /\ Where(q) /\ Sees(q, n) /\ Holds(q, n)
    BY DEF DiskInv
  <2>3. pc'[q] = pc[q] /\ task'[q] = task[q] /\ at'[q] = at[q] /\ mine'[q] = mine[q] /\ got'[q][n] = got[q][n]
    BY DEF Others
  <2>4. Sees(q, n)' /\ Holds(q, n)'
    BY <2>1, <2>2, <2>3, SeesStands, HoldsStands
  <2>5. Where(q)'
    BY <2>2, <2>3 DEF Where, Turn, Windows
  <2>6. QED  BY <2>4, <2>5
<1>2. Kinds # {}
  BY DEF Kinds
<1>3. QED  BY <1>1, <1>2 DEF DiskInv

\* No process moves.
LEMMA DiskElse ==
  ASSUME DiskInv, UNCHANGED procVars, \A n \in Kinds : Turn(0, n)
  PROVE  DiskInv'
<1>1. ASSUME NEW q \in Procs, NEW n \in Kinds PROVE Where(q)' /\ Sees(q, n)' /\ Holds(q, n)'
  <2>1. Turn(0, n) /\ Where(q) /\ Sees(q, n) /\ Holds(q, n) /\ (mine[q] = 0 \/ mine[q] # 0)
    BY DEF DiskInv
  <2>2. pc'[q] = pc[q] /\ task'[q] = task[q] /\ at'[q] = at[q] /\ mine'[q] = mine[q] /\ got'[q][n] = got[q][n]
    BY DEF procVars
  <2>3. Sees(q, n)' /\ Holds(q, n)'
    BY <2>1, <2>2, SeesStands, HoldsStands
  <2>4. Where(q)'
    BY <2>1, <2>2 DEF Where, Turn, Windows
  <2>5. QED  BY <2>3, <2>4
<1>2. Kinds # {}
  BY DEF Kinds
<1>3. QED  BY <1>1, <1>2 DEF DiskInv

\* How steps change what lies there.
LEMMA KindFacts ==
  ASSUME AllOK, NEW n \in Kinds
  PROVE  /\ n \in Names /\ PathOf(n) \in Paths /\ Dir(n) = dir[PathOf(n)] /\ Dir(n) \in 0 .. dirs
         /\ Dir(n) # 0 => Dir(n) \in DirIds /\ Dir(n) \in 1 .. dirs
         /\ OnDisk(n) \in File /\ (OnDisk(n).tok # 0 => Dir(n) # 0 /\ OnDisk(n) = files[Dir(n)][n])
         /\ FileOf(n) = n
<1>1. n \in Names /\ PathOf(n) \in Paths /\ FileOf(n) = n
  BY DEF Kinds, Names, PathOf, Paths, FileOf
<1>2. Dir(n) \in 0 .. dirs /\ (Dir(n) # 0 => Dir(n) \in DirIds) /\ OnDisk(n) \in File
      /\ (OnDisk(n).tok # 0 => Dir(n) # 0)
  BY <1>1, DirType DEF AllOK, OnDisk
<1>3. dirs \in Nat
  BY DirIdFacts
<1>4. QED  BY <1>1, <1>2, <1>3 DEF Dir, OnDisk, FileAt

LEMMA QuietSame ==
  ASSUME NEW n, world' = world, Dir(n)' = Dir(n), Dir(n) # 0 => sec'[Dir(n)] = sec[Dir(n)]
  PROVE  Quiet(n)' = Quiet(n) /\ PathOf(n)' = PathOf(n) /\ Windows' = Windows
<1>1. PathOf(n)' = PathOf(n) /\ Windows' = Windows
  BY DEF PathOf, Windows
<1>2. Quiet(n)' = Quiet(n)
  BY <1>1 DEF Quiet, Undisturbed, OthersMayChange, Windows, Dir
<1>3. QED  BY <1>1, <1>2

LEMMA TurnSame ==
  ASSUME UNCHANGED <<world, fsVars>>, NEW n, NEW t
  PROVE  Turn(t, n) /\ Quiet(n)' = Quiet(n) /\ Dir(n)' = Dir(n) /\ OnDisk(n)' = OnDisk(n)
<1>1. Dir(n)' = Dir(n) /\ sec' = sec /\ files' = files /\ world' = world /\ withdrawn' = withdrawn
  BY DEF fsVars, Dir, PathOf
<1>2. OnDisk(n)' = OnDisk(n)
  BY <1>1 DEF OnDisk, FileAt
<1>3. QED  BY <1>1, <1>2, QuietSame DEF Turn

\* A directory is made where there was none.
LEMMA TurnNew ==
  ASSUME AllOK, NEW path \in Paths, NEW s \in SecType, NewDir(path, s), dir[path] = 0,
         UNCHANGED <<world, withdrawn>>, \A d \in 1 .. dirs : files'[d] = files[d], NEW n \in Kinds, NEW t
  PROVE  Turn(t, n)
<1>f. /\ n \in Names /\ PathOf(n) \in Paths /\ Dir(n) = dir[PathOf(n)]
      /\ Dir(n) # 0 => Dir(n) \in 1 .. dirs
      /\ OnDisk(n).tok # 0 => Dir(n) # 0 /\ OnDisk(n) = files[Dir(n)][n]
  BY KindFacts
<1>d. dirs \in Nat /\ 1 .. dirs \subseteq DirIds /\ dir \in [Paths -> 0 .. dirs]
  BY DirIdFacts DEF AllOK, FsOK
<1>1. CASE Dir(n) = 0
  <2>1. PathOf(n)' = PathOf(n)
    BY DEF PathOf
  <2>2. Quiet(n)' => Quiet(n)
    BY <1>1, <1>f, <2>1 DEF Quiet, Undisturbed, OthersMayChange, Windows
  <2>3. QED  BY <1>1, <1>f, <2>2 DEF Turn
<1>2. CASE Dir(n) # 0
  <2>1. PathOf(n) # path /\ PathOf(n)' = PathOf(n)
    BY <1>2, <1>f DEF PathOf
  <2>2. dir'[PathOf(n)] = dir[PathOf(n)] /\ sec'[Dir(n)] = sec[Dir(n)]
    <3>1. Dir(n) # dirs + 1 /\ Dir(n) \in DirIds
      BY <1>2, <1>f, <1>d
    <3>2. QED  BY <1>f, <1>d, <2>1, <3>1 DEF NewDir, AllOK, FsOK
  <2>3. Dir(n)' = Dir(n)
    BY <1>f, <2>1, <2>2 DEF Dir
  <2>4. OnDisk(n)' = OnDisk(n)
    BY <1>2, <1>f, <2>3 DEF OnDisk, FileAt
  <2>5. QED  BY <2>2, <2>3, <2>4, QuietSame DEF Turn
<1>3. QED  BY <1>1, <1>2

\* A file is put in a directory.
LEMMA PutOnDisk ==
  ASSUME AllOK, NEW d \in DirIds, NEW m \in Names, NEW f, Put(d, m, f), UNCHANGED <<world, dir, sec>>, NEW n \in Kinds
  PROVE  /\ Dir(n)' = Dir(n) /\ Quiet(n)' = Quiet(n) /\ Windows' = Windows
         /\ m = n /\ d = Dir(n) => OnDisk(n)' = f
         /\ m # n \/ d # Dir(n) => OnDisk(n)' = OnDisk(n)
<1>f. /\ n \in Names /\ (Dir(n) # 0 => Dir(n) \in DirIds)
  BY KindFacts
<1>0. 0 \notin DirIds /\ files \in [DirIds -> [Names -> File]]
  BY BoundsAssumption DEF DirIds, AllOK, FsOK
<1>1. Dir(n)' = Dir(n)
  BY DEF Dir, PathOf
<1>2. m = n /\ d = Dir(n) => OnDisk(n)' = f
  BY <1>0, <1>1, <1>f DEF OnDisk, FileAt, Put
<1>3. m # n \/ d # Dir(n) => OnDisk(n)' = OnDisk(n)
  BY <1>0, <1>1, <1>f DEF OnDisk, FileAt, Put
<1>4. QED  BY <1>1, <1>2, <1>3, QuietSame

LEMMA TurnElse ==
  ASSUME NEW n, NEW t, UNCHANGED <<world, dir, sec>>, withdrawn \subseteq withdrawn', OnDisk(n)' = OnDisk(n)
  PROVE  Turn(t, n) /\ Quiet(n)' = Quiet(n) /\ Dir(n)' = Dir(n)
<1>1. Dir(n)' = Dir(n)
  BY DEF Dir, PathOf
<1>2. QED  BY <1>1, QuietSame DEF Turn

\* A process that ends has seen nothing, and has what it had or what it ends with.
LEMMA SeesNothing ==
  ASSUME NEW p \in Procs, NEW n,
         \/ pc'[p] \notin {"opendir", "create", "write", "unlink", "chmod", "reading", "stat", "read"}
         \/ FileOf(task'[p]) # n
  PROVE  Sees(p, n)'
  BY DEF Sees, FileOf

LEMMA EndsDisk ==
  ASSUME AllOK, DiskInv, NEW p \in Procs, NEW t, \A n \in Kinds : Turn(t, n),
         \/ Fail(p)
         \/ \E tok \in Nat : /\ Finish(p, tok)
                             /\ \A n \in Kinds : task[p] = n /\ Quiet(n)' =>
                                  /\ OnDisk(n)'.whole /\ OnDisk(n)'.tok = tok
                                  /\ n = "secret" => OwnerOnlyFile(OnDisk(n)')
  PROVE  Where(p)' /\ \A n \in Kinds : Sees(p, n)' /\ Holds(p, n)'
<1>1. pc'[p] \in {"failed", "done", "up", "begin"}
  BY EndsCreating
<1>2. Where(p)' /\ \A n \in Kinds : Sees(p, n)'
  BY <1>1, SeesNothing DEF Where
<1>3. ASSUME NEW n \in Kinds PROVE Holds(p, n)'
  <2>1. CASE Fail(p)
    <3>1. got'[p][n] = 0
      BY <2>1 DEF Fail, AllOK, ProcOK, Kinds
    <3>2. QED  BY <3>1 DEF Holds
  <2>2. ASSUME NEW tok \in Nat, Finish(p, tok), task[p] = n,
               Quiet(n)' => OnDisk(n)'.whole /\ OnDisk(n)'.tok = tok /\ (n = "secret" => OwnerOnlyFile(OnDisk(n)'))
        PROVE  Holds(p, n)'
    <3>1. got'[p][n] = tok
      BY <2>2 DEF Finish, AllOK, ProcOK, Kinds
    <3>2. OwnerOnlyFile(OnDisk(n)') = OwnerOnlyFile(OnDisk(n))'
      BY DEF OwnerOnlyFile
    <3>3. QED  BY <2>2, <3>1, <3>2 DEF Holds
  <2>3. ASSUME NEW tok \in Nat, Finish(p, tok), task[p] # n PROVE Holds(p, n)'
    <3>1. got'[p][n] = got[p][n]
      BY <2>3 DEF Finish, AllOK, ProcOK, Kinds
    <3>2. QED  BY <3>1, HoldsStands DEF DiskInv
  <2>4. QED  BY <2>1, <2>2, <2>3 DEF Kinds
<1>4. QED  BY <1>2, <1>3

\* A process goes on, or ends.
LEMMA GoesOnDisk ==
  ASSUME AllOK, DiskInv, KeyInv, NEW p \in Procs, Others(p), NEW t \in {0, mine[p]}, \A n \in Kinds : Turn(t, n),
         got'[p] = got[p], Where(p)', \A n \in Kinds : FileOf(task'[p]) = n => Sees(p, n)'
  PROVE  DiskInv'
<1>1. ASSUME NEW n \in Kinds PROVE Sees(p, n)' /\ Holds(p, n)'
  <2>1. Holds(p, n)'
    BY HoldsStands DEF DiskInv
  <2>2. Sees(p, n)'
    BY SeesNothing
  <2>3. QED  BY <2>1, <2>2
<1>2. QED  BY <1>1, DiskMoves

LEMMA EndsWellDisk ==
  ASSUME AllOK, DiskInv, KeyInv, NEW p \in Procs, Others(p), NEW t \in {0, mine[p]}, \A n \in Kinds : Turn(t, n),
         \/ Fail(p)
         \/ \E tok \in Nat : /\ Finish(p, tok)
                             /\ \A n \in Kinds : task[p] = n /\ Quiet(n)' =>
                                  /\ OnDisk(n)'.whole /\ OnDisk(n)'.tok = tok
                                  /\ n = "secret" => OwnerOnlyFile(OnDisk(n)')
  PROVE  DiskInv'
<1>1. Where(p)' /\ \A n \in Kinds : Sees(p, n)' /\ Holds(p, n)'
  BY EndsDisk
<1>2. QED  BY <1>1, DiskMoves

\* The steps of the secret.
LEMMA SecretStepDisk ==
  ASSUME AllOK, DiskInv, KeyInv, NEW p \in Procs, SecretStep(p)
  PROVE  DiskInv'
<1>o. Others(p) /\ task[p] = "secret"
  BY OthersSecret
     DEF SecretStep, SecretExists, AssertOwnerOnly, SecretRead, SecretMkdir, SecretChmod, EnsureDir, CreateDir,
         OpenDir, AtSecret
<1>f. /\ "secret" \in Kinds /\ FileOf("secret") = "secret" /\ "secret" \in Names
      /\ OnDisk("secret") = FileAt(Dir("secret"), "secret") /\ OnDisk("secret") \in File
      /\ Dir("secret") = dir["priv"] /\ "priv" \in Paths
      /\ Dir("secret") # 0 => Dir("secret") \in DirIds
      /\ OnDisk("secret").tok # 0 => Dir("secret") # 0
  BY KindFacts DEF Kinds, FileOf, OnDisk, Names, Dir, PathOf, Paths
<1>s. Sees(p, "secret") /\ Where(p)
  BY <1>f DEF DiskInv
<1>k. ASSUME UNCHANGED <<world, fsVars>>
      PROVE  /\ \A n \in Kinds : Turn(0, n) /\ OnDisk(n)' = OnDisk(n) /\ Dir(n)' = Dir(n) /\ Quiet(n)' = Quiet(n)
             /\ Windows' = Windows
  BY <1>k, TurnSame DEF Windows
<1>m. ASSUME NEW s, Step(p, s) PROVE pc'[p] = s
  BY <1>m DEF Step, AllOK, ProcOK
<1>g. ASSUME UNCHANGED <<world, fsVars, task, got>>, Where(p)', Sees(p, "secret")' PROVE DiskInv'
  BY <1>g, <1>o, <1>f, <1>k, GoesOnDisk
<1>e. ASSUME UNCHANGED <<world, fsVars>>, Fail(p) PROVE DiskInv'
  BY <1>e, <1>o, <1>k, EndsWellDisk
<1>1. CASE SecretExists(p)
  <2>1. /\ pc'[p] = "ensure" \/ (pc'[p] = "stat" /\ OnDisk("secret").tok # 0)
        /\ UNCHANGED <<world, fsVars, task, got>> /\ ~Windows
    BY <1>1, <1>f, <1>m DEF SecretExists
  <2>2. Where(p)' /\ Sees(p, "secret")'
    BY <1>o, <1>f, <1>k, <2>1 DEF Where, Sees
  <2>3. QED  BY <1>g, <2>1, <2>2
<1>2. CASE AssertOwnerOnly(p)
  <2>1. CASE Step(p, "read") /\ OwnerOnlyFile(OnDisk("secret")) /\ UNCHANGED <<world, fsVars, task, got>>
    <3>1. pc'[p] = "read" /\ pc[p] = "stat" /\ task'[p] = "secret"
      BY <1>2, <1>o, <1>m, <2>1 DEF AssertOwnerOnly, AtSecret
    <3>2. Where(p)' /\ Sees(p, "secret")'
      BY <1>o, <1>f, <1>k, <1>s, <2>1, <3>1 DEF Where, Sees, OwnerOnlyFile
    <3>3. QED  BY <1>g, <2>1, <3>2
  <2>2. QED  BY <1>2, <1>e, <1>f, <2>1 DEF AssertOwnerOnly
<1>3. CASE SecretRead(p)
  <2>1. UNCHANGED <<world, fsVars>>
    BY <1>3 DEF SecretRead
  <2>2. CASE OnDisk("secret").whole /\ Finish(p, OnDisk("secret").tok)
    <3>1. Quiet("secret") => OwnerOnlyFile(OnDisk("secret"))
      BY <1>3, <1>o, <1>f, <1>s DEF SecretRead, AtSecret, Sees
    <3>2. OnDisk("secret").tok \in Nat
      BY <1>f DEF File
    <3>3. \A n \in Kinds : task[p] = n /\ Quiet(n)' =>
            /\ OnDisk(n)'.whole /\ OnDisk(n)'.tok = OnDisk("secret").tok
            /\ n = "secret" => OwnerOnlyFile(OnDisk(n)')
      BY <1>o, <1>k, <2>1, <2>2, <3>1
    <3>4. QED  BY <1>o, <1>k, <2>1, <2>2, <3>2, <3>3, EndsWellDisk
  <2>3. QED  BY <1>3, <1>e, <1>f, <2>1, <2>2 DEF SecretRead
<1>4. CASE SecretMkdir(p) \/ CreateDir(p)
  <2>1. \A n \in Kinds : Turn(0, n)
    <3>1. CASE UNCHANGED <<world, fsVars>>
      BY <1>k, <3>1
    <3>2. ASSUME NEW s \in SecType, NewDir("priv", s), Dir("secret") = 0, UNCHANGED <<world, files, withdrawn>>
          PROVE  \A n \in Kinds : Turn(0, n)
      BY <1>f, <3>2, TurnNew
    <3>3. MadeOwnerOnly \in SecType /\ (~Windows => MadeByUmask \in SecType)
      BY MadeTypes DEF AllOK, FsOK
    <3>4. QED  BY <1>4, <3>1, <3>2, <3>3 DEF SecretMkdir, CreateDir
  <2>2. /\ UNCHANGED <<world, task, got>> /\ Windows' = Windows
        /\ pc'[p] = "opendir" \/ (pc'[p] = "create" /\ ~Windows)
    BY <1>4, <1>m DEF SecretMkdir, CreateDir, Windows
  <2>3. Where(p)' /\ Sees(p, "secret")'
    BY <1>o, <1>f, <2>2 DEF Where, Sees
  <2>4. QED  BY <1>o, <1>f, <2>1, <2>2, <2>3, GoesOnDisk
<1>5. CASE SecretChmod(p)
  <2>1. CASE FileAt(Dir("secret"), "secret").tok # 0 /\ Finish(p, mine[p])
               /\ Put(Dir("secret"), "secret", [FileAt(Dir("secret"), "secret") EXCEPT !.private = TRUE])
    <3> DEFINE f == [OnDisk("secret") EXCEPT !.private = TRUE]
    <3>1. /\ Put(Dir("secret"), "secret", f) /\ UNCHANGED <<world, dir, sec, withdrawn>> /\ Dir("secret") \in DirIds
          /\ f.tok = OnDisk("secret").tok /\ f.mine = OnDisk("secret").mine /\ f.whole = OnDisk("secret").whole
          /\ f.private
      BY <1>5, <1>f, <2>1 DEF SecretChmod, File
    <3>2. /\ OnDisk("secret")' = f /\ Quiet("secret")' = Quiet("secret") /\ Dir("secret")' = Dir("secret")
          /\ \A n \in Kinds \ {"secret"} : OnDisk(n)' = OnDisk(n)
      BY <1>f, <3>1, PutOnDisk
    <3>3. ASSUME NEW n \in Kinds PROVE Turn(0, n)
      <4>1. CASE n = "secret"
        BY <3>1, <3>2, <4>1 DEF Turn
      <4>2. CASE n # "secret"
        BY <3>1, <3>2, <4>2, TurnElse
      <4>3. QED  BY <4>1, <4>2
    <3>4. Quiet("secret") => OnDisk("secret").tok = mine[p] /\ OnDisk("secret").mine /\ OnDisk("secret").whole
      BY <1>5, <1>o, <1>f, <1>s DEF SecretChmod, AtSecret, Sees
    <3>5. mine[p] \in Nat
      BY DirIdFacts
    <3>6. \A n \in Kinds : task[p] = n /\ Quiet(n)' =>
            /\ OnDisk(n)'.whole /\ OnDisk(n)'.tok = mine[p]
            /\ n = "secret" => OwnerOnlyFile(OnDisk(n)')
      BY <1>o, <3>1, <3>2, <3>4 DEF OwnerOnlyFile
    <3>7. QED  BY <1>o, <2>1, <3>3, <3>5, <3>6, EndsWellDisk
  <2>2. CASE Fail(p) /\ UNCHANGED files
    BY <1>5, <1>e, <2>2 DEF SecretChmod, fsVars
  <2>3. QED  BY <1>5, <2>1, <2>2 DEF SecretChmod
<1>6. CASE EnsureDir(p) \/ OpenDir(p)
  <2>1. UNCHANGED <<world, fsVars>>
    BY <1>6 DEF EnsureDir, OpenDir
  <2>2. CASE Step(p, "create") /\ Dir("secret") # 0 /\ At(p, Dir("secret")) /\ UNCHANGED <<task, got>>
    <3>1. pc'[p] = "create" /\ at'[p] = Dir("secret")
      BY <1>m, <2>2 DEF At, AllOK, AtOK
    <3>2. Where(p)' /\ Sees(p, "secret")'
      BY <1>o, <1>f, <1>k, <2>1, <2>2, <3>1 DEF Where, Sees
    <3>3. QED  BY <1>g, <2>1, <2>2, <3>2
  <2>3. CASE Step(p, "mkdir") /\ UNCHANGED <<task, got>>
    <3>1. pc'[p] = "mkdir"
      BY <1>m, <2>3
    <3>2. Where(p)' /\ Sees(p, "secret")'
      BY <3>1, SeesNothing DEF Where
    <3>3. QED  BY <1>g, <2>1, <2>3, <3>2
  <2>4. QED  BY <1>6, <1>e, <2>1, <2>2, <2>3 DEF EnsureDir, OpenDir
<1>7. QED  BY <1>1, <1>2, <1>3, <1>4, <1>5, <1>6 DEF SecretStep

\* The steps of the key and of the state.
LEMMA KeyStepDisk ==
  ASSUME AllOK, DiskInv, KeyInv, NEW p \in Procs, KeyStep(p)
  PROVE  DiskInv'
<1>o. Others(p) /\ UNCHANGED <<world, fsVars>>
  BY OthersKey
     DEF KeyStep, KeyLstat, KeyOpen, ProvisionLstat, OpenOwnerOnlyDir, ProvisionOpenDir, CheckStateDir, LoadWatermark
<1>f. /\ "key" \in Kinds /\ FileOf("key") = "key" /\ FileOf("provision") = "key" /\ FileOf("state") = "state"
      /\ OnDisk("key") = FileAt(Dir("key"), "key") /\ OnDisk("key") \in File /\ "state" \notin Kinds
  BY KindFacts DEF Kinds, FileOf, OnDisk
<1>s. Sees(p, "key") /\ Provides(p)
  BY <1>f DEF DiskInv, KeyInv
<1>k. /\ \A n \in Kinds : Turn(0, n) /\ OnDisk(n)' = OnDisk(n) /\ Dir(n)' = Dir(n) /\ Quiet(n)' = Quiet(n)
      /\ Windows' = Windows
  BY <1>o, TurnSame DEF Windows
<1>m. ASSUME NEW s, Step(p, s) PROVE pc'[p] = s
  BY <1>m DEF Step, AllOK, ProcOK
<1>g. ASSUME UNCHANGED <<task, got>>, task[p] \in {"key", "provision"}, Where(p)', Sees(p, "key")' PROVE DiskInv'
  BY <1>g, <1>o, <1>f, <1>k, GoesOnDisk
<1>q. ASSUME NEW s \in {"open"}, Step(p, s), UNCHANGED <<task, got>> PROVE DiskInv'
  <2>1. pc'[p] = "open"
    BY <1>m, <1>q
  <2>2. Where(p)' /\ \A n \in Kinds : Sees(p, n)'
    BY <2>1, SeesNothing DEF Where
  <2>3. QED  BY <1>q, <1>o, <1>k, <2>2, GoesOnDisk
<1>e. ASSUME Fail(p) PROVE DiskInv'
  BY <1>e, <1>o, <1>k, EndsWellDisk
<1>1. CASE KeyLstat(p)
  BY <1>1, <1>e, <1>q DEF KeyLstat
<1>2. CASE KeyOpen(p)
  <2>1. CASE OnDisk("key").whole /\ Finish(p, OnDisk("key").tok)
    <3>1. OnDisk("key").tok \in Nat /\ task[p] = "key"
      BY <1>2, <1>f DEF File, KeyOpen
    <3>2. \A n \in Kinds : task[p] = n /\ Quiet(n)' =>
            /\ OnDisk(n)'.whole /\ OnDisk(n)'.tok = OnDisk("key").tok
            /\ n = "secret" => OwnerOnlyFile(OnDisk(n)')
      BY <1>k, <2>1, <3>1
    <3>3. QED  BY <1>o, <1>k, <2>1, <3>1, <3>2, EndsWellDisk
  <2>2. QED  BY <1>2, <1>e, <1>f, <2>1 DEF KeyOpen
<1>3. CASE ProvisionLstat(p) \/ OpenOwnerOnlyDir(p) \/ ProvisionOpenDir(p)
  <2>1. task[p] = "provision"
    BY <1>3, <1>o DEF ProvisionLstat, OpenOwnerOnlyDir, ProvisionOpenDir
  <2>2. CASE /\ Step(p, "opendir") \/ Step(p, "create")
             /\ at'[p] = Dir("key") /\ at'[p] # 0 /\ UNCHANGED <<task, got>>
    <3>1. pc'[p] \in {"opendir", "create"}
      BY <1>m, <2>2
    <3>2. Where(p)' /\ Sees(p, "key")'
      BY <1>f, <1>k, <2>1, <2>2, <3>1 DEF Where, Sees
    <3>3. QED  BY <1>g, <2>1, <2>2, <3>2
  <2>3. ASSUME At(p, Dir("key")) PROVE at'[p] = Dir("key")
    BY <2>3 DEF At, AllOK, AtOK
  <2>4. CASE ProvisionLstat(p)
    BY <1>e, <2>2, <2>3, <2>4 DEF ProvisionLstat
  <2>5. CASE OpenOwnerOnlyDir(p)
    <3>1. at[p] # 0
      BY <1>s, <2>5 DEF OpenOwnerOnlyDir, Provides
    <3>2. QED  BY <1>e, <2>2, <2>5, <3>1 DEF OpenOwnerOnlyDir
  <2>6. CASE ProvisionOpenDir(p)
    BY <1>e, <2>2, <2>3, <2>6 DEF ProvisionOpenDir
  <2>7. QED  BY <1>3, <2>4, <2>5, <2>6
<1>4. CASE CheckStateDir(p) \/ LoadWatermark(p)
  <2>1. task[p] = "state"
    BY <1>4 DEF CheckStateDir, LoadWatermark
  <2>2. CASE Finish(p, 0)
    <3>1. \A n \in Kinds : task[p] # n
      BY <1>f, <2>1
    <3>2. QED  BY <1>o, <1>k, <2>2, <3>1, EndsWellDisk
  <2>3. CASE CheckStateDir(p)
    BY <1>e, <1>q, <2>2, <2>3 DEF CheckStateDir, FirstStart
  <2>4. CASE LoadWatermark(p)
    BY <1>e, <2>2, <2>4 DEF LoadWatermark, FirstStart
  <2>5. QED  BY <1>4, <2>3, <2>4
<1>5. QED  BY <1>1, <1>2, <1>3, <1>4 DEF KeyStep

\* A file is opened, read, created, written or taken back.
LEMMA FileStepDisk ==
  ASSUME AllOK, AllCreating, DiskInv, KeyInv, NEW p \in Procs,
         OpenForRead(p) \/ ReadOpened(p) \/ Create(p) \/ Write(p) \/ Unlink(p)
  PROVE  DiskInv'
<1>o. Others(p)
  BY OthersFile
<1>t. Creating(p) /\ Where(p) /\ FileOf("secret") = "secret" /\ FileOf("provision") = "key" /\ FileOf("key") = "key"
  BY DEF AllCreating, DiskInv, FileOf
<1>y. pc[p] \in {"begin", "create", "write", "unlink", "reading"} /\ task[p] \in {"secret", "key", "provision"}
  BY <1>t DEF OpenForRead, ReadOpened, Create, Write, Unlink, Creating
<1>p. PICK n : n = FileOf(task[p])
  OBVIOUS
<1>f. /\ n \in Kinds /\ n \in Names /\ OnDisk(n) = FileAt(Dir(n), n) /\ OnDisk(n) \in File
      /\ Dir(n) # 0 => Dir(n) \in DirIds
      /\ OnDisk(n).tok # 0 => Dir(n) # 0 /\ OnDisk(n) = files[Dir(n)][n]
  <2>1. n \in Kinds
    BY <1>p, <1>t, <1>y DEF Kinds
  <2>2. QED  BY <2>1, KindFacts DEF OnDisk
<1>d. /\ drawn \in Nat /\ mine[p] \in Nat /\ (at[p] # 0 => at[p] \in DirIds /\ at[p] \in 1 .. dirs)
      /\ files \in [DirIds -> [Names -> File]] /\ 0 \notin DirIds /\ mine[p] <= drawn
  BY DirIdFacts, BoundsAssumption DEF DirIds, KeyInv, Provides
<1>s. Sees(p, n)
  BY <1>f DEF DiskInv
<1>k. ASSUME UNCHANGED <<world, fsVars>>
      PROVE  /\ \A m \in Kinds : Turn(0, m) /\ OnDisk(m)' = OnDisk(m) /\ Dir(m)' = Dir(m) /\ Quiet(m)' = Quiet(m)
             /\ Windows' = Windows
  BY <1>k, TurnSame DEF Windows
<1>m. ASSUME NEW s, Step(p, s) PROVE pc'[p] = s
  BY <1>m DEF Step, AllOK, ProcOK
<1>g. ASSUME NEW u \in {0, mine[p]}, \A m \in Kinds : Turn(u, m), UNCHANGED <<task, got>>, Where(p)', Sees(p, n)'
      PROVE  DiskInv'
  BY <1>g, <1>o, <1>p, GoesOnDisk
<1>e. ASSUME NEW u \in {0, mine[p]}, \A m \in Kinds : Turn(u, m), Fail(p) PROVE DiskInv'
  BY <1>e, <1>o, EndsWellDisk
<1>1. CASE OpenForRead(p)
  <2>1. UNCHANGED <<world, fsVars>> /\ Windows
    BY <1>1 DEF OpenForRead
  <2>2. CASE Step(p, "ensure") /\ UNCHANGED <<task, got>>
    <3>1. pc'[p] = "ensure"
      BY <1>m, <2>2
    <3>2. Where(p)' /\ Sees(p, n)'
      BY <3>1, SeesNothing DEF Where
    <3>3. QED  BY <1>g, <1>k, <2>1, <2>2, <3>2
  <2>3. CASE /\ Step(p, "reading") /\ At(p, Dir(n)) /\ UNCHANGED <<task, got>>
             /\ OnDisk(n).tok # 0 /\ OwnerOnlyFile(OnDisk(n))
    <3>1. pc'[p] = "reading" /\ at'[p] = Dir(n) /\ Dir(n) # 0
      BY <1>f, <1>m, <2>3 DEF At, AllOK, AtOK
    <3>2. Where(p)' /\ Sees(p, n)'
      BY <1>f, <1>k, <2>1, <2>3, <3>1 DEF Where, Sees, OwnerOnlyFile
    <3>3. QED  BY <1>g, <1>k, <2>1, <2>3, <3>2
  <2>4. QED  BY <1>1, <1>e, <1>f, <1>k, <1>p, <2>1, <2>2, <2>3 DEF OpenForRead
<1>2. CASE ReadOpened(p)
  <2>1. UNCHANGED <<world, fsVars>> /\ at[p] # 0 /\ task[p] = n /\ pc[p] = "reading"
    BY <1>2, <1>p, <1>t DEF ReadOpened, Creating
  <2>2. CASE files[at[p]][n].whole /\ Finish(p, files[at[p]][n].tok)
    <3>1. Quiet(n) => OnDisk(n) = files[at[p]][n] /\ OwnerOnlyFile(OnDisk(n))
      BY <1>f, <1>p, <1>s, <2>1 DEF Sees
    <3>2. files[at[p]][n].tok \in Nat
      BY <1>d, <1>f, <2>1 DEF File
    <3>3. \A m \in Kinds : task[p] = m /\ Quiet(m)' =>
            /\ OnDisk(m)'.whole /\ OnDisk(m)'.tok = files[at[p]][n].tok
            /\ m = "secret" => OwnerOnlyFile(OnDisk(m)')
      BY <1>k, <2>1, <2>2, <3>1
    <3>4. QED  BY <1>o, <1>k, <2>1, <2>2, <3>2, <3>3, EndsWellDisk
  <2>3. QED  BY <1>2, <1>e, <1>k, <1>p, <2>1, <2>2 DEF ReadOpened
<1>3. CASE Create(p)
  <2> DEFINE d == IF ByPath(p) THEN Dir(n) ELSE at[p]
             f == [tok |-> drawn + 1, whole |-> FALSE, mine |-> TRUE, private |-> ~ByPath(p) \/ world.umask = {}]
  <2>1. pc[p] = "create" /\ task[p] \in {"secret", "provision"}
    BY <1>3, <1>t DEF Create, Creating
  <2>2. CASE UNCHANGED <<world, fsVars>> /\ (Fail(p) \/ (Step(p, "begin") /\ UNCHANGED <<task, got>>))
    <3>1. CASE Step(p, "begin") /\ UNCHANGED <<task, got>>
      <4>1. pc'[p] = "begin"
        BY <1>m, <3>1
      <4>2. Where(p)' /\ Sees(p, n)'
        BY <4>1, SeesNothing DEF Where
      <4>3. QED  BY <1>g, <1>k, <2>2, <3>1, <4>2
    <3>2. QED  BY <1>e, <1>k, <2>2, <3>1
  <2>3. CASE /\ d # 0 /\ files[d][n].tok = 0 /\ Put(d, n, f) /\ mine' = [mine EXCEPT ![p] = drawn + 1]
             /\ At(p, d) /\ Step(p, "write") /\ UNCHANGED <<world, dir, dirs, sec, withdrawn, task, got>>
    <3>1. PICK c : c = d
      OBVIOUS
    <3>2. c \in DirIds /\ Put(c, n, f) /\ at'[p] = c /\ c # 0 /\ pc'[p] = "write" /\ mine'[p] = drawn + 1
          /\ files[c][n].tok = 0 /\ drawn + 1 # 0
      BY <1>d, <1>f, <1>m, <2>3, <3>1 DEF At, AllOK, AtOK, ProcOK
    <3>3. ASSUME NEW m \in Kinds
          PROVE  /\ Dir(m)' = Dir(m) /\ Quiet(m)' = Quiet(m) /\ Windows' = Windows
                 /\ n = m /\ c = Dir(m) => OnDisk(m)' = f
                 /\ n # m \/ c # Dir(m) => OnDisk(m)' = OnDisk(m)
      BY <1>f, <2>3, <3>2, PutOnDisk
    <3>4. ASSUME NEW m \in Kinds PROVE Turn(0, m)
      <4>1. m = n /\ c = Dir(m) => OnDisk(m).tok = 0
        BY <1>f, <3>2
      <4>2. QED  BY <2>3, <3>3, <4>1 DEF Turn
    <3>5. Quiet(n) => c = Dir(n)
      BY <1>f, <1>p, <1>s, <2>1, <3>1 DEF Sees, ByPath
    <3>6. Windows => ~ByPath(p)
      BY DEF ByPath
    <3>7. Sees(p, n)'
      <4>1. Quiet(n)' => OnDisk(n)' = f /\ Dir(n)' = c
        BY <1>f, <3>3, <3>5
      <4>2. f.tok = drawn + 1 /\ f.mine /\ ~f.whole /\ (Windows => f.private)
        BY <3>6
      <4>3. QED  BY <1>f, <3>2, <3>3, <4>1, <4>2 DEF Sees
    <3>8. Where(p)'
      BY <3>2 DEF Where
    <3>9. QED  BY <1>g, <2>3, <3>4, <3>7, <3>8
  <2>4. QED  BY <1>3, <1>p, <2>2, <2>3 DEF Create
<1>4. CASE Write(p)
  <2>1. /\ pc[p] = "write" /\ task[p] \in {"secret", "provision"} /\ at[p] # 0
        /\ UNCHANGED <<world, dir, dirs, sec, withdrawn>>
    BY <1>4, <1>t DEF Write, Creating
  <2>2. PICK c : c = at[p]
    OBVIOUS
  <2>3. Quiet(n) => /\ c = Dir(n) /\ OnDisk(n).tok = mine[p] /\ mine[p] # 0 /\ OnDisk(n).mine /\ ~OnDisk(n).whole
                    /\ Windows => OnDisk(n).private
                    /\ OnDisk(n) = files[c][n]
    BY <1>f, <1>p, <1>s, <2>1, <2>2 DEF Sees
  <2>4. ASSUME NEW whole \in BOOLEAN, Written(p, whole)
        PROVE  /\ \A m \in Kinds : Turn(mine[p], m)
               /\ Dir(n)' = Dir(n) /\ Quiet(n)' = Quiet(n) /\ Windows' = Windows
               /\ Quiet(n) => /\ OnDisk(n)'.whole = whole /\ OnDisk(n)'.tok = mine[p] /\ OnDisk(n)'.mine
                              /\ OnDisk(n)'.private = OnDisk(n).private
    <3> DEFINE f == [files[c][n] EXCEPT !.whole = whole]
    <3>1. CASE files[c][n].tok = mine[p] /\ Put(c, n, f)
      <4>1. c \in DirIds /\ files[c][n] \in File
        BY <1>d, <1>f, <2>1, <2>2
      <4>2. /\ f.tok = files[c][n].tok /\ f.mine = files[c][n].mine /\ f.private = files[c][n].private
            /\ f.whole = whole
        BY <4>1 DEF File
      <4>3. ASSUME NEW m \in Kinds
            PROVE  /\ Dir(m)' = Dir(m) /\ Quiet(m)' = Quiet(m) /\ Windows' = Windows
                   /\ n = m /\ c = Dir(m) => OnDisk(m)' = f
                   /\ n # m \/ c # Dir(m) => OnDisk(m)' = OnDisk(m)
        BY <1>f, <2>1, <3>1, <4>1, PutOnDisk
      <4>4. ASSUME NEW m \in Kinds PROVE Turn(mine[p], m)
        <5>1. CASE n = m /\ c = Dir(m)
          BY <1>f, <2>1, <2>3, <4>2, <4>3, <5>1 DEF Turn
        <5>2. CASE ~(n = m /\ c = Dir(m))
          BY <2>1, <4>3, <5>2, TurnElse
        <5>3. QED  BY <5>1, <5>2
      <4>5. QED  BY <1>f, <2>3, <4>2, <4>3, <4>4
    <3>2. CASE UNCHANGED files /\ files[c][n].tok # mine[p]
      <4>1. ASSUME NEW m \in Kinds PROVE OnDisk(m)' = OnDisk(m) /\ Turn(mine[p], m)
        <5>1. OnDisk(m)' = OnDisk(m)
          BY <2>1, <3>2 DEF OnDisk, FileAt, Dir, PathOf
        <5>2. QED  BY <2>1, <5>1, TurnElse
      <4>2. ~Quiet(n)
        BY <2>3, <3>2
      <4>3. Dir(n)' = Dir(n) /\ Quiet(n)' = Quiet(n) /\ Windows' = Windows
        <5>1. OnDisk(n)' = OnDisk(n)
          BY <1>f, <4>1
        <5>2. QED  BY <2>1, <5>1, TurnElse DEF Windows
      <4>4. QED  BY <4>1, <4>2, <4>3
    <3>3. QED  BY <1>p, <2>2, <2>4, <3>1, <3>2 DEF Written
  <2>5. CASE Written(p, TRUE) /\ ByPath(p) /\ Step(p, "chmod") /\ UNCHANGED <<task, at, mine, got, starts>>
    <3>1. pc'[p] = "chmod" /\ at'[p] = c /\ ~Windows
      BY <1>m, <2>2, <2>5 DEF ByPath
    <3>2. Where(p)' /\ Sees(p, n)'
      BY <2>1, <2>2, <2>3, <2>4, <2>5, <3>1 DEF Where, Sees
    <3>3. QED  BY <1>g, <2>4, <2>5, <3>2
  <2>6. CASE Written(p, TRUE) /\ ~ByPath(p) /\ Finish(p, mine[p])
    <3>1. \A m \in Kinds : task[p] = m /\ Quiet(m)' =>
            /\ OnDisk(m)'.whole /\ OnDisk(m)'.tok = mine[p]
            /\ m = "secret" => OwnerOnlyFile(OnDisk(m)')
      <4>1. ASSUME NEW m \in Kinds, task[p] = m PROVE m = n /\ Windows
        BY <1>p, <1>t, <2>1, <2>6, <4>1 DEF ByPath, Kinds
      <4>2. QED  BY <2>3, <2>4, <2>6, <4>1 DEF OwnerOnlyFile
    <3>2. QED  BY <1>o, <1>d, <2>4, <2>6, <3>1, EndsWellDisk
  <2>7. CASE Fail(p)
    BY <1>4, <1>e, <2>4, <2>7 DEF Write
  <2>8. ASSUME NEW whole \in BOOLEAN, Written(p, whole), whole => task[p] = "provision", ~ByPath(p),
               Step(p, "unlink"), UNCHANGED <<task, at, mine, got, starts>>
        PROVE  DiskInv'
    <3>1. pc'[p] = "unlink" /\ at'[p] = c
      BY <1>m, <2>2, <2>8
    <3>2. task[p] = "secret" => Windows
      BY <2>8 DEF ByPath
    <3>3. n = "secret" => task[p] = "secret"
      BY <1>p, <1>t, <2>1
    <3>4. Where(p)'
      BY <2>4, <2>8, <3>1, <3>2 DEF Where
    <3>5. Sees(p, n)'
      BY <2>1, <2>2, <2>3, <2>4, <2>8, <3>1, <3>3 DEF Sees
    <3>6. QED  BY <1>g, <2>4, <2>8, <3>4, <3>5
  <2>9. QED  BY <1>4, <2>5, <2>6, <2>7, <2>8 DEF Write
<1>5. CASE Unlink(p)
  <2>1. /\ pc[p] = "unlink" /\ task[p] \in {"secret", "provision"} /\ at[p] # 0 /\ Fail(p)
        /\ UNCHANGED <<world, dir, dirs, sec>>
    BY <1>5, <1>t DEF Unlink, Creating
  <2>2. PICK c : c = at[p]
    OBVIOUS
  <2>3. Quiet(n) => /\ c = Dir(n) /\ OnDisk(n).tok = mine[p] /\ OnDisk(n) = files[c][n]
                    /\ n = "secret" => ~OnDisk(n).whole /\ Windows
    BY <1>f, <1>p, <1>s, <1>t, <2>1, <2>2 DEF Sees, Where
  <2>4. CASE UNCHANGED <<files, withdrawn>>
    <3>1. ASSUME NEW m \in Kinds PROVE Turn(0, m)
      <4>1. OnDisk(m)' = OnDisk(m)
        BY <2>1, <2>4 DEF OnDisk, FileAt, Dir, PathOf
      <4>2. QED  BY <2>1, <2>4, <4>1, TurnElse
    <3>2. QED  BY <1>e, <2>1, <3>1
  <2>5. CASE /\ Put(c, n, Absent) /\ withdrawn' = withdrawn \cup {files[c][n].tok}
             /\ ~(Windows /\ Reading(c, n))
    <3>1. ASSUME NEW m \in Kinds PROVE Turn(mine[p], m)
      <4>1. c \in DirIds
        BY <1>d, <2>1, <2>2
      <4>2. /\ Dir(m)' = Dir(m) /\ Quiet(m)' = Quiet(m)
            /\ n # m \/ c # Dir(m) => OnDisk(m)' = OnDisk(m)
        BY <1>f, <2>1, <2>5, <4>1, PutOnDisk
      <4>3. CASE n = m /\ c = Dir(m)
        BY <2>1, <2>3, <2>5, <4>2, <4>3 DEF Turn
      <4>4. CASE ~(n = m /\ c = Dir(m))
        BY <2>1, <2>5, <4>2, <4>4, TurnElse
      <4>5. QED  BY <4>3, <4>4
    <3>2. QED  BY <1>e, <2>1, <3>1
  <2>6. QED  BY <1>5, <1>p, <2>2, <2>4, <2>5 DEF Unlink
<1>6. QED  BY <1>1, <1>2, <1>3, <1>4, <1>5

\* What others do, what the gatekeeper records, and the rest.
LEMMA OthersDisk ==
  ASSUME AllOK, DiskInv, OthersStep
  PROVE  DiskInv'
<1>f. ASSUME NEW n \in Kinds
      PROVE  /\ n \in Names /\ PathOf(n) \in Paths /\ Dir(n) = dir[PathOf(n)] /\ PathOf(n)' = PathOf(n)
             /\ Dir(n) # 0 => Dir(n) \in DirIds /\ Dir(n) \in 1 .. dirs
             /\ OnDisk(n).tok # 0 => Dir(n) # 0
  <2>1. PathOf(n)' = PathOf(n)
    BY DEF OthersStep, MoveDirAway, PutDirThere, RemoveFile, PathOf
  <2>2. QED  BY <2>1, KindFacts
<1>d. dir \in [Paths -> 0 .. dirs] /\ UNCHANGED <<world, withdrawn, procVars>>
  BY DEF AllOK, FsOK, OthersStep, MoveDirAway, PutDirThere, RemoveFile
<1>u. ASSUME NEW n \in Kinds, OthersMayChange(world.above[PathOf(n)]) PROVE Turn(0, n)
  <2>1. ~Quiet(n)'
    BY <1>d, <1>f, <1>u DEF Quiet, Undisturbed, OthersMayChange, Windows
  <2>2. QED  BY <1>d, <2>1 DEF Turn
<1>1. ASSUME NEW path \in Paths, MoveDirAway(path) PROVE DiskInv'
  <2>1. UNCHANGED <<sec, files, withdrawn>> /\ dir' = [dir EXCEPT ![path] = 0] /\ OthersMayChange(world.above[path])
    BY <1>1 DEF MoveDirAway
  <2>2. ASSUME NEW n \in Kinds, PathOf(n) # path PROVE Turn(0, n)
    <3>1. Dir(n)' = Dir(n)
      BY <1>d, <1>f, <2>1, <2>2 DEF Dir
    <3>2. OnDisk(n)' = OnDisk(n)
      BY <2>1, <3>1 DEF OnDisk, FileAt
    <3>3. QED  BY <1>d, <2>1, <3>1, <3>2, QuietSame DEF Turn
  <2>3. QED  BY <1>d, <1>u, <2>1, <2>2, DiskElse
<1>2. ASSUME NEW path \in Paths, PutDirThere(path) PROVE DiskInv'
  <2>1. UNCHANGED <<files, withdrawn>> /\ dir[path] = 0 /\ OthersMayChange(world.above[path])
    BY <1>2 DEF PutDirThere
  <2>2. world.foreign \in SecType
    BY WorldFacts DEF AllOK, FsOK
  <2>3. CASE NewDir(path, world.foreign)
    BY <1>d, <2>1, <2>2, <2>3, TurnNew, DiskElse
  <2>4. CASE sec' = sec /\ \E d \in 1 .. dirs : dir' = [dir EXCEPT ![path] = d]
    <3>1. ASSUME NEW n \in Kinds, PathOf(n) # path PROVE Turn(0, n)
      <4>1. Dir(n)' = Dir(n)
        BY <1>d, <1>f, <2>4, <3>1 DEF Dir
      <4>2. OnDisk(n)' = OnDisk(n)
        BY <2>1, <4>1 DEF OnDisk, FileAt
      <4>3. QED  BY <1>d, <2>4, <4>1, <4>2, QuietSame DEF Turn
    <3>2. QED  BY <1>d, <1>u, <2>1, <3>1, DiskElse
  <2>5. QED  BY <1>2, <2>3, <2>4 DEF PutDirThere
<1>3. ASSUME NEW m \in Names, RemoveFile(m) PROVE DiskInv'
  <2>1. /\ UNCHANGED <<dir, sec, withdrawn>> /\ Put(Dir(m), m, Absent) /\ OthersMayChange(sec[Dir(m)])
        /\ Dir(m) \in DirIds /\ Dir(m) # 0
    BY <1>3, DirType DEF RemoveFile, AllOK
  <2>2. ASSUME NEW n \in Kinds PROVE Turn(0, n)
    <3>1. Dir(n)' = Dir(n) /\ Quiet(n)' = Quiet(n) /\ (m # n \/ Dir(m) # Dir(n) => OnDisk(n)' = OnDisk(n))
      BY <1>d, <2>1, PutOnDisk
    <3>2. m = n => ~Quiet(n)
      BY <1>f, <2>1 DEF Quiet, Undisturbed
    <3>3. QED  BY <1>d, <2>1, <3>1, <3>2 DEF Turn
  <2>3. QED  BY <1>d, <2>2, DiskElse
<1>4. QED  BY <1>1, <1>2, <1>3 DEF OthersStep

LEMMA RecordDisk ==
  ASSUME AllOK, DiskInv, NEW p \in Procs, Record(p)
  PROVE  DiskInv'
<1> DEFINE f == [tok |-> drawn + 1, whole |-> TRUE, private |-> TRUE, mine |-> TRUE]
<1>d. UNCHANGED <<world, withdrawn, procVars>> /\ "state" \in Names /\ "state" \notin Kinds
  BY DEF Record, Names, Kinds
<1>g. GP \in Paths /\ Dir("state") = dir[GP]
  BY GPFacts
<1>1. CASE Dir("state") = 0
  <2>1. NewDir(GP, MadeOwnerOnly) /\ MadeOwnerOnly \in SecType /\ files' = [files EXCEPT ![dirs + 1]["state"] = f]
    BY <1>1, MadeTypes DEF Record, GP, Put, AllOK, FsOK
  <2>2. ASSUME NEW e \in 1 .. dirs PROVE files'[e] = files[e]
    <3>1. e # dirs + 1 /\ e \in DirIds
      BY DirIdFacts
    <3>2. QED  BY <2>1, <3>1 DEF AllOK, FsOK
  <2>3. QED  BY <1>1, <1>d, <1>g, <2>1, <2>2, TurnNew, DiskElse
<1>2. CASE Dir("state") # 0
  <2>1. Dir("state") \in DirIds /\ Put(Dir("state"), "state", f) /\ UNCHANGED <<dir, sec>>
    BY <1>2, <1>d, DirType DEF Record, AllOK
  <2>2. ASSUME NEW n \in Kinds PROVE Turn(0, n)
    <3>1. OnDisk(n)' = OnDisk(n)
      BY <1>d, <2>1, PutOnDisk
    <3>2. QED  BY <1>d, <2>1, <3>1, TurnElse
  <2>3. QED  BY <1>d, <2>2, DiskElse
<1>3. QED  BY <1>1, <1>2

LEMMA StopDisk ==
  ASSUME AllOK, DiskInv, KeyInv, NEW p \in Procs, Stop(p)
  PROVE  DiskInv'
<1>1. UNCHANGED <<world, fsVars, task, at, mine, got>> /\ Step(p, "done")
  BY DEF Stop
<1>2. Others(p) /\ pc'[p] = "done"
  BY <1>1 DEF Others, Step, AllOK, ProcOK
<1>3. \A n \in Kinds : Turn(0, n) /\ Sees(p, n)'
  BY <1>1, <1>2, TurnSame, SeesNothing
<1>4. Where(p)'
  BY <1>2 DEF Where
<1>5. QED  BY <1>1, <1>2, <1>3, <1>4, GoesOnDisk

LEMMA StartDisk ==
  ASSUME AllOK, DiskInv, KeyInv, NEW p \in Procs, Start(p)
  PROVE  DiskInv'
<1>1. UNCHANGED <<world, fsVars, at, mine, got>> /\ pc'[p] \in {"failed", "begin"} /\ Others(p)
  BY DEF Start, Step, Others, AllOK, ProcOK
<1>2. \A n \in Kinds : Turn(0, n) /\ Sees(p, n)'
  BY <1>1, TurnSame, SeesNothing
<1>3. Where(p)'
  BY <1>1 DEF Where
<1>4. QED  BY <1>1, <1>2, <1>3, GoesOnDisk

LEMMA ProcStepDisk ==
  ASSUME AllOK, AllCreating, PortOK, AllDialed, DiskInv, KeyInv, NEW p \in Procs, ProcStep(p)
  PROVE  DiskInv'
<1>1. CASE FileStep(p)
  BY <1>1, FileStepDisk, SecretStepDisk, KeyStepDisk DEF FileStep
<1>2. CASE PortStep(p) \/ BuildCapture(p)
  <2>1. UNCHANGED <<world, fsVars>> /\ task[p] \in {"port", "capture"}
    BY <1>2 DEF PortStep, ResolveConnection, OpenSerial, BuildCapture
  <2>2. Fail(p) \/ Finish(p, 0) \/ (Step(p, "open") /\ UNCHANGED <<task, got>>)
    BY <1>2 DEF PortStep, ResolveConnection, OpenSerial, BuildCapture
  <2>3. (\A n \in Kinds : Turn(0, n) /\ task[p] # n) /\ Others(p)
    BY <1>2, <2>1, <2>2, TurnSame, PortStepType, MovesAlone DEF Kinds, BuildCapture
  <2>4. CASE Step(p, "open") /\ UNCHANGED <<task, got>>
    <3>1. pc'[p] = "open"
      BY <2>4 DEF Step, AllOK, ProcOK
    <3>2. Where(p)' /\ \A n \in Kinds : Sees(p, n)'
      BY <3>1, SeesNothing DEF Where
    <3>3. QED  BY <2>3, <2>4, <3>2, GoesOnDisk
  <2>5. QED  BY <2>2, <2>3, <2>4, EndsWellDisk
<1>3. QED  BY <1>1, <1>2 DEF ProcStep

LEMMA NextDisk == Base /\ KeyInv /\ DiskInv /\ [Next]_vars => DiskInv'
<1> SUFFICES ASSUME Base, KeyInv, DiskInv, [Next]_vars PROVE DiskInv'
  OBVIOUS
<1>b. AllOK /\ AllCreating /\ PortOK /\ AllDialed
  BY DEF Base
<1>e. ASSUME UNCHANGED fileVars PROVE DiskInv'
  <2>1. UNCHANGED <<world, fsVars, procVars>>
    BY <1>e DEF fileVars, fsVars, procVars
  <2>2. QED  BY <2>1, TurnSame, DiskElse
<1>1. CASE UNCHANGED vars
  BY <1>1, <1>e DEF vars
<1>2. ASSUME NEW p \in Procs, Start(p) PROVE DiskInv'
  BY <1>2, <1>b, StartDisk
<1>3. ASSUME NEW p \in Procs, ProcStep(p) PROVE DiskInv'
  BY <1>3, <1>b, ProcStepDisk
<1>4. ASSUME NEW p \in Procs, Crash(p) PROVE DiskInv'
  <2>1. Fail(p) /\ UNCHANGED <<world, fsVars>>
    BY <1>4 DEF Crash, Die
  <2>2. (\A n \in Kinds : Turn(0, n)) /\ Others(p)
    BY <1>b, <2>1, TurnSame, MovesAlone
  <2>3. QED  BY <1>b, <2>1, <2>2, EndsWellDisk
<1>5. ASSUME NEW p \in Procs, Record(p) PROVE DiskInv'
  BY <1>5, <1>b, RecordDisk
<1>6. CASE ObserverStep
  <2>1. CASE ServeStep
    <3>1. CASE Handle \/ ObserveFails \/ Sign
      BY <1>e, <3>1 DEF Handle, ObserveFails, Sign, fileVars
    <3>2. ASSUME NEW a \in BOOLEAN, NEW o \in BOOLEAN, Build(a, o) PROVE DiskInv'
      BY <1>e, <3>2 DEF Build, fileVars
    <3>3. QED  BY <2>1, <3>1, <3>2 DEF ServeStep
  <2>2. ASSUME NEW p \in Procs, Send(p) PROVE DiskInv'
    BY <1>b, <1>e, <2>2, StopDisk DEF Send
  <2>3. QED  BY <1>6, <2>1, <2>2 DEF ObserverStep
<1>7. CASE Environment
  <2>1. CASE OthersStep
    BY <1>b, <2>1, OthersDisk
  <2>2. CASE UNCHANGED fileVars
    BY <1>e, <2>2
  <2>3. ASSUME NEW p \in Procs, Interrupt(p) PROVE DiskInv'
    BY <1>b, <2>3, StopDisk DEF Interrupt
  <2>4. QED  BY <1>7, <2>1, <2>2, <2>3 DEF Environment, Replug, Call, GiveUp, ObserverWorld
<1>8. QED  BY <1>1, <1>2, <1>3, <1>4, <1>5, <1>6, <1>7 DEF Next

LEMMA InitDisk == Init => DiskInv
<1> SUFFICES ASSUME Init PROVE DiskInv
  OBVIOUS
<1>1. \A p \in Procs : pc[p] = "idle" /\ \A n \in Kinds : got[p][n] = 0
  BY DEF Init, Kinds
<1>2. QED  BY <1>1 DEF DiskInv, Where, Sees, Holds

LEMMA DiskHolds == Spec => [](Base /\ KeyInv /\ DiskInv)
<1>1. Base /\ KeyInv /\ DiskInv /\ [Next]_vars => (Base /\ KeyInv /\ DiskInv)'
  BY NextBase, NextKey, NextDisk
<1>2. Init => Base /\ KeyInv /\ DiskInv
  BY InitBase, InitKey, InitDisk
<1>3. QED  BY <1>1, <1>2, PTL DEF Spec

\* Services that are up hold the secret and the key that lie at their paths,
\* whoever came first and whatever failed or died on the way, as long as no
\* other account may change the directories.
THEOREM ServicesHoldWhatLies == Spec => []HeldIsOnDisk
<1>1. DiskInv => HeldIsOnDisk
  BY DEF DiskInv, Holds, HeldIsOnDisk, Kinds, Quiet, OnDisk
<1>2. QED  BY <1>1, DiskHolds, PTL

\* No service is up with a secret that another account may read or rewrite.
THEOREM SecretStaysPrivate == Spec => []SecretIsPrivate
<1>1. DiskInv => SecretIsPrivate
  <2> SUFFICES ASSUME DiskInv, NEW p \in Procs, got[p]["secret"] # 0, Undisturbed("priv")
               PROVE  OwnerOnlyFile(FileAt(Dir("secret"), "secret"))
    BY DEF SecretIsPrivate
  <2>1. "secret" \in Kinds /\ Quiet("secret")
    BY DEF Kinds, Quiet, PathOf
  <2>2. QED  BY <2>1 DEF DiskInv, Holds, OnDisk
<1>2. QED  BY <1>1, DiskHolds, PTL

----------------------------------------------------------------------------
(* What the observer lists.                                                  *)

\* A nonempty set of numbers has a least.
LEMMA LeastOf ==
  ASSUME NEW T, T \subseteq Nat, T # {}
  PROVE  \E x \in T : \A y \in T : x <= y
<1> DEFINE R == OpToRel(<, Nat)
<1>1. IsWellFoundedOn(R, Nat)  BY NatLessThanWellFounded
<1>2. \A x, y \in Nat : <<x, y>> \in R <=> x < y  BY Zenon DEF OpToRel
<1> HIDE DEF R
<1>3. PICK x \in T : \A y \in T : ~(<<y, x>> \in R)  BY <1>1, WFMin
<1>4. \A y \in T : x \in Nat /\ y \in Nat /\ ~(y < x)  BY <1>2, <1>3
<1>5. QED  BY <1>3, <1>4, SMT

\* The recursive function FoldLeft is made of: here on the sets of positions.
FoldOver(h, source, base, items, S) ==
  [s \in SUBSET S |-> IF s = {} THEN base ELSE Appended(source, h[s \ {Max(s)}], items[Max(s)])]

LEMMA MaxIs ==
  ASSUME NEW m \in Nat, NEW s, s \subseteq 1..m, m \in s
  PROVE  Max(s) = m
<1>1. \A y \in s : m >= y  BY SMT
<1>2. \A x \in s : (\A y \in s : x >= y) => x = m  BY SMT
<1>3. Max(s) \in s /\ \A y \in s : Max(s) >= y  BY <1>1, Zenon DEF Max
<1>4. QED  BY <1>2, <1>3

\* If it is there for the positions below m it is there for those up to m.
LEMMA FoldExtends ==
  ASSUME NEW source, NEW base, NEW items, NEW m \in Nat, m # 0,
         NEW g, g = FoldOver(g, source, base, items, 1..(m - 1))
  PROVE  \E h : h = FoldOver(h, source, base, items, 1..m)
<1> DEFINE h == [s \in SUBSET (1..m) |-> IF m \in s THEN Appended(source, g[s \ {m}], items[m]) ELSE g[s]]
           F(s) == IF s = {} THEN base ELSE Appended(source, h[s \ {Max(s)}], items[Max(s)])
<1>0. \A s \in SUBSET (1..(m - 1)) : m \notin s /\ s \in SUBSET (1..m)  BY SMT
<1>1. \A s \in SUBSET (1..(m - 1)) : h[s] = g[s]  BY <1>0
<1>2. \A s \in SUBSET (1..m) : m \notin s => s \in SUBSET (1..(m - 1))  BY SMT
<1>3. \A s \in SUBSET (1..m) : s \ {m} \in SUBSET (1..(m - 1))  BY SMT
<1>4. ASSUME NEW s \in SUBSET (1..m) PROVE h[s] = F(s)
  <2>1. CASE m \in s
    <3>1. Max(s) = m  BY <2>1, MaxIs
    <3>2. h[s \ {m}] = g[s \ {m}]  BY <1>1, <1>3
    <3>3. h[s] = Appended(source, g[s \ {m}], items[m])  BY <2>1
    <3> HIDE DEF h
    <3>4. s # {}  BY <2>1
    <3>5. F(s) = Appended(source, h[s \ {m}], items[m])  BY <3>1, <3>4
    <3>6. QED  BY <3>2, <3>3, <3>5
  <2>2. CASE m \notin s
    <3>1. s \in SUBSET (1..(m - 1))  BY <1>2, <2>2
    <3>2. s \ {Max(s)} \in SUBSET (1..(m - 1))  BY <3>1
    <3>3. h[s] = g[s] /\ h[s \ {Max(s)}] = g[s \ {Max(s)}]  BY <1>1, <3>1, <3>2
    <3> HIDE DEF h
    <3>4. g[s] = IF s = {} THEN base ELSE Appended(source, g[s \ {Max(s)}], items[Max(s)])
      BY <3>1, Zenon DEF FoldOver
    <3>5. QED  BY <3>3, <3>4
  <2>3. QED  BY <2>1, <2>2
<1>5. h = [s \in SUBSET (1..m) |-> F(s)]
  <2> HIDE DEF F
  <2>1. QED  BY <1>4
<1>6. h = FoldOver(h, source, base, items, 1..m)
  <2> HIDE DEF h
  <2>1. QED  BY <1>5, Zenon DEF FoldOver
<1> HIDE DEF h
<1>7. QED  BY <1>6

LEMMA FoldIsThere ==
  ASSUME NEW source, NEW base, NEW items, NEW n \in Nat
  PROVE  \E h : h = FoldOver(h, source, base, items, 1..n)
<1> DEFINE Is(m) == \E h : h = FoldOver(h, source, base, items, 1..m)
           bad == {m \in Nat : ~Is(m)}
<1>1. SUFFICES ASSUME bad # {} PROVE FALSE
  BY Zenon
<1>2. PICK m \in bad : \A k \in bad : m <= k
  <2>1. bad \subseteq Nat  OBVIOUS
  <2> HIDE DEF bad
  <2>2. QED  BY <1>1, <2>1, LeastOf
<1>3. CASE m = 0
  <2> DEFINE h == [s \in {{}} |-> base]
  <2>1. SUBSET (1..0) = {{}}  BY SMT
  <2>2. h = FoldOver(h, source, base, items, 1..0)
    <3>1. FoldOver(h, source, base, items, 1..0) =
            [s \in {{}} |-> IF s = {} THEN base ELSE Appended(source, h[s \ {Max(s)}], items[Max(s)])]
      BY <2>1, Zenon DEF FoldOver
    <3> HIDE DEF h
    <3>2. FoldOver(h, source, base, items, 1..0) = [s \in {{}} |-> base]  BY <3>1
    <3>3. QED  BY <3>2 DEF h
  <2> HIDE DEF h
  <2>3. Is(0)  BY <2>2
  <2>4. QED  BY <1>3, <2>3
<1>4. CASE m # 0
  <2>1. m \in Nat /\ ~Is(m)  OBVIOUS
  <2>2. m - 1 \in Nat /\ ~(m <= m - 1)  BY <1>4, <2>1, SMT
  <2>3. m - 1 \notin bad  BY <1>2, <2>2
  <2>4. Is(m - 1)  BY <2>2, <2>3
  <2>5. PICK g : g = FoldOver(g, source, base, items, 1..(m - 1))  BY <2>4
  <2>6. Is(m)  BY <1>4, <2>1, <2>5, FoldExtends
  <2>7. QED  BY <2>1, <2>6
<1>5. QED  BY <1>3, <1>4

Folded(source, base, items) == FoldLeft(LAMBDA es, i : Appended(source, es, i), base, items)
Goes(f, source, base, items, n) ==
  /\ f[0] = base
  /\ \A m \in 1..n : f[m] = Appended(source, f[m - 1], items[m])
  /\ Folded(source, base, items) = f[n]

\* FoldLeft goes through the items from the first to the last.
LEMMA FoldStep ==
  ASSUME NEW source, NEW base, NEW items, NEW n \in Nat, DOMAIN items = 1..n
  PROVE  \E f : Goes(f, source, base, items, n)
<1> DEFINE g == CHOOSE h : h = FoldOver(h, source, base, items, DOMAIN items)
           f == [m \in 0..n |-> g[1..m]]
<1>1. g = FoldOver(g, source, base, items, 1..n)
  <2>1. \E h : h = FoldOver(h, source, base, items, DOMAIN items)  BY FoldIsThere
  <2>2. QED  BY <2>1
<1>2. g = CHOOSE h : h = [s \in SUBSET DOMAIN items |->
                            IF s = {} THEN base ELSE Appended(source, h[s \ {Max(s)}], items[Max(s)])]
  BY Zenon DEF FoldOver
<1> HIDE DEF g
<1>3. Folded(source, base, items) = g[1..n]
  BY <1>2, Zenon DEF Folded, FoldLeft, MapThenFoldSet
<1>4. \A s \in SUBSET (1..n) :
        g[s] = IF s = {} THEN base ELSE Appended(source, g[s \ {Max(s)}], items[Max(s)])
  BY <1>1, Zenon DEF FoldOver
<1>5. f[0] = base
  <2>1. 1..0 = {} /\ 0 \in 0..n  BY SMT
  <2>2. g[{}] = base  BY <1>4, Zenon
  <2>3. QED  BY <2>1, <2>2
<1>6. ASSUME NEW m \in 1..n PROVE f[m] = Appended(source, f[m - 1], items[m])
  <2>a. m \in Nat /\ m \in 1..m /\ m \in 0..n /\ m - 1 \in 0..n  BY SMT
  <2>b. 1..m \in SUBSET (1..n)  BY SMT
  <2>c. (1..m) \ {m} = 1..(m - 1)  BY <2>a, SMT
  <2>1. m \in Nat /\ 1..m \in SUBSET (1..n) /\ m \in 1..m /\ (1..m) \ {m} = 1..(m - 1)
        /\ m \in 0..n /\ m - 1 \in 0..n /\ 1..m # {}
    BY <2>a, <2>b, <2>c
  <2>2. Max(1..m) = m  BY <2>1, MaxIs
  <2>3. g[1..m] = Appended(source, g[(1..m) \ {Max(1..m)}], items[Max(1..m)])  BY <1>4, <2>1
  <2>4. g[1..m] = Appended(source, g[1..(m - 1)], items[m])  BY <2>1, <2>2, <2>3
  <2>5. f[m] = g[1..m] /\ f[m - 1] = g[1..(m - 1)]  BY <2>1
  <2> HIDE DEF f
  <2>6. QED  BY <2>4, <2>5
<1>7. f[n] = g[1..n]
  <2>1. n \in 0..n  BY SMT
  <2>2. QED  BY <2>1
<1> HIDE DEF f
<1>8. Goes(f, source, base, items, n)  BY <1>3, <1>5, <1>6, <1>7 DEF Goes
<1>9. QED  BY <1>8

----------------------------------------------------------------------------
\* What one may say of a list of elements, the text on the screen given.
Refs == [id: {"a11y", "ocr"} \X STRING \X Nat \X Nat, source: {"a11y", "ocr"}, label: STRING, box: Nat]
Numbered(es) == \A i \in 1..Len(es) : es[i].id[4] = i - 1
NoRepeats(es) ==
  \A i, j \in 1..Len(es) : i < j /\ es[j].source = "ocr" => ~(es[i].label = es[j].label /\ es[i].box = es[j].box)
ReadFrom(es, texts) ==
  \A i \in 1..Len(es) : es[i].source = "ocr" => \E k \in DOMAIN texts : texts[k].label = es[i].label
Sound(es, texts) ==
  /\ es \in Seq(Refs) /\ Len(es) <= MaxElements
  /\ Numbered(es) /\ NoRepeats(es) /\ ReadFrom(es, texts)

\* Numbered by position, no two ids are the same.
LEMMA NumberedIsDistinct ==
  ASSUME NEW es \in Seq(Refs), Numbered(es)
  PROVE  Distinct(es)
<1>1. DOMAIN es = 1..Len(es)  OBVIOUS
<1>2. ASSUME NEW i \in 1..Len(es), NEW j \in 1..Len(es), i < j PROVE es[i].id # es[j].id
  <2>1. es[i].id[4] = i - 1 /\ es[j].id[4] = j - 1  BY DEF Numbered
  <2>2. i - 1 # j - 1  BY <1>2, SMT
  <2>3. QED  BY <2>1, <2>2
<1>3. QED  BY <1>1, <1>2 DEF Distinct

LEMMA ElementIs ==
  ASSUME NEW source \in {"a11y", "ocr"}, NEW item \in ScreenItems, NEW k \in Nat
  PROVE  LET e == Element(source, item, k)
         IN  e \in Refs /\ e.id[4] = k /\ e.source = source /\ e.label = item.label /\ e.box = item.box
  BY SMT DEF Element, Refs, ScreenItems

LEMMA AppendedSound ==
  ASSUME NEW source \in {"a11y", "ocr"}, NEW es, NEW texts, Sound(es, texts), NEW item \in ScreenItems,
         source = "ocr" => \E k \in DOMAIN texts : texts[k].label = item.label
  PROVE  Sound(Appended(source, es, item), texts)
<1>0. es \in Seq(Refs) /\ Len(es) \in Nat /\ DOMAIN es = 1..Len(es)  BY DEF Sound
<1>1. CASE Takes(es, item) /\ (source = "ocr" => ~Seen(es, item))
  <2> DEFINE e == Element(source, item, Len(es))
             new == Append(es, e)
  <2>1. e \in Refs /\ e.id[4] = Len(es) /\ e.source = source /\ e.label = item.label /\ e.box = item.box
    BY <1>0, ElementIs
  <2>2. Appended(source, es, item) = new  BY <1>1 DEF Appended
  <2> HIDE DEF e
  <2>3. /\ new \in Seq(Refs) /\ Len(new) = Len(es) + 1 /\ new[Len(es) + 1] = e
        /\ \A i \in 1..Len(es) : new[i] = es[i]
    BY <1>0, <2>1, SMT
  <2> HIDE DEF new
  <2>4. Len(new) <= MaxElements
    <3>1. Len(es) < MaxElements  BY <1>1 DEF Takes
    <3>2. QED  BY <1>0, <2>3, <3>1, ElementsAssumption, SMT
  <2>5. 1..Len(new) = 1..Len(es) \cup {Len(es) + 1}  BY <1>0, <2>3, SMT
  <2>6. Numbered(new)
    <3>1. \A i \in 1..Len(es) : new[i].id[4] = i - 1  BY <2>3 DEF Sound, Numbered
    <3>2. new[Len(es) + 1].id[4] = (Len(es) + 1) - 1  BY <1>0, <2>1, <2>3, SMT
    <3>3. QED  BY <2>5, <3>1, <3>2 DEF Numbered
  <2>7. NoRepeats(new)
    <3>1. SUFFICES ASSUME NEW i \in 1..Len(new), NEW j \in 1..Len(new), i < j, new[j].source = "ocr"
                   PROVE  ~(new[i].label = new[j].label /\ new[i].box = new[j].box)
      BY DEF NoRepeats
    <3>2. i \in 1..Len(es)  BY <1>0, <2>3, <3>1, SMT
    <3>3. CASE j = Len(es) + 1
      <4>1. source = "ocr"  BY <2>1, <2>3, <3>1, <3>3
      <4>2. ~(es[i].label = item.label /\ es[i].box = item.box)  BY <1>0, <1>1, <3>2, <4>1 DEF Seen
      <4>3. QED  BY <2>1, <2>3, <3>2, <3>3, <4>2
    <3>4. CASE j \in 1..Len(es)
      BY <2>3, <3>1, <3>2, <3>4 DEF Sound, NoRepeats
    <3>5. QED  BY <2>5, <3>3, <3>4
  <2>8. ReadFrom(new, texts)
    <3>1. \A i \in 1..Len(es) : new[i].source = "ocr" => \E k \in DOMAIN texts : texts[k].label = new[i].label
      BY <2>3 DEF Sound, ReadFrom
    <3>2. new[Len(es) + 1].source = "ocr" => \E k \in DOMAIN texts : texts[k].label = new[Len(es) + 1].label
      BY <2>1, <2>3
    <3>3. QED  BY <2>5, <3>1, <3>2 DEF ReadFrom
  <2>9. QED  BY <2>2, <2>3, <2>4, <2>6, <2>7, <2>8 DEF Sound
<1>2. CASE ~(Takes(es, item) /\ (source = "ocr" => ~Seen(es, item)))
  BY <1>2 DEF Appended
<1>3. QED  BY <1>1, <1>2

\* So from a list of which it may be said, whatever is gathered.
LEMMA GatherSound ==
  ASSUME NEW source \in {"a11y", "ocr"}, NEW list, NEW texts, Sound(list, texts), NEW items \in Seq(ScreenItems),
         source = "ocr" => \A i \in DOMAIN items : \E k \in DOMAIN texts : texts[k].label = items[i].label
  PROVE  Sound(Gather(source, list, items), texts)
<1> DEFINE most == MaxElements - Len(list)
           n == IF Len(items) < most THEN Len(items) ELSE most
           seen == Prefix(items, most)
<1>1. n \in Nat /\ n <= Len(items)
  <2>1. Len(list) \in Nat /\ Len(list) <= MaxElements /\ MaxElements \in Nat
    BY ElementsAssumption DEF Sound
  <2>2. QED  BY <2>1, SMT
<1>2. DOMAIN seen = 1..n /\ \A i \in 1..n : seen[i] = items[i] /\ i \in DOMAIN items /\ items[i] \in ScreenItems
  <2>1. seen = SubSeq(items, 1, n)  BY DEF Prefix
  <2> HIDE DEF seen, n
  <2>2. QED  BY <1>1, <2>1, SMT
<1> HIDE DEF n, seen
<1>f. n \in Nat /\ DOMAIN seen = 1..n  BY <1>1, <1>2
<1>3. PICK f : Goes(f, source, list, seen, n)
  BY <1>f, FoldStep
<1>g. /\ f[0] = list /\ \A m \in 1..n : f[m] = Appended(source, f[m - 1], seen[m])
      /\ Folded(source, list, seen) = f[n]
  BY <1>3 DEF Goes
<1> DEFINE bad == {m \in 0..n : ~Sound(f[m], texts)}
<1>4. bad = {}
  <2>1. SUFFICES ASSUME bad # {} PROVE FALSE
    BY Zenon
  <2>2. bad \subseteq Nat  BY SMT
  <2>3. PICK m \in bad : \A k \in bad : m <= k
    <3> HIDE DEF bad
    <3>1. QED  BY <2>1, <2>2, LeastOf
  <2>4. m \in 0..n /\ ~Sound(f[m], texts)  OBVIOUS
  <2>5. m # 0  BY <1>g, <2>4
  <2>6. m \in 1..n /\ m - 1 \in 0..n /\ ~(m <= m - 1)  BY <1>1, <2>4, <2>5, SMT
  <2>7. Sound(f[m - 1], texts)  BY <2>3, <2>6
  <2>8. seen[m] \in ScreenItems /\ (source = "ocr" => \E k \in DOMAIN texts : texts[k].label = seen[m].label)
    BY <1>2, <2>6
  <2>9. Sound(f[m], texts)
    <3>1. Sound(Appended(source, f[m - 1], seen[m]), texts)  BY <2>7, <2>8, AppendedSound
    <3>2. QED  BY <1>g, <2>6, <3>1, Zenon
  <2>10. QED  BY <2>4, <2>9
<1>5. n \in 0..n  BY <1>1, SMT
<1>6. Sound(f[n], texts)  BY <1>4, <1>5
<1>7. QED  BY <1>g, <1>6, Zenon DEF Gather, Folded, seen, most

LEMMA NothingIsSound == ASSUME NEW texts PROVE Sound(<< >>, texts)
<1>1. << >> \in Seq(Refs) /\ Len(<< >>) = 0  OBVIOUS
<1>2. 1..Len(<< >>) = {}  BY <1>1, SMT
<1>3. 0 <= MaxElements  BY ElementsAssumption, SMT
<1>4. QED  BY <1>1, <1>2, <1>3 DEF Sound, Numbered, NoRepeats, ReadFrom

LEMMA InventoryIsSound ==
  ASSUME NEW a11y \in BOOLEAN, NEW ocr \in BOOLEAN, screen \in Screens, draft.shown \in Screens
  PROVE  Sound(Inventory(a11y, ocr), Boxes[draft.shown])
<1> DEFINE tree == IF a11y THEN Tree[screen] ELSE << >>
           text == IF ocr THEN Boxes[draft.shown] ELSE << >>
           listed == Gather("a11y", << >>, tree)
<1>1. tree \in Seq(ScreenItems) /\ text \in Seq(ScreenItems)  BY ElementsAssumption
<1>2. \A i \in DOMAIN text : \E k \in DOMAIN Boxes[draft.shown] : Boxes[draft.shown][k].label = text[i].label
  <2>1. DOMAIN << >> = {}  OBVIOUS
  <2>2. QED  BY <2>1
<1> HIDE DEF tree, text
<1>3. Sound(listed, Boxes[draft.shown])  BY <1>1, NothingIsSound, GatherSound
<1> HIDE DEF listed
<1>4. Sound(Gather("ocr", listed, text), Boxes[draft.shown])  BY <1>1, <1>2, <1>3, GatherSound
<1>5. QED  BY <1>4 DEF Inventory, listed, tree, text

----------------------------------------------------------------------------
(* The list from the walk to the envelope.                                   *)

Listed ==
  /\ phase \in {"build", "sign"} => draft.shown \in Screens
  /\ phase = "sign" => Sound(draft.elements, Boxes[draft.shown])
  /\ Sound(published.elements, Boxes[published.shown])

\* Steps that make no snapshot.
LEMMA QuietListed ==
  ASSUME Listed, UNCHANGED published,
         phase' \in {"build", "sign"} => phase' = phase /\ UNCHANGED draft
  PROVE  Listed'
  BY DEF Listed

LEMMA ServeStepListed ==
  ASSUME Base, Listed, ServeStep
  PROVE  Listed'
<1>1. CASE Handle
  <2>1. CASE op = "observe"
    <3>1. /\ phase' = "build" /\ draft' = [NoDraft EXCEPT !.captured = clock, !.shown = screen]
          /\ UNCHANGED published
      BY <1>1, <2>1 DEF Handle
    <3>2. draft'.shown = screen /\ screen \in Screens
      BY <3>1 DEF NoDraft, Base, ObserverTypeOK
    <3>3. QED  BY <3>1, <3>2 DEF Listed
  <2>2. CASE op # "observe"
    BY <1>1, <2>2, QuietListed DEF Handle, Respond
  <2>3. QED  BY <2>1, <2>2
<1>2. CASE ObserveFails
  BY <1>2, QuietListed DEF ObserveFails, Respond
<1>3. CASE Sign
  <2>1. /\ phase = "sign" /\ phase' = "send"
        /\ published'.elements = draft.elements /\ published'.shown = draft.shown
    BY <1>3 DEF Sign, Respond
  <2>2. QED  BY <2>1 DEF Listed
<1>4. ASSUME NEW a11y \in BOOLEAN, NEW ocr \in BOOLEAN, Build(a11y, ocr) PROVE Listed'
  <2>1. /\ phase = "build" /\ phase' = "sign" /\ UNCHANGED published
        /\ draft' = [draft EXCEPT !.walked = screen, !.elements = Inventory(a11y, ocr)]
    BY <1>4 DEF Build
  <2>2. draft.shown \in Screens /\ screen \in Screens  BY <2>1 DEF Listed, Base, ObserverTypeOK
  <2>3. Sound(Inventory(a11y, ocr), Boxes[draft.shown])  BY <2>2, InventoryIsSound
  <2>4. draft'.shown = draft.shown /\ draft'.elements = Inventory(a11y, ocr)
    BY <2>1 DEF Listed
  <2>5. QED  BY <2>1, <2>2, <2>3, <2>4 DEF Listed
<1>5. QED  BY <1>1, <1>2, <1>3, <1>4 DEF ServeStep

LEMMA NextListed == Base /\ Listed /\ [Next]_vars => Listed'
<1> SUFFICES ASSUME Base, Listed, [Next]_vars PROVE Listed'
  OBVIOUS
<1>s. ASSUME NEW p \in Procs, Stop(p) PROVE Listed'
  BY <1>s, QuietListed DEF Stop
<1>u. ASSUME UNCHANGED obsVars PROVE Listed'
  BY <1>u, QuietListed DEF obsVars
<1>1. ASSUME NEW p \in Procs, BuildCapture(p) PROVE Listed'
  <2>1. CASE UNCHANGED <<phase, published>>
    BY <1>1, <2>1, QuietListed DEF BuildCapture
  <2>2. CASE phase' = "accept" /\ published' = NoEnvelope
    <3>1. published'.elements = << >>  BY <2>2 DEF NoEnvelope
    <3>2. QED  BY <2>2, <3>1, NothingIsSound DEF Listed
  <2>3. QED  BY <1>1, <2>1, <2>2 DEF BuildCapture
<1>2. ASSUME NEW p \in Procs, Start(p) \/ ProcStep(p) PROVE Listed'
  BY <1>2, <1>u, <1>1 DEF Start, ProcStep
<1>3. ASSUME NEW p \in Procs, Crash(p) PROVE Listed'
  BY <1>3, QuietListed DEF Crash
<1>4. CASE ObserverStep
  <2>1. ASSUME NEW p \in Procs, Send(p) PROVE Listed'
    <3>1. CASE phase' = "accept" /\ UNCHANGED published
      BY <3>1, QuietListed
    <3>2. QED  BY <2>1, <3>1, <1>s DEF Send
  <2>2. QED  BY <1>4, <2>1, ServeStepListed DEF ObserverStep
<1>5. CASE Environment
  <2>1. ASSUME NEW o, Call(o) PROVE Listed'
    BY <2>1, QuietListed DEF Call
  <2>2. CASE GiveUp \/ ObserverWorld
    BY <2>2, QuietListed DEF GiveUp, ObserverWorld
  <2>3. ASSUME NEW p \in Procs, Interrupt(p) PROVE Listed'
    BY <2>3, <1>s DEF Interrupt
  <2>4. QED  BY <1>5, <1>u, <2>1, <2>2, <2>3 DEF Environment
<1>6. QED  BY <1>u, <1>2, <1>3, <1>4, <1>5 DEF Next, vars

\* Whatever is on the screens and in whatever order, no two elements of a
\* snapshot have one id, so that a build never fails for it; an envelope lists
\* no more elements than it may, none of its text repeats an element before it,
\* and all of it was in the image that was hashed.
THEOREM InventoryIsKept == Spec => []InventorySound
<1>1. Init => Listed
  <2> SUFFICES ASSUME Init PROVE Listed
    OBVIOUS
  <2>1. phase = "off" /\ published.elements = << >>
    BY DEF Init, ObserverInit, NoEnvelope
  <2>2. QED  BY <2>1, NothingIsSound DEF Listed
<1>2. Base /\ Listed => InventorySound
  <2> SUFFICES ASSUME Base, Listed PROVE InventorySound
    OBVIOUS
  <2>1. Sound(published.elements, Boxes[published.shown])  BY DEF Listed
  <2>2. DOMAIN published.elements = 1..Len(published.elements)  BY <2>1 DEF Sound
  <2>3. phase = "build" => \A a11y, ocr \in BOOLEAN : Distinct(Inventory(a11y, ocr))
    <3>1. SUFFICES ASSUME phase = "build", NEW a11y \in BOOLEAN, NEW ocr \in BOOLEAN
                   PROVE  Distinct(Inventory(a11y, ocr))
      OBVIOUS
    <3>2. Sound(Inventory(a11y, ocr), Boxes[draft.shown])
      BY <3>1, InventoryIsSound DEF Listed, Base, ObserverTypeOK
    <3>3. QED  BY <3>2, NumberedIsDistinct DEF Sound
  <2>4. QED  BY <2>1, <2>2, <2>3 DEF InventorySound, Sound, NoRepeats, ReadFrom
<1>3. QED  BY <1>1, <1>2, NextListed, BaseHolds, PTL DEF Spec
=============================================================================

--------------------------- MODULE SessionProofs ---------------------------
(***************************************************************************)
(* For any model, any skill, any screens and any bounds: the loop acts on  *)
(* what the model saw, a replay keeps its order, and the target sees what  *)
(* was asked for.  The last is proved from what a report makes happen, up  *)
(* by way of the reports of an action to the executor that writes them.    *)
(***************************************************************************)
EXTENDS Session, TLAPS, SequenceTheorems, WellFoundedInduction

\* What the two properties rest on, of the loop and of the replay apart.
Clients ==
  /\ client \in {"loop", "replay"}
  /\ client = "loop" => rp = "off"
  /\ client = "replay" => loop = "off"
  /\ gate # "idle" => ans = "none"

LoopSees ==
  /\ frame \in Nat /\ acted \in Nat /\ acted <= frame
  /\ client = "loop" /\ gate # "idle" =>
       loop \in {"failing", "acting"} /\ shown = frame /\ acted < frame
  /\ client = "loop" /\ gate = "executing" => req.frame_id = frame
  /\ loop = "thinking" => acted < frame

FirstSteps(k) == [i \in 1..k |-> i]

ReplayOrder ==
  /\ rp # "off" => /\ rstep \in 1..(Len(Skill) + 1)
                   /\ carried = FirstSteps(rstep - 1)
                   /\ replayResult # "ok"
  /\ rp = "acting" => rstep <= Len(Skill)
  /\ replayResult = "ok" => carried = FirstSteps(Len(Skill))

IInv == Clients /\ LoopSees /\ ReplayOrder

-----------------------------------------------------------------------------
LEMMA NoSteps == FirstSteps(0) = << >>
BY SMT DEF FirstSteps

LEMMA OneMoreStep ==
  ASSUME NEW k \in Nat
  PROVE  Append(FirstSteps(k), k + 1) = FirstSteps(k + 1)
<1>1. FirstSteps(k) \in Seq(Nat) /\ Len(FirstSteps(k)) = k
  BY SMT DEF FirstSteps
<1>2. Append(FirstSteps(k), k + 1) \in Seq(Nat) /\ FirstSteps(k + 1) \in Seq(Nat)
  BY <1>1, SMT DEF FirstSteps
<1>3. Len(Append(FirstSteps(k), k + 1)) = k + 1 /\ Len(FirstSteps(k + 1)) = k + 1
  BY <1>1, SMT DEF FirstSteps
<1>4. ASSUME NEW i \in 1..(k + 1)
      PROVE  Append(FirstSteps(k), k + 1)[i] = FirstSteps(k + 1)[i]
  BY <1>1, SMT DEF FirstSteps
<1> QED  BY <1>2, <1>3, <1>4, SMT

LEMMA SkillLength == Len(Skill) \in Nat
BY SkillAssumption DEF SkillAssumption

-----------------------------------------------------------------------------
LEMMA InitIInv == Init => IInv
<1> SUFFICES ASSUME Init PROVE IInv  OBVIOUS
<1>1. Clients  BY DEF Init, Clients, LoopInit, ReplayInit, DeskInit
<1>2. LoopSees  BY SMT DEF Init, LoopSees, LoopInit, DeskInit
<1>3. ReplayOrder  BY DEF Init, ReplayOrder, ReplayInit
<1> QED  BY <1>1, <1>2, <1>3 DEF IInv

\* A call begins, of whichever client the process has.
LEMMA CallKeeps == IInv /\ Call => IInv'
<1> SUFFICES ASSUME IInv, Call PROVE IInv'  OBVIOUS
<1> USE DEF IInv
<1>1. CASE client = "loop" /\ RunLoop /\ UNCHANGED replayVars
  BY <1>1, SMT DEF Call, RunLoop, Clients, LoopSees, ReplayOrder, deskVars,
     targetVars, replayVars, filterVars, FirstSteps
<1>2. ASSUME client = "replay", NEW text \in Params, StartReplay(text),
             UNCHANGED loopVars
      PROVE  IInv'
  <2>1. carried' = FirstSteps(0) /\ rstep' = 1 /\ 1 \in 1..(Len(Skill) + 1)
    BY <1>2, NoSteps, SkillLength, SMT DEF StartReplay
  <2>2. Clients'
    BY <1>2, SMT DEF Call, StartReplay, Clients, RGrabLeaves, ReplayEnds, loopVars
  <2>3. LoopSees'
    BY <1>2, SMT DEF Call, StartReplay, Clients, LoopSees, RGrabLeaves, Grabs,
       targetVars, loopVars
  <2>4. ReplayOrder'
    BY <2>1, <1>2, SMT DEF StartReplay, ReplayOrder, ReplayEnds
  <2> QED  BY <2>2, <2>3, <2>4
<1> QED  BY <1>1, <1>2 DEF Call

\* The loop's own steps leave the replay alone.
LEMMA LoopKeeps ==
  IInv /\ LoopSteps /\ UNCHANGED <<client, runs, replayVars>> => IInv'
<1> SUFFICES ASSUME IInv, LoopSteps, UNCHANGED <<client, runs, replayVars>>
             PROVE  IInv'
  OBVIOUS
<1> USE DEF IInv
<1>1. ReplayOrder'  BY DEF ReplayOrder, replayVars
<1>2. client = "loop" /\ client' = "loop" /\ rp' = "off"
  BY DEF Clients, LoopSteps, LoopGrabs, LoopGrabRaises, StepsSpent,
     ModelUnavailable, ModelActs, ModelBabbles, LoopGoesOn, LoopDecided, replayVars
<1>3. CASE LoopGrabs
  BY <1>1, <1>2, <1>3, SMT DEF LoopGrabs, Grabs, GrabLeaves, Clients, LoopSees,
     targetVars
<1>4. CASE LoopGrabRaises \/ StepsSpent \/ ModelUnavailable
  BY <1>1, <1>2, <1>4, SMT DEF LoopGrabRaises, StepsSpent, ModelUnavailable,
     Ends, Clients, LoopSees, deskVars, targetVars
<1>5. CASE ModelActs
  <2>1. /\ loop = "thinking" /\ loop' = "acting" /\ shown' = frame
        /\ gate = "idle" /\ ans = "none" /\ gate' = "asked" /\ ans' = ans
        /\ frame' = frame /\ acted' = acted
    BY <1>5 DEF ModelActs, Ask, AskLeaves, targetVars
  <2> QED  BY <1>1, <1>2, <2>1, SMT DEF Clients, LoopSees
<1>6. CASE ModelBabbles
  BY <1>1, <1>2, <1>6, SMT DEF ModelBabbles, Ask, AskLeaves, targetVars,
     Clients, LoopSees
<1>7. CASE LoopGoesOn
  BY <1>1, <1>2, <1>7, SMT DEF LoopGoesOn, Take, AskLeaves, targetVars,
     Clients, LoopSees
<1>8. CASE LoopDecided
  BY <1>1, <1>2, <1>8, SMT DEF LoopDecided, Take, Ends, AskLeaves, targetVars,
     Clients, LoopSees
<1> QED  BY <1>3, <1>4, <1>5, <1>6, <1>7, <1>8 DEF LoopSteps

\* The replay's own steps leave the loop alone.
LEMMA ReplayKeeps ==
  IInv /\ ReplaySteps /\ UNCHANGED <<client, runs, loopVars>> => IInv'
<1> SUFFICES ASSUME IInv, ReplaySteps, UNCHANGED <<client, runs, loopVars>>
             PROVE  IInv'
  OBVIOUS
<1> USE DEF IInv
<1>1. client = "replay" /\ client' = "replay" /\ loop' = "off"
  BY DEF Clients, ReplaySteps, ReplayStep, ReplayGrabRaises, ReplayDecided,
     ReplayChecks, loopVars
<1>2. CASE ReplayStep
  <2>1. /\ rp = "step" /\ rstep <= Len(Skill) /\ rp' \in {"off", "acting"}
        /\ rstep' = rstep /\ carried' = carried /\ replayResult' # "ok"
        /\ gate' = gate \/ gate = "idle"
        /\ ans' = ans /\ acted' = acted /\ frame' = frame + 1
    BY <1>2 DEF ReplayStep, RGrabLeaves, Grabs, ReplayEnds, ReplayOrder, targetVars
  <2>2. ReplayOrder'  BY <2>1 DEF ReplayOrder
  <2>3. gate' # "idle" => ans' = "none"
    BY <1>2, <2>1 DEF ReplayStep, Clients
  <2> QED  BY <1>1, <2>1, <2>2, <2>3, SMT DEF Clients, LoopSees
<1>3. CASE ReplayGrabRaises
  BY <1>1, <1>3, SMT DEF ReplayGrabRaises, ReplayEnds, Clients, LoopSees,
     ReplayOrder, deskVars, targetVars
<1>4. CASE ReplayDecided
  <2>1. /\ rp = "acting" /\ ans' = "none" /\ gate' = gate
        /\ frame' = frame /\ acted' = acted
    BY <1>4 DEF ReplayDecided, Take, targetVars
  <2>2. ReplayOrder'
    <3>1. CASE rp' = "step" /\ carried' = Append(carried, rstep) /\
               rstep' = rstep + 1 /\ replayResult' = replayResult
      <4>1. rstep \in Nat /\ rstep - 1 \in Nat /\ rstep - 1 + 1 = rstep
            /\ rstep' \in 1..(Len(Skill) + 1) /\ rstep' - 1 = rstep
        BY <2>1, <3>1, SkillLength, SMT DEF ReplayOrder
      <4>2. carried' = FirstSteps(rstep' - 1)
        BY <2>1, <3>1, <4>1, OneMoreStep DEF ReplayOrder
      <4> QED  BY <2>1, <3>1, <4>1, <4>2 DEF ReplayOrder
    <3>2. CASE ReplayEnds("error") /\ UNCHANGED <<carried, rstep>>
      BY <3>2 DEF ReplayOrder, ReplayEnds
    <3> QED  BY <1>4, <3>1, <3>2 DEF ReplayDecided
  <2> QED  BY <1>1, <2>1, <2>2, SMT DEF Clients, LoopSees
<1>5. CASE ReplayChecks
  <2>1. /\ rp = "step" /\ rp' = "off" /\ carried' = carried
        /\ gate' = gate /\ ans' = ans /\ acted' = acted /\ frame' = frame + 1
    BY <1>5 DEF ReplayChecks, RGrabLeaves, Grabs, ReplayEnds, targetVars
  <2>2. rstep - 1 = Len(Skill)
    BY <1>5, <2>1, SkillLength, SMT DEF ReplayChecks, ReplayOrder
  <2>3. ReplayOrder'  BY <2>1, <2>2 DEF ReplayOrder
  <2> QED  BY <1>1, <2>1, <2>3, SMT DEF Clients, LoopSees
<1> QED  BY <1>2, <1>3, <1>4, <1>5 DEF ReplaySteps

\* The gatekeeper and the device leave both clients alone.
LEMMA DeskKeeps ==
  IInv /\ DeskSteps /\ UNCHANGED <<client, runs, loopVars, replayVars>> => IInv'
<1> SUFFICES ASSUME IInv, DeskSteps,
                    UNCHANGED <<client, runs, loopVars, replayVars>>
             PROVE  IInv'
  OBVIOUS
<1> USE DEF IInv
<1>1. ReplayOrder'  BY DEF ReplayOrder, replayVars
<1>2. CASE Decides
  <2>1. /\ gate = "asked" /\ frame' = frame /\ acted' = acted /\ req' = req
        /\ \/ gate' = "idle"
           \/ gate' = "executing" /\ ans' = ans /\ req.frame_id = frame
    BY <1>2 DEF Decides, Refuses, Answers, Executes, Fresh
  <2> QED  BY <1>1, <2>1, SMT DEF Clients, LoopSees, loopVars, replayVars
<1>3. CASE Writes
  BY <1>1, <1>3, SMT DEF Writes, Clients, LoopSees, loopVars, replayVars
<1>4. CASE WriteRaises
  BY <1>1, <1>4, SMT DEF WriteRaises, Clients, LoopSees, loopVars, replayVars
<1>5. CASE ExecuteEnds
  BY <1>1, <1>5, SMT DEF ExecuteEnds, Clients, LoopSees, loopVars, replayVars
<1> QED  BY <1>2, <1>3, <1>4, <1>5 DEF DeskSteps

LEMMA NextIInv == IInv /\ [Next]_vars => IInv'
<1> SUFFICES ASSUME IInv, [Next]_vars PROVE IInv'  OBVIOUS
<1>1. CASE Call  BY <1>1, CallKeeps
<1>2. CASE Works
  BY <1>2, LoopKeeps, ReplayKeeps, DeskKeeps DEF Works
<1>3. CASE Around
  BY <1>3, SMT DEF Around, ScreenChanges, Engage, Release, IInv, Clients,
     LoopSees, ReplayOrder, FirstSteps, loopVars, replayVars, targetVars
<1>4. CASE UNCHANGED vars
  BY <1>4, SMT DEF vars, deskVars, targetVars, loopVars, replayVars, IInv,
     Clients, LoopSees, ReplayOrder, FirstSteps
<1> QED  BY <1>1, <1>2, <1>3, <1>4 DEF Next

THEOREM InvariantHolds == Spec => []IInv
BY InitIInv, NextIInv, PTL DEF Spec

\* Whatever the model answers and whenever the screen changes, input the loop
\* carries out was decided on a frame grabbed after the input before it.
THEOREM LoopActsOnWhatItSaw == Spec => []ActsOnWhatItSaw
<1>1. IInv => ActsOnWhatItSaw
  BY SMT DEF IInv, LoopSees, ActsOnWhatItSaw
<1> QED  BY InvariantHolds, <1>1, PTL

\* Of any skill, steps are carried out in order, each once, up to the first
\* that is not approved.
THEOREM ReplayKeepsOrder == Spec => []StepsInOrder
<1>1. IInv => StepsInOrder
  BY DEF IInv, ReplayOrder, StepsInOrder, FirstSteps
<1> QED  BY InvariantHolds, <1>1, PTL

-----------------------------------------------------------------------------
(* What the target makes of a position and of a character.                 *)
\* A rounded quotient is off by at most half of the divisor.
LEMMA RoundedNear ==
  ASSUME NEW n \in Nat, NEW d \in Nat \ {0}
  PROVE  /\ Rounded(n, d) \in Nat
         /\ 2 * (Rounded(n, d) * d - n) <= d
         /\ 2 * (n - Rounded(n, d) * d) <= d
<1> DEFINE q == n \div d
           m == n % d
<1>1. q \in Nat /\ m \in 0..(d - 1) /\ n = d * q + m
  BY SMT
<1>2. (q + 1) * d = d * q + d /\ q * d = d * q
  BY <1>1, SMT
<1> HIDE DEF q, m
<1>3. Rounded(n, d) = IF 2 * m > d \/ (2 * m = d /\ q % 2 = 1) THEN q + 1 ELSE q
  BY DEF Rounded, q, m
<1>4. CASE 2 * m > d \/ (2 * m = d /\ q % 2 = 1)
  BY <1>1, <1>2, <1>3, <1>4, SMT
<1>5. CASE ~(2 * m > d \/ (2 * m = d /\ q % 2 = 1))
  BY <1>1, <1>2, <1>3, <1>5, SMT
<1> QED BY <1>4, <1>5

\* At every screen width of up to 4096 pixels the absolute position written for
\* a pixel is that pixel again on the target (_to_abs).
LEMMA AbsIsOnScreen ==
  ASSUME NEW x \in 0..(Width - 1)
  PROVE  Abs(x) \in 0..AbsMax /\ Pixel(Abs(x)) = x
<1> DEFINE d == Larger(Width - 1, 1)
           n == x * 4095
           r == Rounded(n, d)
           p == r * d
<1>1. d \in 1..4095 /\ x <= d /\ x \in Nat /\ x * 4095 \in Nat
  BY WidthAssumption, SMT DEF WidthAssumption, Larger
<1>2. Abs(x) = r
  BY <1>1, WidthAssumption, SMT DEF WidthAssumption, Abs, Clamped, Smaller, Larger, AbsMax
<1> HIDE DEF d
<1>3. r \in Nat /\ 2 * (p - x * 4095) <= d /\ 2 * (x * 4095 - p) <= d
  <2>1. d \in Nat \ {0} /\ n \in Nat  BY <1>1, SMT
  <2> HIDE DEF n
  <2>2. r \in Nat /\ 2 * (r * d - n) <= d /\ 2 * (n - r * d) <= d
    BY <2>1, RoundedNear
  <2> QED  BY <2>2 DEF n
<1>4. p \in Nat BY <1>1, <1>3, SMT
<1> HIDE DEF r
<1>5. p <= x * 4095 + 2047 /\ x * 4095 - 2047 <= p
   BY <1>1, <1>3, <1>4, SMT
<1>6. r <= 4095
  <2> SUFFICES ASSUME r >= 4096 PROVE FALSE BY <1>3, SMT
  <2>1. p >= 4096 * d BY <1>1, <1>3, SMT
  <2>3. 2 * (p - 4095 * d) <= d BY <1>3, <1>1, <1>4,  SMT
  <2> HIDE DEF p
  <2> QED BY <2>1, <2>3, <1>1, <1>4, SMT
<1>7. Pixel(r) = (p + 2047) \div 4095
  BY DEF Pixel, AbsMax, d, p
<1> HIDE DEF p
<1>8. (p + 2047) \div 4095 = x
  BY <1>1, <1>4, <1>5, SMT
<1> QED BY <1>2, <1>3, <1>6, <1>7, <1>8, SMT DEF AbsMax

\* The tables of characters are looked up by the index of the entry.
LEMMA ShiftedEntry ==
  ASSUME NEW i \in 1..21
  PROVE  /\ In(ShiftedChars[i], ShiftedChars)
         /\ Entry(ShiftedChars[i], ShiftedChars, Unshifted) = Unshifted[i]
<1>1. DOMAIN ShiftedChars = 1..21
  BY SMT DEF ShiftedChars
<1>2. \A j \in 1..21 : ShiftedChars[i] = ShiftedChars[j] => i = j
  BY SMT DEF ShiftedChars
<1>3. (CHOOSE j \in 1..21 : ShiftedChars[j] = ShiftedChars[i]) = i
  BY <1>2
<1> QED  BY <1>1, <1>3 DEF In, Entry

\* And of the punctuation.
LEMMA PunctEntry ==
  ASSUME NEW i \in 1..12
  PROVE  /\ In(PunctChars[i], PunctChars)
         /\ Entry(PunctChars[i], PunctChars, PunctKeys) = PunctKeys[i]
<1>1. DOMAIN PunctChars = 1..12
  BY SMT DEF PunctChars
<1>2. \A j \in 1..12 : PunctChars[i] = PunctChars[j] => i = j
  BY SMT DEF PunctChars
<1>3. (CHOOSE j \in 1..12 : PunctChars[j] = PunctChars[i]) = i
  BY <1>2
<1> QED  BY <1>1, <1>3 DEF In, Entry

\* The key of an unshifted character produces it on a US layout.
LEMMA PlainRight ==
  ASSUME NEW c \in Chars, PlainKey(c) # NoKey
  PROVE  c # 0 /\ PlainKey(c) \in 4..56 /\ Produces(FALSE, PlainKey(c)) = c
<1>1. CASE c \in 97..122
  BY <1>1, SMT DEF PlainKey, Produces
<1>2. CASE c = 48
  BY <1>2, SMT DEF PlainKey, Produces, PlainRow
<1>3. CASE c \in 49..57
  BY <1>3, SMT DEF PlainKey, Produces, PlainRow
<1>4. CASE c \notin 97..122 /\ c # 48 /\ c \notin 49..57 /\ In(c, PunctChars)
  <2>1. PICK i \in 1..12 : c = PunctChars[i]
    BY <1>4, SMT DEF In, PunctChars
  <2>2. PlainKey(c) = PunctKeys[i]
    BY <1>4, <2>1, PunctEntry DEF PlainKey
  <2>3. PunctKeys[i] \in 44..56 /\ PlainRow[PunctKeys[i] - 29] = PunctChars[i]
        /\ PunctChars[i] # 0
    BY SMT DEF PunctKeys, PunctChars, PlainRow
  <2> QED  BY <2>1, <2>2, <2>3, SMT DEF Produces
<1>5. CASE c \notin 97..122 /\ c # 48 /\ c \notin 49..57 /\ ~In(c, PunctChars)
  <2>1. c = 10 /\ PlainKey(c) = 40  BY <1>5 DEF PlainKey
  <2> QED  BY <2>1, SMT DEF Produces, PlainRow
<1> QED  BY <1>1, <1>2, <1>3, <1>4, <1>5

\* The key of the character below a shifted one produces that with shift.
LEMMA ShiftedRight ==
  ASSUME NEW i \in 1..21
  PROVE  /\ PlainKey(Unshifted[i]) \in 30..56
         /\ ShiftRow[PlainKey(Unshifted[i]) - 29] = ShiftedChars[i]
         /\ ShiftedChars[i] \in 1..255
<1>1. \/ Unshifted[i] = 48 /\ i = 10 
      \/ Unshifted[i] \in 49..57 /\ i \in 1..9 /\ Unshifted[i] = 48 + i
      \/ i \in 11..21 /\ Unshifted[i] = PunctChars[i - 10]
  BY SMT DEF Unshifted, PunctChars
<1>2. CASE i = 10
  <2>1. PlainKey(Unshifted[i]) = 39  BY <1>2, SMT DEF PlainKey, Unshifted
  <2> QED BY <1>2, <2>1, SMT DEF ShiftRow, ShiftedChars
<1>3. CASE i \in 1..9
  <2>1. PlainKey(Unshifted[i]) = 29 + i  BY <1>1, <1>3, SMT DEF PlainKey
  <2> QED BY <1>3, <2>1, SMT DEF ShiftRow, ShiftedChars
<1>4. CASE i \in 11..21
  <2>1. i - 10 \in 1..12 /\ Unshifted[i] = PunctChars[i - 10]  BY <1>1, <1>4, SMT
  <2>2. Unshifted[i] \notin 97..122 /\ Unshifted[i] # 48 /\ Unshifted[i] \notin 49..57
    BY <1>4, SMT DEF Unshifted
  <2>3. PlainKey(Unshifted[i]) = PunctKeys[i - 10]
    BY <2>1, <2>2, PunctEntry DEF PlainKey
  <2> QED BY <1>4, <2>3, SMT DEF ShiftRow, ShiftedChars, PunctKeys
<1> QED  BY <1>2, <1>3, <1>4, SMT

\* What is pressed for a character that is not refused makes that character.
LEMMA CharacterArrives ==
  ASSUME NEW c \in Chars \ Accented, CharToHid(c).key # NoKey
  PROVE  LET h == CharToHid(c) IN
         /\ h.mods \subseteq {"shift"} /\ h.key \in 4..56 /\ c # 0
         /\ Produces("shift" \in h.mods, h.key) = c
<1>1. CASE In(c, ShiftedChars)
  <2>1. PICK i \in 1..21 : c = ShiftedChars[i]
    BY <1>1, SMT DEF In, ShiftedChars
  <2>2. CharToHid(c) = [mods |-> {"shift"}, key |-> PlainKey(Unshifted[i])]
    BY <1>1, <2>1, ShiftedEntry DEF CharToHid
  <2> DEFINE k == PlainKey(Unshifted[i])
  <2>3. k \in 30..56 /\ ShiftRow[k - 29] = c /\ c # 0
    <3>1. /\ PlainKey(Unshifted[i]) \in 30..56 /\ ShiftedChars[i] \in 1..255
          /\ ShiftRow[PlainKey(Unshifted[i]) - 29] = ShiftedChars[i]
      BY ShiftedRight
    <3>2. c # 0  BY <2>1, <3>1, SMT
    <3> QED  BY <2>1, <3>1, <3>2
  <2>4. CharToHid(c).mods = {"shift"} /\ CharToHid(c).key = k
        /\ ("shift" \in CharToHid(c).mods) = TRUE
    BY <2>2
  <2> HIDE DEF k
  <2>5. Produces(TRUE, k) = c /\ k \in 4..56
    BY <2>3, SMT DEF Produces
  <2> QED  BY <2>3, <2>4, <2>5
<1>2. CASE ~In(c, ShiftedChars) /\ IsUpper(c)
  <2>1. c \in 65..90  BY <1>2 DEF Accented
  <2>2. CharToHid(c) = [mods |-> {"shift"}, key |-> c - 61]
    BY <1>2, <2>1, SMT DEF CharToHid, Lower
  <2> QED  BY <2>1, <2>2, SMT DEF Produces
<1>3. CASE ~In(c, ShiftedChars) /\ ~IsUpper(c)
  <2>1. CharToHid(c) = [mods |-> {}, key |-> PlainKey(c)]
    BY <1>3 DEF CharToHid
  <2>2. CharToHid(c).mods = {} /\ CharToHid(c).key = PlainKey(c)
        /\ ("shift" \in CharToHid(c).mods) = FALSE
    BY <2>1
  <2>3. c # 0 /\ PlainKey(c) \in 4..56 /\ Produces(FALSE, PlainKey(c)) = c
    BY <2>2, PlainRight
  <2> QED  BY <2>2, <2>3
<1> QED  BY <1>1, <1>2, <1>3

\* str.lower leaves nothing that str.isupper would take.
LEMMA LowerIsNotUpper ==
  ASSUME NEW c \in Chars
  PROVE  Lower(c) \in Chars /\ ~IsUpper(Lower(c))
BY SMT DEF Chars, Lower, IsUpper

\* What the two rows of the layout hold, and where.
LEMMA RowsDiffer ==
  /\ \A i, j \in 1..27 : PlainRow[i] = PlainRow[j] /\ PlainRow[i] # 0 => i = j
  /\ \A i, j \in 1..27 : ShiftRow[i] = ShiftRow[j] /\ ShiftRow[i] # 0 => i = j
  /\ \A i, j \in 1..27 : PlainRow[i] = ShiftRow[j] /\ PlainRow[i] # 0 => i = j
<1>1. \A i, j \in 1..27 : PlainRow[i] = PlainRow[j] /\ PlainRow[i] # 0 => i = j
  BY SMT DEF PlainRow
<1>2. \A i, j \in 1..27 : ShiftRow[i] = ShiftRow[j] /\ ShiftRow[i] # 0 => i = j
  BY SMT DEF ShiftRow
<1>3. \A i, j \in 1..27 : PlainRow[i] = ShiftRow[j] /\ PlainRow[i] # 0 => i = j
  BY SMT DEF PlainRow, ShiftRow
<1> QED  BY <1>1, <1>2, <1>3

\* Letters have keys of their own.
LEMMA RowsHoldNoLetter ==
  \A i \in 1..27 : /\ PlainRow[i] \in Nat /\ PlainRow[i] \notin (65..90) \union (97..122)
                   /\ ShiftRow[i] \in Nat /\ ShiftRow[i] \notin (65..90) \union (97..122)
<1>1. \A i \in 1..27 : PlainRow[i] \in Nat /\ PlainRow[i] \notin (65..90) \union (97..122)
  BY SMT DEF PlainRow
<1>2. \A i \in 1..27 : ShiftRow[i] \in Nat /\ ShiftRow[i] \notin (65..90) \union (97..122)
  BY SMT DEF ShiftRow
<1> QED  BY <1>1, <1>2

\* No two keys of the layout produce the same character that is no capital.
LEMMA OneKeyEach ==
  ASSUME NEW s \in BOOLEAN, NEW t \in BOOLEAN, NEW k \in 4..56, NEW l \in 4..56,
         Produces(s, k) = Produces(t, l), Produces(s, k) # 0
  PROVE  k = l
<1>1. CASE k \in 30..56 /\ l \in 30..56
  <2>1. k - 29 \in 1..27 /\ l - 29 \in 1..27  BY <1>1, SMT
  <2>2. /\ Produces(s, k) = IF s THEN ShiftRow[k - 29] ELSE PlainRow[k - 29]
        /\ Produces(t, l) = IF t THEN ShiftRow[l - 29] ELSE PlainRow[l - 29]
    BY <1>1, SMT DEF Produces
  <2> DEFINE i == k - 29
             j == l - 29
  <2> HIDE DEF i, j
  <2>3. i = j
    <3>1. i \in 1..27 /\ j \in 1..27  BY <2>1 DEF i, j
    <3>2. (IF s THEN ShiftRow[i] ELSE PlainRow[i]) = (IF t THEN ShiftRow[j] ELSE PlainRow[j])
          /\ (IF s THEN ShiftRow[i] ELSE PlainRow[i]) # 0
      BY <2>2 DEF i, j
    <3> QED  BY <3>1, <3>2, RowsDiffer
  <2>4. k - 29 = l - 29  BY <2>3 DEF i, j
  <2> QED  BY <2>4, SMT
<1>2. CASE k \in 4..29 /\ l \in 4..29
  BY <1>2, SMT DEF Produces
<1>3. ASSUME NEW a \in 4..29, NEW b \in 30..56, NEW u \in BOOLEAN, NEW v \in BOOLEAN
      PROVE  Produces(u, a) # Produces(v, b)
  <2>1. Produces(u, a) \in (65..90) \union (97..122)  BY <1>3, SMT DEF Produces
  <2>2. b - 29 \in 1..27  BY <1>3, SMT
  <2>3. Produces(v, b) = IF v THEN ShiftRow[b - 29] ELSE PlainRow[b - 29]
    BY <1>3, SMT DEF Produces
  <2> QED  BY <2>1, <2>2, <2>3, RowsHoldNoLetter
<1>4. k \in 4..29 \/ k \in 30..56  BY SMT
<1>5. l \in 4..29 \/ l \in 30..56  BY SMT
<1> QED  BY <1>1, <1>2, <1>3, <1>4, <1>5

\* Every character on the rows of the layout has a key to be typed with.
LEMMA RowsAreTyped ==
  ASSUME NEW i \in 1..27
  PROVE  /\ PlainRow[i] # 0 => CharToHid(PlainRow[i]).key # NoKey
         /\ ShiftRow[i] # 0 => CharToHid(ShiftRow[i]).key # NoKey
         /\ ~In(PlainRow[i], ShiftedChars)
<1>1. \/ PlainRow[i] = 0 \/ PlainRow[i] \in 48..57 \/ PlainRow[i] = 10
      \/ \E j \in 1..12 : PlainRow[i] = PunctChars[j]
  BY SMT DEF PlainRow, PunctChars
<1>2. \/ ShiftRow[i] = 0 \/ ShiftRow[i] = 10 \/ ShiftRow[i] = 32
      \/ \E j \in 1..21 : ShiftRow[i] = ShiftedChars[j]
  BY SMT DEF ShiftRow, ShiftedChars
<1>3. \A j \in 1..21 : PlainRow[i] # ShiftedChars[j]
  BY SMT DEF PlainRow, ShiftedChars
<1>4. DOMAIN ShiftedChars = 1..21 /\ DOMAIN PunctChars = 1..12 /\ PunctChars[12] = 32
  BY SMT DEF ShiftedChars, PunctChars
<1>5. ~In(PlainRow[i], ShiftedChars)  BY <1>3, <1>4 DEF In
<1>6. \A j \in 1..12 : PunctKeys[j] \in 44..56  BY SMT DEF PunctKeys
<1>7. ASSUME NEW c, c \in 48..57 \/ c = 10 \/ In(c, PunctChars)
      PROVE  PlainKey(c) # NoKey
  <2>1. CASE c \in 97..122  BY <2>1, SMT DEF PlainKey, NoKey
  <2>2. CASE c = 48  BY <2>2, SMT DEF PlainKey, NoKey
  <2>3. CASE c \in 49..57  BY <2>3, SMT DEF PlainKey, NoKey
  <2>4. CASE c \notin 97..122 /\ c # 48 /\ c \notin 49..57 /\ In(c, PunctChars)
    <3>1. PICK j \in 1..12 : c = PunctChars[j]  BY <2>4, <1>4 DEF In
    <3>2. PlainKey(c) = PunctKeys[j]  BY <2>4, <3>1, PunctEntry DEF PlainKey
    <3> QED  BY <3>2, <1>6, SMT DEF NoKey
  <2>5. CASE c \notin 97..122 /\ c # 48 /\ c \notin 49..57 /\ ~In(c, PunctChars)
    <3>1. c = 10  BY <1>7, <2>5, SMT
    <3> QED  BY <2>5, <3>1 DEF PlainKey, NoKey
  <2> QED  BY <2>1, <2>2, <2>3, <2>4, <2>5
<1>8. ASSUME NEW c, c \in 48..57 \/ c = 10 \/ In(c, PunctChars)
      PROVE  CharToHid(c).key # NoKey
  <2>1. CASE In(c, ShiftedChars)
    <3>1. PICK j \in 1..21 : c = ShiftedChars[j]  BY <2>1, <1>4 DEF In
    <3>2. CharToHid(c).key = PlainKey(Unshifted[j])
      BY <2>1, <3>1, ShiftedEntry DEF CharToHid
    <3> QED  BY <3>2, ShiftedRight, SMT DEF NoKey
  <2>2. CASE ~In(c, ShiftedChars)
    <3>1. ~IsUpper(c)
      <4>1. \A j \in 1..12 : ~IsUpper(PunctChars[j])  BY SMT DEF PunctChars, IsUpper
      <4>2. CASE In(c, PunctChars)  BY <4>1, <4>2, <1>4 DEF In
      <4>3. CASE c \in 48..57 \/ c = 10  BY <4>3, SMT DEF IsUpper
      <4> QED  BY <4>2, <4>3, <1>8
    <3> QED  BY <2>2, <3>1, <1>7, <1>8 DEF CharToHid
  <2> QED  BY <2>1, <2>2
<1>9. PlainRow[i] # 0 => CharToHid(PlainRow[i]).key # NoKey
  BY <1>1, <1>4, <1>8 DEF In
<1>10. ShiftRow[i] # 0 => CharToHid(ShiftRow[i]).key # NoKey
  <2>1. CASE \E j \in 1..21 : ShiftRow[i] = ShiftedChars[j]
    <3>1. PICK j \in 1..21 : ShiftRow[i] = ShiftedChars[j]  BY <2>1
    <3>2. CharToHid(ShiftRow[i]).key = PlainKey(Unshifted[j])
      BY <3>1, ShiftedEntry DEF CharToHid
    <3> QED  BY <3>2, ShiftedRight, SMT DEF NoKey
  <2>2. CASE ShiftRow[i] = 10  BY <2>2, <1>8
  <2>3. CASE ShiftRow[i] = 32
    BY <2>3, <1>4, <1>8 DEF In
  <2> QED  BY <1>2, <2>1, <2>2, <2>3
<1> QED  BY <1>5, <1>9, <1>10

-----------------------------------------------------------------------------
(* The names of keys.                                                      *)

\* A lower case character is refused exactly when it is on no US key.
LEMMA LowerIsTyped ==
  ASSUME NEW c \in Chars
  PROVE  CharToHid(Lower(c)).key # NoKey <=> OnLayout(Lower(c))
<1> DEFINE d == Lower(c)
<1>1. d \in Chars /\ ~IsUpper(d)  BY LowerIsNotUpper
<1> HIDE DEF d
<1>2. d \in Chars \ Accented  BY <1>1 DEF Accented
<1>3. ASSUME CharToHid(d).key # NoKey PROVE OnLayout(d)
  <2> DEFINE s == "shift" \in CharToHid(d).mods
  <2>1. s \in BOOLEAN /\ CharToHid(d).key \in 4..56 /\ d # 0 /\ Produces(s, CharToHid(d).key) = d
    BY <1>2, <1>3, CharacterArrives
  <2> QED  BY <2>1 DEF OnLayout
<1>4. ASSUME OnLayout(d) PROVE CharToHid(d).key # NoKey
  <2>1. PICK s \in BOOLEAN, k \in 4..56 : Produces(s, k) = d  BY <1>4 DEF OnLayout
  <2>2. d # 0  BY <1>4 DEF OnLayout
  <2>3. CASE k \in 4..29
    <3>1. d \in 65..90 \/ d \in 97..122  BY <2>1, <2>3, SMT DEF Produces
    <3>2. d \in 97..122  BY <1>1, <3>1, SMT DEF IsUpper
    <3>3. PlainKey(d) # NoKey  BY <3>2, SMT DEF PlainKey, NoKey
    <3>4. ~In(d, ShiftedChars)  BY <3>2, SMT DEF In, ShiftedChars
    <3> QED  BY <1>1, <3>3, <3>4 DEF CharToHid
  <2>4. CASE k \in 30..56
    <3> DEFINE i == k - 29
    <3>1. i \in 1..27 /\ d = IF s THEN ShiftRow[i] ELSE PlainRow[i]
      BY <2>1, <2>4, SMT DEF Produces
    <3> HIDE DEF i
    <3> QED  BY <2>2, <3>1, RowsAreTyped
  <2> QED  BY <2>3, <2>4, SMT
<1> QED  BY <1>3, <1>4 DEF d

\* A name of a key is refused exactly when no key goes by it.
LEMMA KnownOnKeyboard ==
  ASSUME NEW name \in KeyNames
  PROVE  Unknown(name) <=> ~OnKeyboard(name)
<1>1. CASE name.sort = "char"
  <2>1. name.char \in Chars  BY <1>1 DEF KeyNames
  <2> QED  BY <1>1, <2>1, LowerIsTyped DEF Unknown, OnKeyboard
<1>2. CASE name.sort # "char"
  BY <1>2 DEF Unknown, OnKeyboard
<1> QED  BY <1>1, <1>2

\* What the two sorts of names are translated to.
LEMMA ModifierName ==
  ASSUME NEW name \in KeyNames, name.sort = "mod"
  PROVE  KeyToHid(name) = [mods |-> {name.mod}, key |-> NoKey] /\ name.mod \in Modifiers
BY DEF KeyToHid, KeyNames

\* A key that is no modifier: its usage id, and shift where it takes it.
LEMMA MainKeyName ==
  ASSUME NEW name \in KeyNames, ~Unknown(name), name.sort # "mod"
  PROVE  /\ KeyToHid(name).key = KeyOf(name) /\ KeyOf(name) \in 1..255
         /\ KeyToHid(name).mods = IF NeedsShift(name) THEN {"shift"} ELSE {}
<1>1. CASE name.sort = "named"
  <2>1. name.key \in NamedKeys  BY <1>1 DEF KeyNames
  <2>2. name.key \in 1..255  BY <2>1, SMT DEF NamedKeys
  <2> QED  BY <1>1, <2>2 DEF KeyToHid, KeyOf, NeedsShift
<1>2. CASE name.sort = "char"
  <2> DEFINE d == Lower(name.char)
             h == CharToHid(d)
  <2>1. name.char \in Chars  BY <1>2 DEF KeyNames
  <2>2. d \in Chars \ Accented /\ ~IsUpper(d)
    BY <2>1, LowerIsNotUpper DEF Accented
  <2>3. h.key # NoKey  BY <1>2 DEF Unknown
  <2> HIDE DEF d
  <2>4. /\ h.mods \subseteq {"shift"} /\ h.key \in 4..56 /\ d # 0
        /\ Produces("shift" \in h.mods, h.key) = d
    BY <2>2, <2>3, CharacterArrives
  <2>5. ("shift" \in h.mods) \in BOOLEAN  OBVIOUS
  <2>6. ASSUME NEW k \in 4..56, NEW s \in BOOLEAN, Produces(s, k) = d
        PROVE  k = h.key
    BY <2>4, <2>5, <2>6, OneKeyEach
  <2>7. (CHOOSE k \in 4..56 : \E s \in BOOLEAN : Produces(s, k) = d) = h.key
    BY <2>4, <2>5, <2>6
  <2>8. KeyToHid(name) = h /\ KeyOf(name) = h.key
    BY <1>2, <2>7 DEF KeyToHid, KeyOf, d
  <2>9. NeedsShift(name) <=> h.mods = {"shift"}
    <3>1. ASSUME h.mods # {"shift"} PROVE \E k \in 4..56 : Produces(FALSE, k) = d
      <4>1. ("shift" \in h.mods) = FALSE  BY <2>4, <3>1
      <4> QED  BY <2>4, <4>1
    <3>2. ASSUME h.mods = {"shift"}, NEW k \in 4..56 PROVE Produces(FALSE, k) # d
      <4>1. In(d, ShiftedChars)
        BY <2>2, <3>2 DEF CharToHid
      <4>2. CASE k \in 4..29
        <5>1. Produces(FALSE, k) \in 97..122  BY <4>2, SMT DEF Produces
        <5>2. d \notin 97..122  BY <4>1, SMT DEF In, ShiftedChars
        <5> QED  BY <5>1, <5>2
      <4>3. CASE k \in 30..56
        <5>1. k - 29 \in 1..27 /\ Produces(FALSE, k) = PlainRow[k - 29]
          BY <4>3, SMT DEF Produces
        <5> QED  BY <4>1, <5>1, RowsAreTyped
      <4>4. k \in 4..29 \/ k \in 30..56  BY SMT
      <4> QED  BY <4>2, <4>3, <4>4
    <3>3. name.sort = "char" /\ Lower(name.char) = d  BY <1>2 DEF d
    <3> QED  BY <3>1, <3>2, <3>3 DEF NeedsShift
  <2>10. h.mods = {"shift"} \/ h.mods = {}  BY <2>4
  <2>11. h.key \in 1..255  BY <2>4, SMT
  <2> QED  BY <2>8, <2>9, <2>10, <2>11
<1> QED  BY <1>1, <1>2 DEF KeyNames, Unknown

\* What is written for a chord is the keys it names, with the modifiers it names.
LEMMA ChordIsNamed ==
  ASSUME NEW keys \in Seq(KeyNames), \A i \in DOMAIN keys : ~Unknown(keys[i])
  PROVE  /\ Chord(keys) = KbdReport(ChordMods(keys), ChordKeys(keys))
         /\ ChordMods(keys) \subseteq Modifiers /\ ChordKeys(keys) \subseteq 1..255
<1> DEFINE hids == {KeyToHid(keys[i]) : i \in DOMAIN keys}
           shifted == IF \E k \in MainKeys(keys) : NeedsShift(k) THEN {"shift"} ELSE {}
           named == {m.mod : m \in ModNames(keys)}
<1>1. \A i \in DOMAIN keys : keys[i] \in KeyNames  OBVIOUS
<1>2. \A n \in ModNames(keys) : n \in KeyNames /\ n.sort = "mod"
  BY <1>1 DEF ModNames
<1>3. \A n \in MainKeys(keys) : n \in KeyNames /\ ~Unknown(n) /\ n.sort # "mod"
  BY <1>1 DEF MainKeys
<1>4. hids = {KeyToHid(n) : n \in ModNames(keys)} \union {KeyToHid(n) : n \in MainKeys(keys)}
  BY DEF ModNames, MainKeys
<1>5. \A n \in ModNames(keys) : KeyToHid(n).mods = {n.mod} /\ KeyToHid(n).key = NoKey /\ n.mod \in Modifiers
  BY <1>2, ModifierName
<1>6. \A n \in MainKeys(keys) :
        /\ KeyToHid(n).key = KeyOf(n) /\ KeyOf(n) \in 1..255
        /\ KeyToHid(n).mods = IF NeedsShift(n) THEN {"shift"} ELSE {}
  BY <1>3, MainKeyName
<1>7. \A n \in MainKeys(keys) : KeyOf(n) # NoKey
  <2>1. 0 \notin 1..255  BY SMT
  <2> QED  BY <1>6, <2>1 DEF NoKey
<1>8. {h.key : h \in hids} \ {NoKey} = {KeyOf(k) : k \in MainKeys(keys)}
  <2>1. ASSUME NEW h \in hids, h.key # NoKey
        PROVE  h.key \in {KeyOf(k) : k \in MainKeys(keys)}
    <3>1. CASE \E n \in ModNames(keys) : h = KeyToHid(n)
      BY <2>1, <3>1, <1>5
    <3>2. CASE \E n \in MainKeys(keys) : h = KeyToHid(n)
      BY <3>2, <1>6
    <3> QED  BY <1>4, <3>1, <3>2
  <2>2. ASSUME NEW n \in MainKeys(keys)
        PROVE  KeyToHid(n) \in hids /\ KeyToHid(n).key = KeyOf(n) /\ KeyOf(n) # NoKey
    BY <1>4, <1>6, <1>7
  <2> HIDE DEF hids
  <2> QED  BY <2>1, <2>2
<1>9. UNION {h.mods : h \in hids} = named \union shifted
  <2>1. ASSUME NEW m \in UNION {h.mods : h \in hids} PROVE m \in named \union shifted
    <3>1. PICK h \in hids : m \in h.mods  BY <2>1
    <3>2. CASE \E n \in ModNames(keys) : h = KeyToHid(n)
      BY <3>1, <3>2, <1>5
    <3>3. CASE \E n \in MainKeys(keys) : h = KeyToHid(n)
      BY <3>1, <3>3, <1>6
    <3> QED  BY <1>4, <3>1, <3>2, <3>3
  <2>2. ASSUME NEW m \in named PROVE m \in UNION {h.mods : h \in hids}
    BY <2>2, <1>4, <1>5
  <2>3. ASSUME NEW m \in shifted PROVE m \in UNION {h.mods : h \in hids}
    <3>1. PICK n \in MainKeys(keys) : NeedsShift(n) /\ m = "shift"  BY <2>3
    <3> QED  BY <3>1, <1>4, <1>6
  <2> QED  BY <2>1, <2>2, <2>3
<1>10. named \union shifted \subseteq Modifiers
  BY <1>5 DEF Modifiers
<1>11. {KeyOf(k) : k \in MainKeys(keys)} \subseteq 1..255  BY <1>6
<1> QED  BY <1>8, <1>9, <1>10, <1>11 DEF Chord, ChordMods, ChordKeys

-----------------------------------------------------------------------------
(* The reports are reports.                                                *)

\* A nonempty set of positions has a first, which CHOOSE finds.
LEMMA LeastOf ==
  ASSUME NEW T, T \subseteq Nat, T # {}
  PROVE  \E x \in T : \A y \in T : x <= y
<1> DEFINE R == OpToRel(<, Nat)
<1>1. IsWellFoundedOn(R, Nat)  BY NatLessThanWellFounded
<1>2. \A x, y \in Nat : <<x, y>> \in R <=> x < y  BY Zenon DEF OpToRel
<1> HIDE DEF R
<1>3. PICK x \in T : \A y \in T : ~(<<y, x>> \in R)  BY <1>1, WFMin
<1>4. \A y \in T : x \in Nat /\ y \in Nat /\ ~(y < x)  BY <1>2, <1>3
<1> QED  BY <1>3, <1>4, SMT

\* execute types a beginning of the text: up to the first character that has
\* no key, or all of it.
LEMMA TypeableBegins ==
  ASSUME NEW text \in Seq(Chars)
  PROVE  /\ Typeable(text) \in Seq(Chars) /\ Len(Typeable(text)) <= Len(text)
         /\ Typeable(text) # text => Len(Typeable(text)) < Len(text)
         /\ \A i \in 1..Len(Typeable(text)) :
              Typeable(text)[i] = text[i] /\ CharToHid(text[i]).key # NoKey
<1> DEFINE bad == {i \in DOMAIN text : CharToHid(text[i]).key = NoKey}
           first == CHOOSE i \in bad : \A j \in bad : i <= j
<1>0. DOMAIN text = 1..Len(text) /\ Len(text) \in Nat
      /\ \A i \in 1..Len(text) : text[i] \in Chars
  OBVIOUS
<1>1. CASE bad = {}
  <2>1. Typeable(text) = text  BY <1>1 DEF Typeable
  <2>2. \A i \in 1..Len(text) : CharToHid(text[i]).key # NoKey
    BY <1>0, <1>1
  <2>3. Len(text) <= Len(text)  BY <1>0, SMT
  <2> QED  BY <2>1, <2>2, <2>3
<1>2. CASE bad # {}
  <2>1. bad \subseteq Nat  BY <1>0, SMT
  <2>2. \E i \in bad : \A j \in bad : i <= j  BY <1>2, <2>1, LeastOf
  <2>3. first \in bad /\ \A j \in bad : first <= j  BY <2>2
  <2>4. Typeable(text) = SubSeq(text, 1, first - 1)  BY <1>2 DEF Typeable
  <2>5. first \in 1..Len(text)  BY <1>0, <2>3
  <2> HIDE DEF first
  <2>6. \A i \in 1..(first - 1) : i \in 1..Len(text) /\ text[i] \in Chars
    BY <1>0, <2>5, SMT
  <2>7. \A i \in 1..(first - 1) : CharToHid(text[i]).key # NoKey
    <3>1. ASSUME NEW i \in 1..(first - 1), i \in bad PROVE FALSE
      <4>1. first <= i  BY <2>3, <3>1
      <4> QED  BY <4>1, <2>5, SMT
    <3> QED  BY <1>0, <2>6, <3>1
  <2>8. /\ Typeable(text) \in Seq(Chars) /\ Len(Typeable(text)) = first - 1
        /\ \A i \in 1..(first - 1) : Typeable(text)[i] = text[i]
    BY <1>0, <2>4, <2>5, <2>6, SMT
  <2>9. first - 1 < Len(text) /\ first - 1 <= Len(text)  BY <2>5, <1>0, SMT
  <2> QED  BY <2>7, <2>8, <2>9
<1> QED  BY <1>1, <1>2

-----------------------------------------------------------------------------
\* The reports that are built are reports the device knows.
LEMMA AllUpTyped == AllUp \in KbdReports
BY DEF AllUp, KbdReport, KbdReports

\* A character that is not refused is pressed by a report.
LEMMA PressTyped ==
  ASSUME NEW c \in Chars, CharToHid(c).key # NoKey
  PROVE  Press(c) \in KbdReports
<1>1. CharToHid(c).mods \subseteq Modifiers /\ CharToHid(c).key \in 1..255
  <2>1. CASE In(c, ShiftedChars)
    <3>1. PICK i \in 1..21 : c = ShiftedChars[i]  BY <2>1, SMT DEF In, ShiftedChars
    <3>2. CharToHid(c) = [mods |-> {"shift"}, key |-> PlainKey(Unshifted[i])]
      BY <2>1, <3>1, ShiftedEntry DEF CharToHid
    <3>3. PlainKey(Unshifted[i]) \in 30..56  BY ShiftedRight
    <3>4. PlainKey(Unshifted[i]) \in 1..255
      <4> DEFINE k == PlainKey(Unshifted[i])
      <4>1. k \in 30..56 BY <3>3
      <4> HIDE DEF k
      <4>2. k \in 1..255 BY <4>1, SMT
      <4> QED  BY <4>2 DEF k
    <3> QED  BY <3>2, <3>4 DEF Modifiers
  <2>2. CASE ~In(c, ShiftedChars) /\ IsUpper(c)
    <3>1. CharToHid(c) = [mods |-> {"shift"}, key |-> c - 61]
      BY <2>2, SMT DEF CharToHid, Lower, Chars
    <3>2. c - 61 \in 1..255  BY <2>2, SMT DEF IsUpper
    <3> QED  BY <3>1, <3>2 DEF Modifiers
  <2>3. CASE ~In(c, ShiftedChars) /\ ~IsUpper(c)
    <3>1. CharToHid(c) = [mods |-> {}, key |-> PlainKey(c)]
      BY <2>3 DEF CharToHid
    <3>2. PlainKey(c) # NoKey  BY <3>1
    <3>4. PlainKey(c) \in 4..56  BY <3>2, PlainRight
    <3>3. PlainKey(c) \in 1..255
      <4> DEFINE k == PlainKey(c)
      <4>1. k \in 4..56  BY <3>4
      <4> HIDE DEF k
      <4>2. k \in 1..255 BY <4>1, SMT
      <4> QED  BY <4>2 DEF k
    <3> QED  BY <3>1, <3>3 DEF Modifiers
  <2> QED  BY <2>1, <2>2, <2>3
<1> QED  BY <1>1 DEF Press, KbdReport, KbdReports

\* Positions are clamped to the axis, a wheel to one byte.
LEMMA MouseTyped ==
  ASSUME NEW at \in Int, NEW down \in SUBSET {"left", "right"}, NEW wheel \in Int
  PROVE  MouseReport(at, down, wheel) \in MouseReports
<1>1. Clamped(at, 0, AbsMax) \in 0..AbsMax
  BY SMT DEF Clamped, Larger, Smaller, AbsMax
<1>2. wheel % 256 \in 0..255  BY SMT
<1> QED  BY <1>1, <1>2 DEF MouseReport, MouseReports

\* Any coordinate is clamped to the screen.
LEMMA AbsTyped ==
  ASSUME NEW x \in Int
  PROVE  Abs(x) \in Int
<1> DEFINE y == Clamped(x, 0, Width - 1)
<1>1. y \in 0..(Width - 1)
  BY WidthAssumption, SMT DEF WidthAssumption, Clamped, Larger, Smaller
<1>2. Clamped(y, 0, Width - 1) = y
  <2> HIDE DEF y
  <2> QED  BY <1>1, WidthAssumption, SMT DEF WidthAssumption, Clamped, Larger, Smaller
<1>3. Abs(y) = Abs(x)  BY <1>2 DEF Abs
<1>4. Abs(y) \in 0..AbsMax  BY <1>1, AbsIsOnScreen
<1> QED  BY <1>3, <1>4, SMT

-----------------------------------------------------------------------------
(* The reports of one action.                                              *)

\* The reports of one action go to one device, and the last lets go of it.
Fits(rs, dev) ==
  /\ rs \in Seq(IF dev = "kbd" THEN KbdReports ELSE MouseReports)
  /\ rs # << >> => IF dev = "kbd" THEN rs[Len(rs)] = AllUp
                   ELSE rs[Len(rs)].buttons = {}

\* Two taps, written out.
LEMMA PairOfReports ==
  ASSUME NEW r, NEW s
  PROVE  /\ <<r, s>> \o <<r, s>> = <<r, s, r, s>>
         /\ Len(<<r, s>>) = 2 /\ Len(<<r, s, r, s>>) = 4
<1>1. <<r, s>> \in Seq({r, s})  OBVIOUS
<1>2. Len(<<r, s>>) = 2 /\ Len(<<r, s, r, s>>) = 4  OBVIOUS
<1>3. /\ <<r, s>> \o <<r, s>> \in Seq({r, s})
      /\ Len(<<r, s>> \o <<r, s>>) = 4
      /\ \A i \in 1..4 : (<<r, s>> \o <<r, s>>)[i] = IF i <= 2 THEN <<r, s>>[i] ELSE <<r, s>>[i - 2]
  <2>1. /\ <<r, s>> \o <<r, s>> \in Seq({r, s})
        /\ Len(<<r, s>> \o <<r, s>>) = Len(<<r, s>>) + Len(<<r, s>>)
        /\ \A i \in 1..(Len(<<r, s>>) + Len(<<r, s>>)) : (<<r, s>> \o <<r, s>>)[i] =
             IF i <= Len(<<r, s>>) THEN <<r, s>>[i] ELSE <<r, s>>[i - Len(<<r, s>>)]
    BY <1>1, ConcatProperties
  <2>2. 2 + 2 = 4 OBVIOUS
  <2> QED  BY <1>2, <2>1, <2>2
<1>4. <<r, s, r, s>> \in Seq({r, s})  OBVIOUS
<1>5. \A i \in 1..4 : <<r, s, r, s>>[i] = IF i <= 2 THEN <<r, s>>[i] ELSE <<r, s>>[i - 2]
  BY SMT
<1> DEFINE p == <<r, s>> \o <<r, s>>
           q == <<r, s, r, s>>
<1>6. \A i \in 1..4 : p[i] = q[i]  BY <1>3, <1>5
<1>7. p \in Seq({r, s}) /\ q \in Seq({r, s}) /\ Len(p) = 4 /\ Len(q) = 4
  BY <1>2, <1>3, <1>4
<1> HIDE DEF p, q
<1>8. p = q  BY <1>6, <1>7, SMT
<1> QED  BY <1>2, <1>8 DEF p, q

\* Clicks.
LEMMA TapFits ==
  ASSUME NEW x \in Int, NEW b \in {"left", "right"}
  PROVE  Fits(Tap(x, b), "mouse") /\ Fits(Tap(x, b) \o Tap(x, b), "mouse")
<1> DEFINE r == MouseReport(Abs(x), {b}, 0)
           s == MouseReport(Abs(x), {}, 0)
<1>1. Abs(x) \in Int /\ {b} \in SUBSET {"left", "right"} /\ {} \in SUBSET {"left", "right"} /\ 0 \in Int
  BY AbsTyped
<1>2. r \in MouseReports /\ s \in MouseReports
  BY <1>1, MouseTyped
<1>3. s.buttons = {}  BY DEF MouseReport
<1>4. Tap(x, b) = <<r, s>>  BY DEF Tap
<1> HIDE DEF r, s
<1>5. Tap(x, b) \o Tap(x, b) = <<r, s, r, s>>  BY <1>4, PairOfReports
<1>6. <<r, s>> \in Seq(MouseReports) /\ <<r, s, r, s>> \in Seq(MouseReports)
  BY <1>2
<1>7. <<r, s>>[2] = s /\ <<r, s, r, s>>[4] = s  OBVIOUS
<1> QED  BY <1>3, <1>4, <1>5, <1>6, <1>7, PairOfReports DEF Fits

\* A text: the keys are let go after each character.
LEMMA TypeFits ==
  ASSUME NEW text \in Seq(Chars), \A i \in 1..Len(text) : CharToHid(text[i]).key # NoKey
  PROVE  Fits(TypeReports(text), "kbd") /\ Len(TypeReports(text)) = 2 * Len(text)
<1> DEFINE n == Len(text)
           R == TypeReports(text)
<1>1. n \in Nat /\ 2 * n \in Nat  BY SMT
<1>2. ASSUME NEW i \in 1..(2 * n)
      PROVE  (IF i % 2 = 1 THEN Press(text[(i + 1) \div 2]) ELSE AllUp) \in KbdReports
  <2>1. CASE i % 2 = 1
    <3>1. (i + 1) \div 2 \in 1..n  BY <1>1, <1>2, <2>1, SMT
    <3>2. text[(i + 1) \div 2] \in Chars /\ CharToHid(text[(i + 1) \div 2]).key # NoKey
      BY <3>1
    <3> QED  BY <2>1, <3>2, PressTyped
  <2>2. CASE i % 2 # 1  BY <2>2, AllUpTyped
  <2> QED  BY <2>1, <2>2
<1>3. R = [i \in 1..(2 * n) |-> IF i % 2 = 1 THEN Press(text[(i + 1) \div 2]) ELSE AllUp]
  BY DEF TypeReports
<1> HIDE DEF n, R
<1>4. R \in Seq(KbdReports) /\ Len(R) = 2 * n
  <2>1. R \in [1..(2 * n) -> KbdReports]  BY <1>2, <1>3
  <2> QED  BY <1>1, <2>1, SMT
<1>5. R # << >> => R[Len(R)] = AllUp
  <2> SUFFICES ASSUME R # << >> PROVE R[2 * n] = AllUp  BY <1>4
  <2>1. 2 * n # 0  BY <1>4, SMT
  <2>2. 2 * n \in 1..(2 * n) /\ (2 * n) % 2 # 1  BY <1>1, <2>1, SMT
  <2> QED  BY <1>3, <2>2
<1> QED  BY <1>4, <1>5 DEF Fits, n, R

\* It is so of every action.
LEMMA ReportsFit ==
  ASSUME NEW a, WellFormed(a)
  PROVE  Fits(Reports(a), Device(a))
<1>1. CASE a.kind = "click"
  <2>1. a.x \in Int  BY <1>1 DEF WellFormed, Clicking
  <2> QED  BY <1>1, <2>1, TapFits DEF Reports, Device
<1>2. CASE a.kind = "right_click"
  <2>1. a.x \in Int  BY <1>2 DEF WellFormed, Clicking
  <2> QED  BY <1>2, <2>1, TapFits DEF Reports, Device
<1>3. CASE a.kind = "double_click"
  <2>1. a.x \in Int  BY <1>3 DEF WellFormed, Clicking
  <2> QED  BY <1>3, <2>1, TapFits DEF Reports, Device
<1>4. CASE a.kind = "type"
  <2>1. a.text \in Seq(Chars)  BY <1>4 DEF WellFormed
  <2>2. Fits(TypeReports(Typeable(a.text)), "kbd")
    <3> DEFINE t == Typeable(a.text)
    <3>1. t \in Seq(Chars) /\ \A i \in 1..Len(t) : CharToHid(t[i]).key # NoKey
      BY <2>1, TypeableBegins
    <3> HIDE DEF t
    <3>2. Fits(TypeReports(t), "kbd")  BY <3>1, TypeFits
    <3> QED  BY <3>2 DEF t
  <2> QED  BY <1>4, <2>2 DEF Reports, Device
<1>5. CASE a.kind = "key"
  <2>1. a.keys \in Seq(KeyNames)  BY <1>5 DEF WellFormed
  <2>2. CASE \A i \in DOMAIN a.keys : ~Unknown(a.keys[i])
    <3>1. Reports(a) = <<Chord(a.keys), AllUp>>  BY <1>5, <2>2 DEF Reports
    <3>2. Chord(a.keys) \in KbdReports
      <4> DEFINE m == ChordMods(a.keys)
                 k == ChordKeys(a.keys)
      <4>1. Chord(a.keys) = KbdReport(m, k) /\ m \subseteq Modifiers /\ k \subseteq 1..255
        BY <2>1, <2>2, ChordIsNamed
      <4> HIDE DEF m, k
      <4> QED  BY <4>1 DEF KbdReport, KbdReports
    <3> DEFINE r == Chord(a.keys)
               s == AllUp
    <3>3. r \in KbdReports /\ s \in KbdReports  BY <3>2, AllUpTyped
    <3> HIDE DEF r, s
    <3>4. <<r, s>> \in Seq(KbdReports) /\ <<r, s>>[2] = s /\ Len(<<r, s>>) = 2  BY <3>3
    <3> QED  BY <1>5, <3>1, <3>4 DEF Fits, Device, r, s
  <2>3. CASE ~(\A i \in DOMAIN a.keys : ~Unknown(a.keys[i]))
    <3>1. Reports(a) = << >>  BY <1>5, <2>3 DEF Reports
    <3>2. << >> \in Seq(KbdReports)  OBVIOUS
    <3> QED  BY <1>5, <3>1, <3>2 DEF Fits, Device
  <2> QED  BY <2>2, <2>3
<1>6. CASE a.kind = "scroll"
  <2>1. a.x \in Int /\ a.amount \in Int  BY <1>6 DEF WellFormed
  <2>2. Wheel(a.amount) \in Int  BY <2>1, SMT DEF Wheel, Clamped, Larger, Smaller
  <2> DEFINE r == MouseReport(Abs(a.x), {}, Wheel(a.amount))
  <2>3. Abs(a.x) \in Int /\ {} \in SUBSET {"left", "right"}  BY <2>1, AbsTyped
  <2>4. r \in MouseReports /\ r.buttons = {}
    BY <2>2, <2>3, MouseTyped DEF MouseReport
  <2>5. Reports(a) = <<r>>  BY <1>6 DEF Reports
  <2> HIDE DEF r
  <2>6. <<r>> \in Seq(MouseReports) /\ <<r>>[1] = r /\ Len(<<r>>) = 1  BY <2>4
  <2> QED  BY <1>6, <2>4, <2>5, <2>6 DEF Fits, Device
<1>7. CASE a.kind = "drag"
  <2>1. a.x \in Int /\ a.to \in Int  BY <1>7 DEF WellFormed
  <2> DEFINE r == MouseReport(Abs(a.x), {"left"}, 0)
             s == MouseReport(Abs(a.to), {"left"}, 0)
             t == MouseReport(Abs(a.to), {}, 0)
  <2>2. /\ Abs(a.x) \in Int /\ Abs(a.to) \in Int /\ 0 \in Int
        /\ {} \in SUBSET {"left", "right"} /\ {"left"} \in SUBSET {"left", "right"}
    BY <2>1, AbsTyped
  <2>3. r \in MouseReports /\ s \in MouseReports /\ t \in MouseReports
    BY <2>2, MouseTyped
  <2>4. t.buttons = {}  BY DEF MouseReport
  <2>5. Reports(a) = <<r, s, t>>  BY <1>7 DEF Reports, Drag
  <2> HIDE DEF r, s, t
  <2>6. <<r, s, t>> \in Seq(MouseReports) /\ <<r, s, t>>[3] = t /\ Len(<<r, s, t>>) = 3
    BY <2>3
  <2> QED  BY <1>7, <2>4, <2>5, <2>6 DEF Fits, Device
<1>8. CASE a.kind \notin Clicking \union {"type", "key", "scroll", "drag"}
  <2>1. Reports(a) = << >> /\ Device(a) = "mouse"  BY <1>8 DEF Reports, Device, Clicking
  <2>2. << >> \in Seq(MouseReports)  OBVIOUS
  <2> QED  BY <2>1, <2>2 DEF Fits
<1> QED  BY <1>1, <1>2, <1>3, <1>4, <1>5, <1>6, <1>7, <1>8 DEF Clicking

-----------------------------------------------------------------------------
(* The reports of an action make happen what it asks for.                  *)

\* How many of the events an action asks for have happened after j reports.
EventsAfter(a, j) ==
  CASE a.kind = "type"   -> (j + 1) \div 2
    [] a.kind = "key"    -> IF j = 0 \/ ChordKeys(a.keys) = {} THEN 0 ELSE 1
    [] a.kind = "scroll" -> IF a.amount = 0 THEN 0 ELSE j
    [] a.kind = "drag"   -> IF j = 0 THEN 0 ELSE IF j = 3 THEN 2 ELSE 1
    [] OTHER             -> j

KeysAfter(a, j)    == IF j = 0 \/ Device(a) = "mouse" THEN {} ELSE Reports(a)[j].keys
ButtonsAfter(a, j) == IF j = 0 \/ Device(a) = "kbd" THEN {} ELSE Reports(a)[j].buttons

\* Report j + 1 makes the next event happen that the action asks for, or none.
ReportArrives(a, j) ==
  LET h == Happens(Reports(a)[j + 1], KeysAfter(a, j), ButtonsAfter(a, j))
      n == EventsAfter(a, j)
  IN  \/ h = {} /\ EventsAfter(a, j + 1) = n
      \/ /\ h # {} /\ EventsAfter(a, j + 1) = n + 1
         /\ n + 1 \in 1..Len(Asked(a)) /\ Asked(a)[n + 1] = h

Arrives(a) ==
  /\ EventsAfter(a, 0) = 0
  /\ \A j \in 0..(Len(Reports(a)) - 1) : ReportArrives(a, j)
  /\ ~Raises(a) => EventsAfter(a, Len(Reports(a))) = Len(Asked(a))

-----------------------------------------------------------------------------
Pressed(x, b)  == [ev |-> "down", button |-> b, at |-> x]
Released(x, b) == [ev |-> "up", button |-> b, at |-> x]

\* Pressing, letting go and moving happen at the pixel that was meant.
LEMMA MouseHappens ==
  ASSUME NEW x \in 0..(Width - 1), NEW b, NEW keys
  PROVE  /\ Happens(MouseReport(Abs(x), {b}, 0), keys, {}) = {Pressed(x, b)}
         /\ Happens(MouseReport(Abs(x), {}, 0), keys, {b}) = {Released(x, b)}
         /\ Happens(MouseReport(Abs(x), {b}, 0), keys, {b}) = {}
<1>1. Abs(x) \in 0..AbsMax /\ Pixel(Abs(x)) = x  BY AbsIsOnScreen
<1>2. Clamped(Abs(x), 0, AbsMax) = Abs(x)
  <2> DEFINE at == Abs(x)
  <2> HIDE DEF at
  <2>1. at \in 0..AbsMax => Clamped(at, 0, AbsMax) = at
    BY SMT DEF Clamped, Larger, Smaller, AbsMax
  <2> QED  BY <1>1, <2>1 DEF at
<1>3. 0 % 256 = 0  BY SMT
<1>4. ASSUME NEW down
      PROVE  /\ MouseReport(Abs(x), down, 0).dev = "mouse"
             /\ MouseReport(Abs(x), down, 0).buttons = down
             /\ MouseReport(Abs(x), down, 0).wheel = 0
             /\ Pixel(MouseReport(Abs(x), down, 0).at) = x
  BY <1>1, <1>2, <1>3 DEF MouseReport
<1>5. ASSUME NEW down, NEW held
      PROVE  Happens(MouseReport(Abs(x), down, 0), keys, held) =
               {Pressed(x, c) : c \in down \ held} \union {Released(x, c) : c \in held \ down}
  <2> DEFINE r == MouseReport(Abs(x), down, 0)
  <2>1. r.dev = "mouse" /\ r.buttons = down /\ r.wheel = 0 /\ Pixel(r.at) = x  BY <1>4
  <2> HIDE DEF r
  <2> QED  BY <2>1 DEF Happens, Pressed, Released, r
<1> QED  BY <1>5

\* A scroll turns the wheel by the amount, within one byte, or not at all by 0.
LEMMA WheelHappens ==
  ASSUME NEW x \in Int, NEW n \in Int, NEW keys
  PROVE  Happens(MouseReport(Abs(x), {}, Wheel(n)), keys, {}) =
           IF n = 0 THEN {} ELSE {[ev |-> "wheel", amount |-> Wheel(n)]}
<1> DEFINE r == MouseReport(Abs(x), {}, Wheel(n))
           w == Wheel(n)
<1>1. w \in (-127)..127 /\ (w = 0 <=> n = 0)
  BY SMT DEF Wheel, Clamped, Larger, Smaller
<1>2. r.dev = "mouse" /\ r.buttons = {} /\ r.wheel = w % 256  BY DEF MouseReport
<1> HIDE DEF r, w
<1>3. Signed(w % 256) = w /\ (w % 256 = 0 <=> n = 0)
  BY <1>1, SMT DEF Signed
<1>4. Happens(r, keys, {}) = IF n = 0 THEN {} ELSE {[ev |-> "wheel", amount |-> w]}
  BY <1>2, <1>3 DEF Happens
<1> QED  BY <1>4 DEF r, w

\* Pressing the key of a character when none is down makes the character.
LEMMA PressHappens ==
  ASSUME NEW c \in Chars \ Accented, CharToHid(c).key # NoKey, NEW buttons_
  PROVE  Happens(Press(c), {}, buttons_) = {[ev |-> "char", char |-> c]}
<1> DEFINE h == CharToHid(c)
<1>1. /\ h.mods \subseteq {"shift"} /\ c # 0
      /\ Produces("shift" \in h.mods, h.key) = c
  BY CharacterArrives
<1>2. KeyEvent(h.mods, h.key) = [ev |-> "char", char |-> c]
  BY <1>1 DEF KeyEvent
<1>3. Press(c).dev = "kbd" /\ Press(c).mods = h.mods /\ Press(c).keys = {h.key}
  BY DEF Press, KbdReport
<1> HIDE DEF h
<1>4. Happens(Press(c), {}, buttons_) = {KeyEvent(h.mods, k) : k \in {h.key}}
  BY <1>3 DEF Happens
<1> QED  BY <1>2, <1>4

\* Letting go of the keys makes nothing happen.
LEMMA AllUpHappens ==
  ASSUME NEW keys, NEW buttons_
  PROVE  Happens(AllUp, keys, buttons_) = {}
BY DEF Happens, AllUp, KbdReport

-----------------------------------------------------------------------------
\* Each kind of action arrives as it was asked for.
LEMMA ClickArrives ==
  ASSUME NEW a, WellFormed(a), Inside(a), a.kind \in Clicking
  PROVE  Arrives(a)
<1>1. a.x \in 0..(Width - 1)  BY DEF WellFormed, Inside
<1> DEFINE b == IF a.kind = "right_click" THEN "right" ELSE "left"
           r == MouseReport(Abs(a.x), {b}, 0)
           s == MouseReport(Abs(a.x), {}, 0)
           d == {Pressed(a.x, b)}
           u == {Released(a.x, b)}
<1>2. Device(a) = "mouse" /\ ~Raises(a)  BY DEF Device, Raises, Clicking
<1>3. \A keys : Happens(r, keys, {}) = d /\ Happens(s, keys, {b}) = u
  BY <1>1, MouseHappens
<1>4. r.buttons = {b} /\ s.buttons = {} /\ d # {} /\ u # {}  BY DEF MouseReport
<1>5. \A j : EventsAfter(a, j) = j  BY DEF EventsAfter, Clicking
<1>6. CASE a.kind # "double_click"
  <2>1. Reports(a) = <<r, s>> /\ Asked(a) = <<d, u>>
    BY <1>6 DEF Reports, Tap, Asked, Clicks, Clicking, Pressed, Released
  <2> HIDE DEF r, s, d, u, b
  <2>2. Len(Reports(a)) = 2 /\ Reports(a)[1] = r /\ Reports(a)[2] = s
        /\ Len(Asked(a)) = 2 /\ Asked(a)[1] = d /\ Asked(a)[2] = u
    BY <2>1
  <2>3. ReportArrives(a, 0)
    BY <1>2, <1>3, <1>4, <1>5, <2>2 DEF ReportArrives, KeysAfter, ButtonsAfter
  <2>4. ReportArrives(a, 1)
    BY <1>2, <1>3, <1>4, <1>5, <2>2 DEF ReportArrives, KeysAfter, ButtonsAfter
  <2>5. \A j \in 0..(2 - 1) : j = 0 \/ j = 1  BY SMT
  <2> QED  BY <1>2, <1>5, <2>2, <2>3, <2>4, <2>5 DEF Arrives
<1>7. CASE a.kind = "double_click"
  <2>1. Reports(a) = <<r, s, r, s>> /\ Asked(a) = <<d, u, d, u>>
    <3>1. Reports(a) = <<r, s>> \o <<r, s>> /\ Asked(a) = <<d, u>> \o <<d, u>>
      BY <1>7 DEF Reports, Tap, Asked, Clicks, Pressed, Released
    <3> QED  BY <3>1, PairOfReports
  <2> HIDE DEF r, s, d, u, b
  <2>2. Len(Reports(a)) = 4 /\ Reports(a)[1] = r /\ Reports(a)[2] = s
        /\ Reports(a)[3] = r /\ Reports(a)[4] = s
        /\ Len(Asked(a)) = 4 /\ Asked(a)[1] = d /\ Asked(a)[2] = u
        /\ Asked(a)[3] = d /\ Asked(a)[4] = u
    BY <2>1
  <2>3. ReportArrives(a, 0)
    BY <1>2, <1>3, <1>4, <1>5, <2>2 DEF ReportArrives, KeysAfter, ButtonsAfter
  <2>4. ReportArrives(a, 1)
    BY <1>2, <1>3, <1>4, <1>5, <2>2 DEF ReportArrives, KeysAfter, ButtonsAfter
  <2>5. ReportArrives(a, 2)
    BY <1>2, <1>3, <1>4, <1>5, <2>2 DEF ReportArrives, KeysAfter, ButtonsAfter
  <2>6. ReportArrives(a, 3)
    BY <1>2, <1>3, <1>4, <1>5, <2>2 DEF ReportArrives, KeysAfter, ButtonsAfter
  <2>7. \A j \in 0..(4 - 1) : j = 0 \/ j = 1 \/ j = 2 \/ j = 3  BY SMT
  <2> QED  BY <1>2, <1>5, <2>2, <2>3, <2>4, <2>5, <2>6, <2>7 DEF Arrives
<1> QED  BY <1>6, <1>7

\* Pressed at the one place, let go at the other.
LEMMA DragArrives ==
  ASSUME NEW a, WellFormed(a), Inside(a), a.kind = "drag"
  PROVE  Arrives(a)
<1>1. a.x \in 0..(Width - 1) /\ a.to \in 0..(Width - 1)  BY DEF WellFormed, Inside
<1> DEFINE r == MouseReport(Abs(a.x), {"left"}, 0)
           s == MouseReport(Abs(a.to), {"left"}, 0)
           t == MouseReport(Abs(a.to), {}, 0)
           d == {Pressed(a.x, "left")}
           u == {Released(a.to, "left")}
<1>2. Device(a) = "mouse" /\ ~Raises(a)  BY DEF Device, Raises
<1>3. \A keys : /\ Happens(r, keys, {}) = d /\ Happens(s, keys, {"left"}) = {}
                /\ Happens(t, keys, {"left"}) = u
  BY <1>1, MouseHappens
<1>4. r.buttons = {"left"} /\ s.buttons = {"left"} /\ d # {} /\ u # {}  BY DEF MouseReport
<1>5. \A j : EventsAfter(a, j) = IF j = 0 THEN 0 ELSE IF j = 3 THEN 2 ELSE 1
  BY DEF EventsAfter
<1>6. Reports(a) = <<r, s, t>> /\ Asked(a) = <<d, u>>
  BY DEF Reports, Drag, Asked, Pressed, Released
<1> HIDE DEF r, s, t, d, u
<1>7. Len(Reports(a)) = 3 /\ Reports(a)[1] = r /\ Reports(a)[2] = s /\ Reports(a)[3] = t
      /\ Len(Asked(a)) = 2 /\ Asked(a)[1] = d /\ Asked(a)[2] = u
  BY <1>6
<1>8. ReportArrives(a, 0)
  BY <1>2, <1>3, <1>4, <1>5, <1>7 DEF ReportArrives, KeysAfter, ButtonsAfter
<1>9. ReportArrives(a, 1)
  BY <1>2, <1>3, <1>4, <1>5, <1>7 DEF ReportArrives, KeysAfter, ButtonsAfter
<1>10. ReportArrives(a, 2)
  BY <1>2, <1>3, <1>4, <1>5, <1>7 DEF ReportArrives, KeysAfter, ButtonsAfter
<1>11. \A j \in 0..(3 - 1) : j = 0 \/ j = 1 \/ j = 2  BY SMT
<1> QED  BY <1>2, <1>5, <1>7, <1>8, <1>9, <1>10, <1>11 DEF Arrives

\* The wheel, once.
LEMMA ScrollArrives ==
  ASSUME NEW a, WellFormed(a), a.kind = "scroll"
  PROVE  Arrives(a)
<1>1. a.x \in Int /\ a.amount \in Int  BY DEF WellFormed
<1> DEFINE r == MouseReport(Abs(a.x), {}, Wheel(a.amount))
           e == {[ev |-> "wheel", amount |-> Wheel(a.amount)]}
<1>2. Device(a) = "mouse" /\ ~Raises(a)  BY DEF Device, Raises
<1>3. \A keys : Happens(r, keys, {}) = IF a.amount = 0 THEN {} ELSE e
  BY <1>1, WheelHappens
<1>4. \A j : EventsAfter(a, j) = IF a.amount = 0 THEN 0 ELSE j  BY DEF EventsAfter
<1>5. Reports(a) = <<r>> /\ Asked(a) = IF a.amount = 0 THEN << >> ELSE <<e>>
  BY DEF Reports, Asked
<1>6. e # {}  OBVIOUS
<1> HIDE DEF r, e
<1>7. Len(Reports(a)) = 1 /\ Reports(a)[1] = r
      /\ Len(Asked(a)) = (IF a.amount = 0 THEN 0 ELSE 1)
      /\ (a.amount # 0 => Asked(a)[1] = e)
  BY <1>5
<1>8. ReportArrives(a, 0)
  BY <1>2, <1>3, <1>4, <1>6, <1>7 DEF ReportArrives, KeysAfter, ButtonsAfter
<1>9. \A j \in 0..(1 - 1) : j = 0  BY SMT
<1> QED  BY <1>2, <1>4, <1>7, <1>8, <1>9 DEF Arrives

\* The keys that are no modifiers, pressed in one report.
LEMMA KeyArrives ==
  ASSUME NEW a, WellFormed(a), a.kind = "key"
  PROVE  Arrives(a)
<1>1. a.keys \in Seq(KeyNames)  BY DEF WellFormed
<1>2. \A i \in DOMAIN a.keys : a.keys[i] \in KeyNames  BY <1>1
<1>3. \A i \in DOMAIN a.keys : Unknown(a.keys[i]) <=> ~OnKeyboard(a.keys[i])
  BY <1>2, KnownOnKeyboard
<1>4. Device(a) = "kbd"  BY DEF Device
<1> DEFINE n == IF ChordKeys(a.keys) = {} THEN 0 ELSE 1
<1>5. EventsAfter(a, 0) = 0 /\ EventsAfter(a, 1) = n /\ EventsAfter(a, 2) = n
  BY SMT DEF EventsAfter
<1>6. CASE \E i \in DOMAIN a.keys : Unknown(a.keys[i])
  <2>1. Reports(a) = << >> /\ Raises(a)  BY <1>6 DEF Reports, Raises
  <2>2. Len(Reports(a)) = 0  BY <2>1
  <2>3. \A j \in 0..(0 - 1) : FALSE  BY SMT
  <2> QED  BY <1>5, <2>1, <2>2, <2>3 DEF Arrives
<1>7. CASE ~ \E i \in DOMAIN a.keys : Unknown(a.keys[i])
  <2> DEFINE K == ChordKeys(a.keys)
             M == ChordMods(a.keys)
             r == Chord(a.keys)
             e == {KeyEvent(M, k) : k \in K}
  <2>1. r = KbdReport(M, K)  BY <1>1, <1>7, ChordIsNamed
  <2>2. r.dev = "kbd" /\ r.mods = M /\ r.keys = K  BY <2>1 DEF KbdReport
  <2>3. Reports(a) = <<r, AllUp>> /\ ~Raises(a)  BY <1>7 DEF Reports, Raises
  <2>4. Asked(a) = IF K = {} THEN << >> ELSE <<e>>
    BY <1>3, <1>7 DEF Asked, ChordOf
  <2>5. n = IF K = {} THEN 0 ELSE 1  OBVIOUS
  <2> HIDE DEF K, M, r, n
  <2>6. \A b : Happens(r, {}, b) = e
    <3>1. K \ {} = K  OBVIOUS
    <3> QED  BY <2>2, <3>1 DEF Happens
  <2>7. e = {} <=> K = {}  OBVIOUS
  <2> HIDE DEF e
  <2>8. Len(Reports(a)) = 2 /\ Reports(a)[1] = r /\ Reports(a)[2] = AllUp
        /\ Len(Asked(a)) = n /\ (K # {} => Asked(a)[1] = e)
    BY <2>3, <2>4, <2>5
  <2>9. ReportArrives(a, 0)
    BY <1>4, <1>5, <2>5, <2>6, <2>7, <2>8 DEF ReportArrives, KeysAfter, ButtonsAfter
  <2>10. ReportArrives(a, 1)
    <3>1. Happens(Reports(a)[2], KeysAfter(a, 1), ButtonsAfter(a, 1)) = {}
      BY <2>8, AllUpHappens
    <3>2. 1 + 1 = 2  OBVIOUS
    <3> QED  BY <1>5, <3>1, <3>2, Zenon DEF ReportArrives
  <2>11. \A j \in 0..(2 - 1) : j = 0 \/ j = 1  BY SMT
  <2> QED  BY <1>5, <2>3, <2>8, <2>9, <2>10, <2>11 DEF Arrives
<1> QED  BY <1>6, <1>7

\* The characters in their order, a doubled one twice.
LEMMA TypeArrives ==
  ASSUME NEW a, WellFormed(a), Plain(a), a.kind = "type"
  PROVE  Arrives(a)
<1> DEFINE t == Typeable(a.text)
           n == Len(t)
           m == Len(a.text)
<1>1. a.text \in Seq(Chars)  BY DEF WellFormed
<1>2. /\ t \in Seq(Chars) /\ n <= m /\ (t # a.text => n < m)
      /\ \A i \in 1..n : t[i] = a.text[i] /\ CharToHid(a.text[i]).key # NoKey
  BY <1>1, TypeableBegins
<1>3. n \in Nat /\ m \in Nat  BY <1>1, <1>2
<1>4. \A i \in 1..m : a.text[i] \in Chars \ Accented
  BY <1>1 DEF Plain
<1>5. /\ Reports(a) = TypeReports(t)
      /\ Reports(a) = [i \in 1..(2 * n) |-> IF i % 2 = 1 THEN Press(t[(i + 1) \div 2]) ELSE AllUp]
      /\ Raises(a) <=> t # a.text
  BY DEF Reports, TypeReports, Raises
<1>6. Len(Reports(a)) = 2 * n
  <2>1. \A i \in 1..n : CharToHid(t[i]).key # NoKey  BY <1>2
  <2> HIDE DEF t
  <2>2. Len(TypeReports(t)) = 2 * n  BY <1>2, <2>1, TypeFits
  <2> QED  BY <1>5, <2>2
<1>7. Asked(a) = [i \in 1..m |-> {[ev |-> "char", char |-> a.text[i]]}] /\ Len(Asked(a)) = m
  <2>1. Asked(a) = [i \in 1..m |-> {[ev |-> "char", char |-> a.text[i]]}]
    <3>1. DOMAIN a.text = 1..m  BY <1>1
    <3> QED  BY <3>1 DEF Asked
  <2> QED  BY <1>3, <2>1, SMT
<1>8. \A j : EventsAfter(a, j) = (j + 1) \div 2  BY DEF EventsAfter
<1>9. Device(a) = "kbd"  BY DEF Device
<1> HIDE DEF t, n, m
<1>10. ASSUME NEW j \in 0..(2 * n - 1)
       PROVE  ReportArrives(a, j)
  <2>1. CASE j % 2 = 0
    <3> DEFINE i == j \div 2 + 1
    <3>1. /\ i \in 1..n /\ i \in 1..m /\ (j + 1) % 2 = 1 /\ (j + 1 + 1) \div 2 = i
          /\ (j + 1) \div 2 + 1 = i /\ j + 1 \in 1..(2 * n)
      BY <1>2, <1>3, <1>10, <2>1, SMT
    <3>2. j = 0 \/ (j \in 1..(2 * n) /\ j % 2 # 1)
      BY <1>3, <1>10, <2>1, SMT
    <3>3. KeysAfter(a, j) = {}
      <4>1. AllUp.keys = {}  BY DEF AllUp, KbdReport
      <4> QED  BY <1>5, <3>2, <4>1 DEF KeysAfter
    <3> DEFINE k == j + 1
    <3> HIDE DEF i
    <3>4. k % 2 = 1 /\ (k + 1) \div 2 = i /\ k \in 1..(2 * n)  BY <3>1
    <3> HIDE DEF k
    <3>5. Reports(a)[k] = Press(t[i])  BY <1>5, <3>4
    <3>6. t[i] = a.text[i] /\ t[i] \in Chars \ Accented /\ CharToHid(t[i]).key # NoKey
      BY <1>2, <1>4, <3>1
    <3>7. \A b : Happens(Press(t[i]), {}, b) = {[ev |-> "char", char |-> t[i]]}
      BY <3>6, PressHappens
    <3>8. Asked(a)[i] = {[ev |-> "char", char |-> t[i]]}
      BY <1>7, <3>1, <3>6
    <3>9. Happens(Reports(a)[j + 1], KeysAfter(a, j), ButtonsAfter(a, j)) = Asked(a)[i]
      BY <3>3, <3>5, <3>7, <3>8 DEF k
    <3>10. EventsAfter(a, j + 1) = i /\ EventsAfter(a, j) + 1 = i
      BY <1>8, <3>1
    <3>11. Asked(a)[i] # {}  BY <3>8
    <3> QED  BY <1>7, <3>1, <3>9, <3>10, <3>11 DEF ReportArrives
  <2>2. CASE j % 2 # 0
    <3>1. /\ j + 1 \in 1..(2 * n) /\ (j + 1) % 2 # 1
          /\ (j + 1 + 1) \div 2 = (j + 1) \div 2
      BY <1>3, <1>10, <2>2, SMT
    <3> DEFINE k == j + 1
    <3>2. k \in 1..(2 * n) /\ k % 2 # 1  BY <3>1
    <3> HIDE DEF k
    <3>3. Reports(a)[k] = AllUp  BY <1>5, <3>2
    <3>4. Happens(Reports(a)[j + 1], KeysAfter(a, j), ButtonsAfter(a, j)) = {}
      BY <3>3, AllUpHappens DEF k
    <3>5. EventsAfter(a, j + 1) = EventsAfter(a, j)  BY <1>8, <3>1
    <3> QED  BY <3>4, <3>5, Zenon DEF ReportArrives
  <2> QED  BY <2>1, <2>2
<1>11. EventsAfter(a, 0) = 0
  <2>1. (0 + 1) \div 2 = 0  BY SMT
  <2> QED  BY <1>8, <2>1
<1>12. ~Raises(a) => EventsAfter(a, 2 * n) = m
  <2>1. (2 * n + 1) \div 2 = n  BY <1>3, SMT
  <2>2. ~Raises(a) => n = m  BY <1>5 DEF n, m
  <2> QED  BY <1>8, <2>1, <2>2
<1> QED  BY <1>6, <1>7, <1>10, <1>11, <1>12 DEF Arrives

\* wait, done and fail write nothing.
LEMMA NothingArrives ==
  ASSUME NEW a, WellFormed(a), a.kind \notin Clicking \union {"type", "key", "scroll", "drag"}
  PROVE  Arrives(a)
<1>1. Reports(a) = << >> /\ Asked(a) = << >>  BY DEF Reports, Asked, Clicking
<1>2. \A j : EventsAfter(a, j) = j  BY DEF EventsAfter
<1>3. Len(Reports(a)) = 0 /\ Len(Asked(a)) = 0  BY <1>1
<1>4. \A j \in 0..(0 - 1) : FALSE  BY SMT
<1> QED  BY <1>2, <1>3, <1>4 DEF Arrives

\* Of any action on any screen, what its reports make happen on the target is
\* what it asks for, in that order.
LEMMA ActionArrives ==
  ASSUME NEW a, WellFormed(a), Inside(a), Plain(a)
  PROVE  Arrives(a)
<1>1. CASE a.kind \in Clicking  BY <1>1, ClickArrives
<1>2. CASE a.kind = "type"  BY <1>2, TypeArrives
<1>3. CASE a.kind = "key"  BY <1>3, KeyArrives
<1>4. CASE a.kind = "scroll"  BY <1>4, ScrollArrives
<1>5. CASE a.kind = "drag"  BY <1>5, DragArrives
<1>6. CASE a.kind \notin Clicking \union {"type", "key", "scroll", "drag"}
  BY <1>6, NothingArrives
<1> QED  BY <1>1, <1>2, <1>3, <1>4, <1>5, <1>6

\* What is asked for is a sequence of events.
LEMMA AskedIsSequence ==
  ASSUME NEW a, WellFormed(a)
  PROVE  \E S : Asked(a) \in Seq(S)
<1>1. \A e, f : /\ <<e, f>> \in Seq({e, f}) /\ <<e, f>> \o <<e, f>> \in Seq({e, f})
               /\ <<e>> \in Seq({e}) /\ << >> \in Seq({e})
  <2> TAKE e, f
  <2>1. <<e, f>> \in Seq({e, f}) /\ <<e, f, e, f>> \in Seq({e, f})
        /\ <<e>> \in Seq({e}) /\ << >> \in Seq({e})
    OBVIOUS
  <2> QED  BY <2>1, PairOfReports
<1>2. CASE a.kind \in Clicking
  BY <1>1, <1>2 DEF Asked, Clicks, Clicking
<1>3. CASE a.kind = "type"
  <2>1. a.text \in Seq(Chars)  BY <1>3 DEF WellFormed
  <2> DEFINE m == Len(a.text)
             F == [i \in 1..m |-> {[ev |-> "char", char |-> a.text[i]]}]
             S == {F[i] : i \in 1..m}
  <2>2. m \in Nat /\ DOMAIN a.text = 1..m  BY <2>1
  <2>3. Asked(a) = F  BY <1>3, <2>2 DEF Asked
  <2>4. F \in [1..m -> S]  OBVIOUS
  <2> HIDE DEF m, F, S
  <2>5. F \in Seq(S)  BY <2>2, <2>4, SMT
  <2> QED  BY <2>3, <2>5
<1>4. CASE a.kind = "key"
  BY <1>1, <1>4 DEF Asked, ChordOf
<1>5. CASE a.kind = "scroll"
  BY <1>1, <1>5 DEF Asked
<1>6. CASE a.kind = "drag"
  BY <1>1, <1>6 DEF Asked
<1>7. CASE a.kind \notin Clicking \union {"type", "key", "scroll", "drag"}
  BY <1>1, <1>7 DEF Asked, Clicking
<1> QED  BY <1>2, <1>3, <1>4, <1>5, <1>6, <1>7

\* A beginning of a sequence and the next of it are a longer beginning.
LEMMA NextEvent ==
  ASSUME NEW s, NEW S, s \in Seq(S), NEW k \in Nat, k + 1 \in 1..Len(s)
  PROVE  Append(SubSeq(s, 1, k), s[k + 1]) = SubSeq(s, 1, k + 1)
<1>1. Len(s) \in Nat /\ k + 1 - 1 = k /\ k + 1 \in Int /\ 1 \in 1..Len(s) /\ s[k + 1] \in S
  BY SMT
<1>2. SubSeq(s, 1, k + 1) = SubSeq(s, 1, k) \o <<s[k + 1]>>
  BY <1>1, SubSeqRecursiveSecond
<1>3. SubSeq(s, 1, k) \in Seq(S)
  <2>1. \A i \in 1..k : s[i] \in S  BY SMT
  <2> QED  BY <2>1, SubSeqProperties, 1 \in Int, k \in Int
<1> QED  BY <1>1, <1>2, <1>3, AppendIsConcat

\* What is left of a queue of which j reports were written.
LEMMA RestOfQueue ==
  ASSUME NEW s, NEW S, s \in Seq(S), NEW j \in 0..(Len(s) - 1)
  PROVE  /\ SubSeq(s, j + 1, Len(s)) # << >>
         /\ Head(SubSeq(s, j + 1, Len(s))) = s[j + 1]
         /\ Tail(SubSeq(s, j + 1, Len(s))) = SubSeq(s, j + 2, Len(s))
<1>1. j + 1 \in 1..Len(s) /\ Len(s) \in (j + 1)..Len(s) /\ j + 1 + 1 = j + 2
  BY SMT
<1>2. /\ Head(SubSeq(s, j + 1, Len(s))) = s[j + 1]
      /\ Tail(SubSeq(s, j + 1, Len(s))) = SubSeq(s, j + 2, Len(s))
  BY <1>1, HeadTailOfSubSeq
<1>3. Len(SubSeq(s, j + 1, Len(s))) # 0
  <2>1. \A i \in (j + 1)..Len(s) : s[i] \in S  BY SMT
  <2>2. Len(SubSeq(s, j + 1, Len(s))) = IF j + 1 <= Len(s) THEN Len(s) - (j + 1) + 1 ELSE 0
    BY <1>1, <2>1, SubSeqProperties, j + 1 \in Int, Len(s) \in Int
  <2> QED  BY <2>2, SMT
<1>4. SubSeq(s, j + 1, Len(s)) # << >>
  <2>1. Len(<< >>) = 0  OBVIOUS
  <2> QED  BY <1>3, <2>1
<1> QED  BY <1>2, <1>4

\* All of a sequence, and none of it.
LEMMA NoRest ==
  ASSUME NEW s, NEW S, s \in Seq(S)
  PROVE  SubSeq(s, 1, Len(s)) = s /\ SubSeq(s, Len(s) + 1, Len(s)) = << >>
<1>1. Len(s) \in Int /\ Len(s) + 1 \in Int /\ Len(s) < Len(s) + 1  BY SMT
<1> QED  BY <1>1, SubSeqFull, SubSeqEmpty

-----------------------------------------------------------------------------
(* The executor.                                                           *)

\* Where execute is when it has written j reports: the rest is queued, its
\* device is as report j left it, and the other one as it was.
Progress(j) ==
  /\ queue = SubSeq(Reports(req), j + 1, Len(Reports(req)))
  /\ j > 0 => IF Device(req) = "kbd" THEN kbd = Reports(req)[j]
              ELSE buttons = Reports(req)[j].buttons
  /\ Device(req) = "mouse" \/ j = 0 =>
       (kbd # AllUp => "kbd" \in torn) /\ (whole => kbd = AllUp)
  /\ Device(req) = "kbd" \/ j = 0 =>
       (buttons # {} => "mouse" \in torn) /\ (whole => buttons = {})
  /\ Plain(req) /\ whole =>
       /\ EventsAfter(req, j) \in 0..Len(Asked(req))
       /\ got = SubSeq(Asked(req), 1, EventsAfter(req, j))

Underway ==
  gate = "executing" =>
    /\ Inside(req) /\ req.kind \notin {"done", "fail"}
    /\ \E j \in 0..Len(Reports(req)) : Progress(j)

LetGo ==
  gate # "executing" =>
    (kbd # AllUp => "kbd" \in torn) /\ (buttons # {} => "mouse" \in torn)

Told ==
  Plain(req) /\ whole =>
    /\ ans = "executed" => got = Asked(req)
    /\ ans = "execution-failed" =>
         \E k \in 0..Len(Asked(req)) : got = SubSeq(Asked(req), 1, k)

DeskInv == DeskTypeOK /\ Underway /\ LetGo /\ Told

-----------------------------------------------------------------------------
\* No step of the executor: the gatekeeper asks, refuses or is left alone.
LEMMA NoInput ==
  ASSUME Underway, LetGo, Told, UNCHANGED targetVars,
         \/ UNCHANGED <<gate, req, ans, queue>>
         \/ /\ gate # "executing" /\ gate' # "executing"
            /\ ans' \notin {"executed", "execution-failed"}
  PROVE  Underway' /\ LetGo' /\ Told'
<1>1. CASE UNCHANGED <<gate, req, ans, queue>>
  BY <1>1 DEF Underway, Progress, LetGo, Told, targetVars
<1>2. CASE /\ gate # "executing" /\ gate' # "executing"
           /\ ans' \notin {"executed", "execution-failed"}
  BY <1>2 DEF Underway, LetGo, Told, targetVars
<1> QED  BY <1>1, <1>2

\* What is queued is reports.
LEMMA ReportsAreTyped ==
  ASSUME NEW a, WellFormed(a)
  PROVE  Reports(a) \in Seq(KbdReports \union MouseReports)
<1>1. Reports(a) \in Seq(IF Device(a) = "kbd" THEN KbdReports ELSE MouseReports)
  BY ReportsFit DEF Fits
<1>2. CASE Device(a) = "kbd"
  <2>1. Reports(a) \in Seq(KbdReports)  BY <1>1, <1>2
  <2> QED  BY <2>1
<1>3. CASE Device(a) # "kbd"
  <2>1. Reports(a) \in Seq(MouseReports)  BY <1>1, <1>3
  <2> QED  BY <2>1
<1> QED  BY <1>2, <1>3

\* An action is for the keyboard or for the mouse.
LEMMA DeviceIsOne ==
  ASSUME NEW a
  PROVE  Device(a) = "kbd" \/ Device(a) = "mouse"
BY DEF Device

\* The reports of an action are those of its device.
LEMMA ReportTyped ==
  ASSUME NEW a, WellFormed(a), NEW j \in 1..Len(Reports(a))
  PROVE  /\ Device(a) = "kbd" => Reports(a)[j] \in KbdReports /\ Reports(a)[j].dev = "kbd"
         /\ Device(a) = "mouse" =>
              /\ Reports(a)[j] \in MouseReports /\ Reports(a)[j].dev = "mouse"
              /\ Reports(a)[j].buttons \subseteq {"left", "right"}
<1>1. CASE Device(a) = "kbd"
  <2>1. Reports(a) \in Seq(KbdReports)  BY <1>1, ReportsFit DEF Fits
  <2>2. Reports(a)[j] \in KbdReports  BY <2>1
  <2> QED  BY <1>1, <2>2 DEF KbdReports
<1>2. CASE Device(a) = "mouse"
  <2>1. Reports(a) \in Seq(MouseReports)  BY <1>2, ReportsFit DEF Fits
  <2>2. Reports(a)[j] \in MouseReports  BY <2>1
  <2> QED  BY <1>2, <2>2 DEF MouseReports
<1> QED  BY <1>1, <1>2, DeviceIsOne

\* A refusal types nothing; execute begins with all reports still to write.
LEMMA DecidesKeeps == DeskInv /\ Decides => DeskInv'
<1> SUFFICES ASSUME DeskInv, Decides PROVE DeskInv'  OBVIOUS
<1> USE DEF DeskInv
<1>1. /\ gate = "asked" /\ WellFormed(req) /\ "frame_id" \in DOMAIN req /\ ans = "none" /\ queue = << >>
      /\ UNCHANGED <<screen, changes, stop, stops, frame, shot, req, kbd, buttons,
                     tears, torn, acted>>
  BY DEF Decides, DeskTypeOK
<1>3. CASE Refuses
  <2>1. /\ gate' = "idle" /\ queue' = << >> /\ UNCHANGED <<got, whole>>
        /\ ans' \in Outcomes /\ ans' \notin {"executed", "execution-failed"}
    BY <1>3 DEF Refuses, Answers, Outcomes
  <2>2. DeskTypeOK'
    BY <1>1, <2>1 DEF DeskTypeOK
  <2>3. UNCHANGED targetVars  BY <1>1, <2>1 DEF targetVars
  <2> QED  BY <1>1, <2>1, <2>2, <2>3, NoInput
<1>4. CASE Executes
  <2>1. /\ gate' = "executing" /\ queue' = Reports(req) /\ got' = << >>
        /\ whole' = (kbd = AllUp /\ buttons = {}) /\ ans' = ans
        /\ Inside(req) /\ req.kind \notin {"done", "fail"}
    BY <1>4 DEF Executes
  <2>2. Reports(req) \in Seq(KbdReports \union MouseReports)  BY <1>1, ReportsAreTyped
  <2>3. DeskTypeOK'
    BY <1>1, <2>1, <2>2 DEF DeskTypeOK
  <2>4. Progress(0)'
    <3>1. queue' = SubSeq(Reports(req), 0 + 1, Len(Reports(req)))
      <4>1. 0 + 1 = 1  OBVIOUS
      <4> QED  BY <2>1, <2>2, <4>1, NoRest
    <3>2. (kbd # AllUp => "kbd" \in torn) /\ (buttons # {} => "mouse" \in torn)
      BY <1>1 DEF LetGo
    <3>3. ASSUME Plain(req)
          PROVE  /\ EventsAfter(req, 0) \in 0..Len(Asked(req))
                 /\ got' = SubSeq(Asked(req), 1, EventsAfter(req, 0))
      <4>2. EventsAfter(req, 0) = 0  BY <1>1, <2>1, <3>3, ActionArrives DEF Arrives
      <4>3. PICK S : Asked(req) \in Seq(S)  BY <1>1, AskedIsSequence
      <4>4. 0 \in 0..Len(Asked(req))  BY <4>3, SMT
      <4>5. SubSeq(Asked(req), 1, 0) = << >>
        <5>1. 0 < 1 /\ 0 \in Int /\ 1 \in Int  OBVIOUS
        <5> QED  BY <5>1, SubSeqEmpty
      <4> QED  BY <2>1, <4>2, <4>4, <4>5
    <3>4. ~(0 > 0)  OBVIOUS
    <3> QED  BY <1>1, <2>1, <3>1, <3>2, <3>3, <3>4 DEF Progress
  <2>5. Underway'
    <3>1. 0 \in 0..Len(Reports(req))  BY <2>2, SMT
    <3>2. 0 \in 0..Len(Reports(req'))  BY <1>1, <3>1
    <3>3. Inside(req)' /\ req'.kind \notin {"done", "fail"}  BY <1>1, <2>1 DEF Inside
    <3> QED  BY <2>4, <3>2, <3>3 DEF Underway
  <2>6. LetGo' /\ Told'  BY <1>1, <2>1 DEF LetGo, Told
  <2> QED  BY <2>3, <2>5, <2>6
<1> QED  BY <1>3, <1>4 DEF Decides

\* What one report does to the target, at any point of execute.
LEMMA ReportDoes ==
  ASSUME DeskInv, gate = "executing", NEW j \in 0..(Len(Reports(req)) - 1), Progress(j),
         Delivered(Reports(req)[j + 1])
  PROVE  /\ kbd' \in KbdReports /\ buttons' \subseteq {"left", "right"}
         /\ Device(req) = "kbd" => kbd' = Reports(req)[j + 1] /\ buttons' = buttons
         /\ Device(req) = "mouse" => kbd' = kbd /\ buttons' = Reports(req)[j + 1].buttons
         /\ Plain(req) /\ whole =>
              /\ EventsAfter(req, j + 1) \in 0..Len(Asked(req))
              /\ got' = SubSeq(Asked(req), 1, EventsAfter(req, j + 1))
<1> DEFINE R == Reports(req)
           r == R[j + 1]
           h == Happens(r, kbd.keys, buttons)
           n == EventsAfter(req, j)
<1>1. WellFormed(req) /\ Inside(req) /\ kbd \in KbdReports /\ buttons \subseteq {"left", "right"}
  BY DEF DeskInv, DeskTypeOK, Underway
<1>2. j \in Nat /\ j + 1 \in 1..Len(R) /\ j + 1 > 0 /\ j + 1 # 0 /\ j + 1 + 1 = j + 2
  <2>1. R \in Seq(KbdReports \union MouseReports)  BY <1>1, ReportsAreTyped
  <2> QED  BY <2>1, SMT
<1>3. /\ got' = IF h = {} THEN got ELSE Append(got, h)
      /\ kbd' = IF r.dev = "kbd" THEN r ELSE kbd
      /\ buttons' = IF r.dev = "mouse" THEN r.buttons ELSE buttons
  BY DEF Delivered
<1>4. /\ Device(req) = "kbd" => r \in KbdReports /\ r.dev = "kbd"
      /\ Device(req) = "mouse" => r.dev = "mouse" /\ r.buttons \subseteq {"left", "right"}
  BY <1>1, <1>2, ReportTyped
<1>5. Device(req) = "kbd" \/ Device(req) = "mouse"  BY DeviceIsOne
<1>6. /\ Device(req) = "kbd" => kbd' = r /\ buttons' = buttons
      /\ Device(req) = "mouse" => kbd' = kbd /\ buttons' = r.buttons
  BY <1>3, <1>4
<1>7. kbd' \in KbdReports /\ buttons' \subseteq {"left", "right"}
  BY <1>1, <1>4, <1>5, <1>6
<1>8. ASSUME Plain(req), whole
      PROVE  /\ EventsAfter(req, j + 1) \in 0..Len(Asked(req))
             /\ got' = SubSeq(Asked(req), 1, EventsAfter(req, j + 1))
  <2>2. ReportArrives(req, j)  BY <1>1, <1>8, ActionArrives DEF Arrives
  <2>3. h = Happens(r, KeysAfter(req, j), ButtonsAfter(req, j))
    <3>1. CASE Device(req) = "kbd"
      <4>1. kbd.keys = KeysAfter(req, j)
        <5>1. CASE j = 0
          <6>1. kbd = AllUp  BY <1>8, <5>1 DEF Progress
          <6> QED  BY <5>1, <6>1 DEF KeysAfter, AllUp, KbdReport
        <5>2. CASE j # 0
          <6>1. kbd = R[j]
            <7>1. j > 0  BY <1>2, <5>2, SMT
            <7> QED  BY <3>1, <7>1 DEF Progress
          <6> QED  BY <3>1, <5>2, <6>1 DEF KeysAfter
        <5> QED  BY <5>1, <5>2
      <4>2. \A b, c : Happens(r, kbd.keys, b) = Happens(r, kbd.keys, c)
        BY <3>1, <1>4 DEF Happens
      <4> QED  BY <4>1, <4>2
    <3>2. CASE Device(req) = "mouse"
      <4>1. buttons = ButtonsAfter(req, j)
        <5>1. CASE j = 0
          BY <1>8, <5>1 DEF Progress, ButtonsAfter
        <5>2. CASE j # 0
          <6>1. buttons = R[j].buttons
            <7>1. j > 0  BY <1>2, <5>2, SMT
            <7> QED  BY <3>2, <7>1 DEF Progress
          <6> QED  BY <3>2, <5>2, <6>1 DEF ButtonsAfter
        <5> QED  BY <5>1, <5>2
      <4>2. \A k, l : Happens(r, k, buttons) = Happens(r, l, buttons)
        BY <3>2, <1>4 DEF Happens
      <4> QED  BY <4>1, <4>2
    <3> QED  BY <1>5, <3>1, <3>2
  <2>4. n \in 0..Len(Asked(req)) /\ got = SubSeq(Asked(req), 1, n)
    BY <1>8 DEF Progress
  <2> HIDE DEF h, n
  <2>5. \/ h = {} /\ EventsAfter(req, j + 1) = n
        \/ /\ h # {} /\ EventsAfter(req, j + 1) = n + 1
           /\ n + 1 \in 1..Len(Asked(req)) /\ Asked(req)[n + 1] = h
    BY <2>2, <2>3, Zenon DEF ReportArrives, n
  <2>6. CASE h = {} /\ EventsAfter(req, j + 1) = n
    BY <1>3, <2>4, <2>6
  <2>7. CASE /\ h # {} /\ EventsAfter(req, j + 1) = n + 1
             /\ n + 1 \in 1..Len(Asked(req)) /\ Asked(req)[n + 1] = h
    <3>1. PICK S : Asked(req) \in Seq(S)  BY <1>1, AskedIsSequence
    <3>2. n \in Nat /\ n + 1 \in 0..Len(Asked(req))  BY <2>4, <2>7, <3>1, SMT
    <3>3. Append(SubSeq(Asked(req), 1, n), h) = SubSeq(Asked(req), 1, n + 1)
      BY <2>7, <3>1, <3>2, NextEvent
    <3> QED  BY <1>3, <2>4, <2>7, <3>2, <3>3
  <2> QED  BY <2>5, <2>6, <2>7
<1> QED  BY <1>6, <1>7, <1>8

\* execute has then come one report further.
LEMMA ReportKeeps ==
  ASSUME DeskInv, gate = "executing", NEW j \in 0..(Len(Reports(req)) - 1), Progress(j),
         Delivered(Reports(req)[j + 1]), req' = req, UNCHANGED <<torn, whole>>,
         queue' = SubSeq(Reports(req), j + 2, Len(Reports(req)))
  PROVE  Progress(j + 1)'
<1>1. /\ Device(req) = "kbd" => kbd' = Reports(req)[j + 1] /\ buttons' = buttons
      /\ Device(req) = "mouse" => kbd' = kbd /\ buttons' = Reports(req)[j + 1].buttons
      /\ Plain(req) /\ whole =>
           /\ EventsAfter(req, j + 1) \in 0..Len(Asked(req))
           /\ got' = SubSeq(Asked(req), 1, EventsAfter(req, j + 1))
  BY ReportDoes
<1>2. j \in Nat /\ j + 1 > 0 /\ j + 1 # 0 /\ j + 1 + 1 = j + 2
  <2>1. WellFormed(req)  BY DEF DeskInv, DeskTypeOK
  <2>2. Reports(req) \in Seq(KbdReports \union MouseReports)  BY <2>1, ReportsAreTyped
  <2> QED  BY <2>2, SMT
<1>3. Device(req) = "kbd" \/ Device(req) = "mouse"  BY DeviceIsOne
<1>4. queue' = SubSeq(Reports(req'), j + 1 + 1, Len(Reports(req')))  BY <1>2
<1>5. IF Device(req') = "kbd" THEN kbd' = Reports(req')[j + 1]
      ELSE buttons' = Reports(req')[j + 1].buttons
  BY <1>1, <1>3
<1>6. Device(req') = "mouse" =>
        (kbd' # AllUp => "kbd" \in torn') /\ (whole' => kbd' = AllUp)
  BY <1>1 DEF Progress
<1>7. Device(req') = "kbd" =>
        (buttons' # {} => "mouse" \in torn') /\ (whole' => buttons' = {})
  BY <1>1 DEF Progress
<1>8. Plain(req') /\ whole' =>
        /\ EventsAfter(req', j + 1) \in 0..Len(Asked(req'))
        /\ got' = SubSeq(Asked(req'), 1, EventsAfter(req', j + 1))
  BY <1>1
<1> QED  BY <1>2, <1>4, <1>5, <1>6, <1>7, <1>8 DEF Progress

\* While reports are queued, the next is one of the action's own.
LEMMA QueuedReport ==
  ASSUME DeskInv, gate = "executing", queue # << >>
  PROVE  \E j \in 0..(Len(Reports(req)) - 1) :
           /\ Progress(j) /\ Head(queue) = Reports(req)[j + 1]
           /\ Tail(queue) = SubSeq(Reports(req), j + 2, Len(Reports(req)))
<1> DEFINE R == Reports(req)
<1>1. WellFormed(req)  BY DEF DeskInv, DeskTypeOK
<1>2. R \in Seq(KbdReports \union MouseReports)  BY <1>1, ReportsAreTyped
<1>3. PICK j \in 0..Len(R) : Progress(j)  BY DEF DeskInv, Underway
<1>4. queue = SubSeq(R, j + 1, Len(R))  BY <1>3 DEF Progress
<1>5. j # Len(R)
  BY <1>2, <1>4, NoRest
<1> HIDE DEF R
<1>6. j \in 0..(Len(R) - 1)  BY <1>2, <1>5, SMT
<1>7. Head(queue) = R[j + 1] /\ Tail(queue) = SubSeq(R, j + 2, Len(R))
  BY <1>2, <1>4, <1>6, RestOfQueue
<1> QED  BY <1>3, <1>6, <1>7 DEF R

\* One more report is out.
LEMMA WritesKeeps == DeskInv /\ Writes => DeskInv'
<1> SUFFICES ASSUME DeskInv, Writes PROVE DeskInv'  OBVIOUS
<1>1. /\ gate = "executing" /\ gate' = "executing" /\ queue # << >>
      /\ Delivered(Head(queue)) /\ queue' = Tail(queue)
      /\ UNCHANGED <<screen, changes, stop, stops, frame, shot, req, ans,
                     tears, torn, whole, acted>>
  BY DEF Writes
<1>2. PICK j \in 0..(Len(Reports(req)) - 1) :
           /\ Progress(j) /\ Head(queue) = Reports(req)[j + 1]
           /\ Tail(queue) = SubSeq(Reports(req), j + 2, Len(Reports(req)))
  BY <1>1, QueuedReport
<1>3. Progress(j + 1)' /\ kbd' \in KbdReports /\ buttons' \subseteq {"left", "right"}
  BY <1>1, <1>2, ReportDoes, ReportKeeps
<1>4. queue \in Seq(KbdReports \union MouseReports)  BY DEF DeskInv, DeskTypeOK
<1>5. queue' \in Seq(KbdReports \union MouseReports)
  BY <1>1, <1>4, HeadTailProperties
<1>6. DeskTypeOK'
  BY <1>1, <1>3, <1>5 DEF DeskInv, DeskTypeOK
<1>7. Underway'
  <2>1. WellFormed(req)  BY <1>1 DEF DeskInv, DeskTypeOK
  <2>2. Reports(req) \in Seq(KbdReports \union MouseReports)  BY <2>1, ReportsAreTyped
  <2>3. j + 1 \in 0..Len(Reports(req))
    <3> DEFINE R == Reports(req)
    <3>1. R \in Seq(KbdReports \union MouseReports) /\ j \in 0..(Len(R) - 1)  BY <2>2
    <3> HIDE DEF R
    <3>2. j + 1 \in 0..Len(R)  BY <3>1, SMT
    <3> QED  BY <3>2 DEF R
  <2>4. j + 1 \in 0..Len(Reports(req'))  BY <1>1, <2>3
  <2>5. Inside(req)' /\ req'.kind \notin {"done", "fail"}
    BY <1>1 DEF DeskInv, Underway, Inside
  <2> QED  BY <1>3, <2>4, <2>5 DEF Underway
<1>8. LetGo' /\ Told'
  <2>1. ans = "none"  BY <1>1 DEF DeskInv, DeskTypeOK
  <2> QED  BY <1>1, <2>1 DEF DeskInv, LetGo, Told
<1> QED  BY <1>6, <1>7, <1>8 DEF DeskInv

\* A write that raises leaves a beginning of what was asked for, and the device
\* among those that may hold a key.
LEMMA WriteRaisesKeeps == DeskInv /\ WriteRaises => DeskInv'
<1> SUFFICES ASSUME DeskInv, WriteRaises PROVE DeskInv'  OBVIOUS
<1>1. /\ gate = "executing" /\ queue # << >>
      /\ Delivered(Head(queue)) \/ UNCHANGED <<got, kbd, buttons>>
      /\ gate' = "idle" /\ ans' = "execution-failed" /\ queue' = << >>
      /\ tears' = tears + 1 /\ torn' = torn \union {Device(req)} /\ acted' = frame
      /\ UNCHANGED <<screen, changes, stop, stops, frame, shot, req, whole>>
  BY DEF WriteRaises
<1>2. WellFormed(req) /\ kbd \in KbdReports /\ buttons \subseteq {"left", "right"}
      /\ tears \in Nat /\ frame \in Nat /\ torn \subseteq {"kbd", "mouse"}
  BY <1>1 DEF DeskInv, DeskTypeOK
<1>3. Device(req) = "kbd" \/ Device(req) = "mouse"  BY DeviceIsOne
<1>4. PICK j \in 0..(Len(Reports(req)) - 1) :
           /\ Progress(j) /\ Head(queue) = Reports(req)[j + 1]
           /\ Tail(queue) = SubSeq(Reports(req), j + 2, Len(Reports(req)))
  BY <1>1, QueuedReport
\* The report that may have arrived after all, as if it had been written.
<1>5. /\ kbd' \in KbdReports /\ buttons' \subseteq {"left", "right"}
      /\ Device(req) = "mouse" => kbd' = kbd
      /\ Device(req) = "kbd" => buttons' = buttons
      /\ Plain(req) /\ whole =>
           \E n \in 0..Len(Asked(req)) : got' = SubSeq(Asked(req), 1, n)
  <2>1. CASE UNCHANGED <<got, kbd, buttons>>
    BY <1>2, <1>4, <2>1 DEF Progress
  <2>2. CASE Delivered(Head(queue))
    BY <1>1, <1>4, <2>2, ReportDoes
  <2> QED  BY <1>1, <2>1, <2>2
<1>6. DeskTypeOK'
  <2>1. tears' = tears + 1 /\ torn' = torn \union {Device(req)}  BY <1>1
  <2>2. tears' \in Nat  BY <1>2, <2>1, SMT
  <2>3. torn' \subseteq {"kbd", "mouse"}  BY <1>2, <1>3, <2>1
  <2>4. ans' \in Outcomes  BY <1>1 DEF Outcomes
  <2>5. /\ {screen', shot'} \subseteq Screens /\ {changes', stops', frame', acted'} \subseteq Nat
        /\ {stop', whole'} \subseteq BOOLEAN /\ gate' = "idle" /\ queue' = << >>
    BY <1>1 DEF DeskInv, DeskTypeOK
  <2> QED  BY <1>5, <2>2, <2>3, <2>4, <2>5 DEF DeskTypeOK
<1>7. LetGo'
  <2>1. CASE Device(req) = "kbd"
    <3>1. buttons # {} => "mouse" \in torn  BY <1>4, <2>1 DEF Progress
    <3> QED  BY <1>1, <1>5, <2>1, <3>1 DEF LetGo
  <2>2. CASE Device(req) = "mouse"
    <3>1. kbd # AllUp => "kbd" \in torn  BY <1>4, <2>2 DEF Progress
    <3> QED  BY <1>1, <1>5, <2>2, <3>1 DEF LetGo
  <2> QED  BY <1>3, <2>1, <2>2
<1>8. Underway' /\ Told'
  BY <1>1, <1>5 DEF Underway, Told
<1> QED  BY <1>6, <1>7, <1>8 DEF DeskInv

\* The last report written lets go, and completes what was asked for.
LEMMA ExecuteEndsKeeps == DeskInv /\ ExecuteEnds => DeskInv'
<1> SUFFICES ASSUME DeskInv, ExecuteEnds PROVE DeskInv'  OBVIOUS
<1> DEFINE R == Reports(req)
<1>1. /\ gate = "executing" /\ queue = << >> /\ gate' = "idle"
      /\ ans' = IF Raises(req) THEN "execution-failed" ELSE "executed"
      /\ torn' = IF R = << >> THEN torn ELSE torn \ {Device(req)}
      /\ acted' = frame /\ screen' \in Screens
      /\ UNCHANGED <<changes, stop, stops, frame, shot, req, queue, kbd, buttons,
                     tears, got, whole>>
  BY DEF ExecuteEnds
<1>2. WellFormed(req) /\ Inside(req)  BY <1>1 DEF DeskInv, DeskTypeOK, Underway
<1>3. R \in Seq(KbdReports \union MouseReports)  BY <1>2, ReportsAreTyped
<1>4. Progress(Len(R))
  <2>1. PICK j \in 0..Len(R) : Progress(j)  BY <1>1 DEF DeskInv, Underway
  <2>2. SubSeq(R, j + 1, Len(R)) = << >>  BY <1>1, <2>1 DEF Progress
  <2> HIDE DEF R
  <2>3. j = Len(R)
    <3>1. ASSUME j # Len(R) PROVE FALSE
      <4>1. j \in 0..(Len(R) - 1)  BY <1>3, <3>1, SMT
      <4> QED  BY <1>3, <2>2, <4>1, RestOfQueue
    <3> QED  BY <3>1
  <2> QED  BY <2>1, <2>3
<1>5. Device(req) = "kbd" \/ Device(req) = "mouse"  BY DeviceIsOne
<1>6. DeskTypeOK'
  <2>1. ans' \in Outcomes  BY <1>1 DEF Outcomes
  <2>2. torn' \subseteq {"kbd", "mouse"}  BY <1>1 DEF DeskInv, DeskTypeOK
  <2> QED  BY <1>1, <2>1, <2>2 DEF DeskInv, DeskTypeOK
<1>7. LetGo'
  <2>1. CASE R = << >>
    <3>1. Len(R) = 0  BY <2>1
    <3> QED  BY <1>1, <1>4, <2>1, <3>1 DEF LetGo, Progress
  <2>2. CASE R # << >>
    <3>1. Len(R) > 0
      <4> HIDE DEF R
      <4> QED  BY <1>3, <2>2, SMT
    <3>2. CASE Device(req) = "kbd"
      <4>1. kbd = AllUp  BY <1>2, <1>4, <2>2, <3>1, <3>2, ReportsFit DEF Progress, Fits
      <4>2. buttons # {} => "mouse" \in torn  BY <1>4, <3>2 DEF Progress
      <4> QED  BY <1>1, <3>2, <4>1, <4>2 DEF LetGo
    <3>3. CASE Device(req) = "mouse"
      <4>1. buttons = {}  BY <1>2, <1>4, <2>2, <3>1, <3>3, ReportsFit DEF Progress, Fits
      <4>2. kbd # AllUp => "kbd" \in torn  BY <1>4, <3>3 DEF Progress
      <4> QED  BY <1>1, <3>3, <4>1, <4>2 DEF LetGo
    <3> QED  BY <1>5, <3>2, <3>3
  <2> QED  BY <2>1, <2>2
<1>8. Told'
  <2>1. SUFFICES ASSUME Plain(req), whole
                 PROVE  /\ ~Raises(req) => got = Asked(req)
                        /\ \E k \in 0..Len(Asked(req)) : got = SubSeq(Asked(req), 1, k)
    BY <1>1 DEF Told
  <2>2. /\ EventsAfter(req, Len(R)) \in 0..Len(Asked(req))
        /\ got = SubSeq(Asked(req), 1, EventsAfter(req, Len(R)))
    BY <1>4, <2>1 DEF Progress
  <2>3. ASSUME ~Raises(req) PROVE got = Asked(req)
    <3>2. EventsAfter(req, Len(R)) = Len(Asked(req))
      BY <1>2, <2>1, <2>3, ActionArrives DEF Arrives
    <3>3. PICK S : Asked(req) \in Seq(S)  BY <1>2, AskedIsSequence
    <3> QED  BY <2>2, <3>2, <3>3, NoRest
  <2> QED  BY <2>2, <2>3
<1>9. Underway'  BY <1>1 DEF Underway
<1> QED  BY <1>6, <1>7, <1>8, <1>9 DEF DeskInv

\* The gatekeeper and the executor, in any step.
LEMMA DeskStepsKeep == DeskInv /\ DeskSteps => DeskInv'
BY DecidesKeeps, WritesKeeps, WriteRaisesKeeps, ExecuteEndsKeeps DEF DeskSteps

-----------------------------------------------------------------------------
(* The clients, and the screen and the operator around them.               *)

\* A step of a client, of the screen or of the operator that asks for nothing.
LEMMA LeavesKeep ==
  ASSUME DeskInv, screen' \in Screens, shot' \in Screens,
         changes' \in Nat, stops' \in Nat, frame' \in Nat, stop' \in BOOLEAN,
         UNCHANGED <<gate, req, queue, targetVars>>,
         ans' = ans \/ Take
  PROVE  DeskInv'
<1>1. ans' \in Outcomes \union {"none"} /\ (gate' # "idle" => ans' = "none")
  BY DEF DeskInv, DeskTypeOK, Take
<1>2. DeskTypeOK'  BY <1>1 DEF DeskInv, DeskTypeOK, targetVars
<1>4. CASE ans' = ans
  BY <1>2, <1>4, NoInput DEF DeskInv
<1>5. CASE Take
  <2>1. gate # "executing" /\ ans' = "none"  BY <1>5 DEF DeskInv, DeskTypeOK, Take
  <2> QED  BY <1>2, <2>1, NoInput DEF DeskInv
<1> QED  BY <1>4, <1>5

\* A step of a client that asks for an action its constructor let through.
LEMMA AskKeeps ==
  ASSUME DeskInv, gate = "idle", ans = "none", gate' = "asked",
         WellFormed(req'), "frame_id" \in DOMAIN req',
         shot' \in Screens, frame' \in Nat,
         UNCHANGED <<screen, changes, stop, stops, ans, queue, targetVars>>
  PROVE  DeskInv'
<1>1. DeskTypeOK'  BY DEF DeskInv, DeskTypeOK, targetVars
<1>3. Underway' /\ LetGo' /\ Told'  BY NoInput DEF DeskInv
<1> QED  BY <1>1, <1>3 DEF DeskInv

-----------------------------------------------------------------------------
History == [kind : Outcomes, terminal : BOOLEAN]

\* Every step of the range costs a model call or a frame skipped, and every
\* call is answered before the next step.
LoopInv ==
  /\ loop \in {"off", "top", "thinking", "failing", "acting"}
  /\ step \in 0..(MaxSteps + 1)
  /\ {lastFrame, lastKey} \subseteq Screens \union {NoScreen}
  /\ {shown, calls, skipped} \subseteq Nat
  /\ hist \in Seq(History)
  /\ loopResult \in {"none", "finished", "stopped", "steps", "degraded", "raised"}
  /\ calls + skipped <= MaxSteps /\ Len(hist) <= calls
  /\ loop \in {"top", "thinking"} => step >= 1 /\ calls + skipped = step - 1
  /\ loop \in {"failing", "acting"} =>
       step >= 1 /\ calls + skipped = step /\ Len(hist) < calls
  /\ loop = "thinking" => step <= MaxSteps

\* The placeholder was replaced before the first step.
ReplayInv ==
  /\ rp \in {"off", "step", "acting"}
  /\ rstep \in 0..(Len(Skill) + 1)
  /\ bound \in Params \union {Placeholder} /\ (rp # "off" => bound \in Params)
  /\ replayResult \in {"none", "ok", "error", "raised"}

\* What the steps around the executor may rely on.
LEMMA DeskIsTyped ==
  ASSUME DeskInv
  PROVE  /\ screen \in Screens /\ shot \in Screens /\ changes \in Nat /\ stops \in Nat
         /\ frame \in Nat /\ stop \in BOOLEAN /\ frame + 1 \in Nat /\ stops + 1 \in Nat
         /\ changes + 1 \in Nat
<1>1. /\ screen \in Screens /\ shot \in Screens /\ changes \in Nat /\ stops \in Nat
      /\ frame \in Nat /\ stop \in BOOLEAN
  BY DEF DeskInv, DeskTypeOK
<1> QED  BY <1>1, SMT

-----------------------------------------------------------------------------
\* The model may ask for no more than its actions, each with a frame id.
LEMMA ModelAsks ==
  ASSUME NEW a \in ModelActions, NEW id,
         NEW b, b = [f \in DOMAIN a \union {"frame_id"} |-> IF f = "frame_id" THEN id ELSE a[f]]
  PROVE  WellFormed(b) /\ "frame_id" \in DOMAIN b
<1>1. WellFormed(a)  BY LoopAssumption DEF LoopAssumption
<1>2. DOMAIN b = DOMAIN a \union {"frame_id"} /\ \A f \in DOMAIN a \ {"frame_id"} : b[f] = a[f]
  OBVIOUS
<1>3. b.kind = a.kind /\ b.kind \in Kinds  BY <1>1, <1>2 DEF WellFormed
<1>4. WellFormed(b)  BY <1>1, <1>2, <1>3 DEF WellFormed
<1> QED  BY <1>2, <1>4

\* The loop asks for nothing else, and types nothing itself.
LEMMA LoopDeskKeeps == DeskInv /\ LoopSteps => DeskInv'
<1> SUFFICES ASSUME DeskInv, LoopSteps PROVE DeskInv'  OBVIOUS
<1>0. /\ screen \in Screens /\ shot \in Screens /\ changes \in Nat /\ stops \in Nat
      /\ frame \in Nat /\ stop \in BOOLEAN /\ frame + 1 \in Nat
  BY DeskIsTyped
<1>1. CASE LoopGrabs
  <2>1. /\ UNCHANGED <<screen, changes, stop, stops, gate, req, ans, queue, targetVars>>
        /\ frame' = frame + 1 /\ shot' = screen
    BY <1>1 DEF LoopGrabs, Grabs, GrabLeaves
  <2> QED  BY <1>0, <2>1, LeavesKeep
<1>2. CASE LoopGrabRaises \/ StepsSpent \/ ModelUnavailable
  <2>1. UNCHANGED deskVars  BY <1>2 DEF LoopGrabRaises, StepsSpent, ModelUnavailable
  <2>2. UNCHANGED <<screen, changes, stop, stops, frame, shot, gate, req, ans, queue,
                    targetVars>>
    BY <2>1 DEF deskVars, targetVars
  <2> QED  BY <1>0, <2>2, LeavesKeep
<1>3. CASE ModelActs
  <2>1. PICK a \in ModelActions, id \in {frame, frame - 1} :
          Ask([f \in DOMAIN a \union {"frame_id"} |-> IF f = "frame_id" THEN id ELSE a[f]])
    BY <1>3 DEF ModelActs
  <2>2. /\ gate = "idle" /\ ans = "none" /\ gate' = "asked" /\ UNCHANGED <<ans, queue>>
        /\ req' = [f \in DOMAIN a \union {"frame_id"} |-> IF f = "frame_id" THEN id ELSE a[f]]
    BY <2>1 DEF Ask
  <2>3. UNCHANGED <<screen, changes, stop, stops, frame, shot, targetVars>>
    BY <1>3 DEF ModelActs, AskLeaves
  <2>4. WellFormed(req') /\ "frame_id" \in DOMAIN req'
    BY <2>2, ModelAsks
  <2> QED  BY <1>0, <2>2, <2>3, <2>4, AskKeeps
<1>4. CASE ModelBabbles
  <2>1. /\ gate = "idle" /\ ans = "none" /\ gate' = "asked" /\ UNCHANGED <<ans, queue>>
        /\ req' = [kind |-> "fail", frame_id |-> frame]
    BY <1>4 DEF ModelBabbles, Ask
  <2>2. UNCHANGED <<screen, changes, stop, stops, frame, shot, targetVars>>
    BY <1>4 DEF ModelBabbles, AskLeaves
  <2>3. WellFormed(req') /\ "frame_id" \in DOMAIN req'
    BY <2>1 DEF WellFormed, Kinds, Clicking
  <2> QED  BY <1>0, <2>1, <2>2, <2>3, AskKeeps
<1>5. CASE LoopGoesOn \/ LoopDecided
  <2>1. Take /\ UNCHANGED <<screen, changes, stop, stops, frame, shot, targetVars>>
    BY <1>5 DEF LoopGoesOn, LoopDecided, AskLeaves
  <2>2. UNCHANGED <<gate, req, queue>>  BY <2>1 DEF Take
  <2> QED  BY <1>0, <2>1, <2>2, LeavesKeep
<1> QED  BY <1>1, <1>2, <1>3, <1>4, <1>5 DEF LoopSteps

-----------------------------------------------------------------------------
\* What a step of the skill becomes is an action its constructor lets through.
LEMMA SkillAsks ==
  ASSUME ReplayInv, rp # "off", bound' = bound, NEW i \in DOMAIN Skill,
         NEW g \in Grounded(Skill[i]), NEW id, NEW b, b = ToAction(Skill[i], g, id),
         ~Ungrounded(Skill[i], g), ~Invalid(Skill[i], g)
  PROVE  WellFormed(b) /\ "frame_id" \in DOMAIN b
<1> DEFINE s == Skill[i]
<1>1. /\ s.kind \in Kinds /\ s.x \in Int /\ s.to \in Int
      /\ s.hotkey \in Seq(KeyNames) /\ s.keys \in Seq(KeyNames)
      /\ s.text \in Seq(Chars) \union {Placeholder}
  BY SkillAssumption DEF SkillAssumption
<1>2. bound \in Params /\ bound \in Seq(Chars)
  BY SkillAssumption DEF SkillAssumption, ReplayInv
<1>3. g.point \in Int /\ g.keys \in Seq(KeyNames)
  <2>1. CASE s.hotkey # << >>
    BY <1>1, <2>1, SMT DEF Grounded, NoPoint
  <2>2. CASE s.hotkey = << >>
    <3>1. PICK p \in (IF s.located THEN Points ELSE {}) \union {s.x} :
             g = [keys |-> << >>, point |-> p]
      BY <2>2 DEF Grounded
    <3>2. p \in Int  BY <1>1, <3>1, SkillAssumption DEF SkillAssumption
    <3>3. g.point = p /\ g.keys = << >>  BY <3>1
    <3> QED  BY <3>2, <3>3
  <2> QED  BY <2>1, <2>2
<1> HIDE DEF s
<1>4. CASE s.kind = "key"
  <2>1. b = [kind |-> "key", keys |-> Keys(s, g), frame_id |-> id]
    BY <1>4 DEF ToAction, s
  <2>2. Keys(s, g) \in Seq(KeyNames) \ {<< >>}
    BY <1>1, <1>3, <1>4 DEF Invalid, Keys, s
  <2> QED  BY <2>1, <2>2 DEF WellFormed, Kinds, Clicking
<1>5. CASE s.kind = "type"
  <2>1. b = [kind |-> "type", text |-> Text(s), frame_id |-> id]
    BY <1>5 DEF ToAction, s
  <2>2. Text(s) = IF s.text = Placeholder THEN bound ELSE s.text  BY DEF Text
  <2>3. Text(s) \in Seq(Chars) \ {<< >>}
    BY <1>1, <1>2, <1>5, <2>2 DEF Invalid, s
  <2> QED  BY <2>1, <2>3 DEF WellFormed, Kinds, Clicking
<1>6. CASE s.kind = "drag"
  <2>1. b = [kind |-> "drag", x |-> g.point, to |-> s.to, frame_id |-> id]
    BY <1>6 DEF ToAction, s
  <2> QED  BY <1>1, <1>3, <2>1 DEF WellFormed, Kinds, Clicking
<1>7. CASE s.kind \notin {"key", "type", "drag"}
  <2>1. b = [kind |-> s.kind, x |-> g.point, frame_id |-> id]
    BY <1>7 DEF ToAction, s
  <2>2. s.kind # "scroll"
    BY <1>7 DEF Invalid, Ungrounded, s
  <2> QED  BY <1>1, <1>3, <1>7, <2>1, <2>2 DEF WellFormed, Kinds, Clicking
<1> QED  BY <1>4, <1>5, <1>6, <1>7

SInv == IInv /\ DeskInv /\ LoopInv /\ ReplayInv

\* Nor does the replay.
LEMMA ReplayDeskKeeps == SInv /\ ReplaySteps => DeskInv'
<1> SUFFICES ASSUME SInv, ReplaySteps PROVE DeskInv'  OBVIOUS
<1> USE DEF SInv
<1>1. /\ screen \in Screens /\ shot \in Screens /\ changes \in Nat /\ stops \in Nat
      /\ frame \in Nat /\ stop \in BOOLEAN /\ frame + 1 \in Nat
  BY DeskIsTyped
<1>2. CASE ReplayStep
  <2>1. /\ rp = "step" /\ rstep <= Len(Skill) /\ bound' = bound
        /\ UNCHANGED <<screen, changes, stop, stops, ans, queue, targetVars>>
        /\ frame' = frame + 1 /\ shot' = screen
    BY <1>2 DEF ReplayStep, Grabs, RGrabLeaves
  <2>2. rstep \in DOMAIN Skill
    <3>1. rstep \in 1..(Len(Skill) + 1) /\ rstep <= Len(Skill)
      BY <2>1 DEF IInv, ReplayOrder
    <3>2. Len(Skill) \in Nat /\ DOMAIN Skill = 1..Len(Skill)
      BY SkillAssumption DEF SkillAssumption
    <3> QED  BY <3>1, <3>2, SMT
  <2>3. PICK g \in Grounded(Skill[rstep]) :
          \/ UNCHANGED <<gate, req>>
          \/ /\ ~Ungrounded(Skill[rstep], g) /\ ~Invalid(Skill[rstep], g)
             /\ gate = "idle" /\ ans = "none" /\ gate' = "asked"
             /\ req' = ToAction(Skill[rstep], g, frame')
    BY <1>2 DEF ReplayStep
  <2>4. CASE UNCHANGED <<gate, req>>
    BY <1>1, <2>1, <2>4, LeavesKeep
  <2>5. CASE /\ ~Ungrounded(Skill[rstep], g) /\ ~Invalid(Skill[rstep], g)
             /\ gate = "idle" /\ ans = "none" /\ gate' = "asked"
             /\ req' = ToAction(Skill[rstep], g, frame')
    <3>1. WellFormed(req') /\ "frame_id" \in DOMAIN req'
      BY <2>1, <2>2, <2>5, SkillAsks
    <3> QED  BY <1>1, <2>1, <2>5, <3>1, AskKeeps
  <2> QED  BY <2>3, <2>4, <2>5
<1>3. CASE ReplayGrabRaises
  <2>1. UNCHANGED <<screen, changes, stop, stops, frame, shot, gate, req, ans, queue,
                    targetVars>>
    BY <1>3 DEF ReplayGrabRaises, deskVars, targetVars
  <2> QED  BY <1>1, <2>1, LeavesKeep
<1>4. CASE ReplayDecided
  <2>1. Take /\ UNCHANGED <<screen, changes, stop, stops, frame, shot, targetVars>>
    BY <1>4 DEF ReplayDecided
  <2>2. UNCHANGED <<gate, req, queue>>  BY <2>1 DEF Take
  <2> QED  BY <1>1, <2>1, <2>2, LeavesKeep
<1>5. CASE ReplayChecks
  <2>1. /\ UNCHANGED <<screen, changes, stop, stops, ans, queue, targetVars, gate, req>>
        /\ frame' = frame + 1 /\ shot' = screen
    BY <1>5 DEF ReplayChecks, Grabs, RGrabLeaves
  <2> QED  BY <1>1, <2>1, LeavesKeep
<1> QED  BY <1>2, <1>3, <1>4, <1>5 DEF ReplaySteps

\* Nor does a call that begins.
LEMMA CallDeskKeeps == DeskInv /\ Call => DeskInv'
<1> SUFFICES ASSUME DeskInv, Call PROVE DeskInv'  OBVIOUS
<1>1. /\ screen \in Screens /\ shot \in Screens /\ changes \in Nat /\ stops \in Nat
      /\ frame \in Nat /\ stop \in BOOLEAN /\ frame + 1 \in Nat
  BY DeskIsTyped
<1>2. CASE RunLoop
  <2>1. UNCHANGED <<screen, changes, stop, stops, frame, shot, gate, req, ans, queue,
                    targetVars>>
    BY <1>2 DEF RunLoop, deskVars, targetVars
  <2> QED  BY <1>1, <2>1, LeavesKeep
<1>3. CASE \E text \in Params : StartReplay(text)
  <2>1. /\ UNCHANGED <<screen, changes, stop, stops, ans, queue, targetVars, gate, req>>
        /\ frame' = frame + 1 /\ shot' = screen
    BY <1>3 DEF StartReplay, Grabs, RGrabLeaves
  <2> QED  BY <1>1, <2>1, LeavesKeep
<1> QED  BY <1>2, <1>3 DEF Call

\* Nor do the screen and the operator.
LEMMA AroundDeskKeeps == DeskInv /\ Around => DeskInv'
<1> SUFFICES ASSUME DeskInv, Around PROVE DeskInv'  OBVIOUS
<1>1. /\ screen \in Screens /\ shot \in Screens /\ changes \in Nat /\ stops \in Nat
      /\ frame \in Nat /\ stop \in BOOLEAN /\ stops + 1 \in Nat /\ changes + 1 \in Nat
  BY DeskIsTyped
<1>2. CASE ScreenChanges
  <2>1. /\ UNCHANGED <<stop, stops, frame, shot, gate, req, ans, queue, targetVars>>
        /\ screen' \in Screens /\ changes' = changes + 1
    BY <1>2 DEF ScreenChanges
  <2> QED  BY <1>1, <2>1, LeavesKeep
<1>3. CASE Engage
  <2>1. /\ UNCHANGED <<screen, changes, frame, shot, gate, req, ans, queue, targetVars>>
        /\ stop' = TRUE /\ stops' = stops + 1
    BY <1>3 DEF Engage
  <2> QED  BY <1>1, <2>1, LeavesKeep
<1>4. CASE Release
  <2>1. /\ UNCHANGED <<screen, changes, stops, frame, shot, gate, req, ans, queue, targetVars>>
        /\ stop' = FALSE
    BY <1>4 DEF Release
  <2> QED  BY <1>1, <2>1, LeavesKeep
<1> QED  BY <1>2, <1>3, <1>4 DEF Around

-----------------------------------------------------------------------------
\* One more decision is noted.
LEMMA NotesOne ==
  ASSUME DeskInv, LoopInv, Take, Notes
  PROVE  hist' \in Seq(History) /\ Len(hist') = Len(hist) + 1 /\ Len(hist) \in Nat
<1>1. ans \in Outcomes  BY DEF DeskInv, DeskTypeOK, Take
<1>2. [kind |-> ans, terminal |-> Terminal(req)] \in History
  BY <1>1 DEF History, Terminal
<1>3. hist \in Seq(History)  BY DEF LoopInv
<1> QED  BY <1>2, <1>3, SMT DEF Notes

\* The loop counts every step once.
LEMMA LoopInvKeeps == DeskInv /\ LoopInv /\ LoopSteps => LoopInv'
<1> SUFFICES ASSUME DeskInv, LoopInv, LoopSteps PROVE LoopInv'  OBVIOUS
<1>1. frame \in Nat /\ screen \in Screens /\ MaxSteps \in Nat
  BY DeskIsTyped, LoopAssumption DEF LoopAssumption
<1>2. Len(hist) \in Nat  BY DEF LoopInv
<1>3. CASE LoopGrabs
  <2>1. /\ loop = "top" /\ step <= MaxSteps /\ UNCHANGED <<shown, calls, hist, loopResult>>
        /\ lastFrame' \in Screens /\ (lastKey' \in Screens \/ lastKey' = lastKey)
        /\ \/ loop' = "thinking" /\ UNCHANGED <<step, skipped>>
           \/ loop' = loop /\ skipped' = skipped + 1 /\ step' = step + 1
    BY <1>1, <1>3 DEF LoopGrabs, Grabs
  <2> QED  BY <1>1, <1>2, <2>1, SMT DEF LoopInv
<1>4. CASE LoopGrabRaises \/ StepsSpent \/ ModelUnavailable
  BY <1>1, <1>4, SMT DEF LoopGrabRaises, StepsSpent, ModelUnavailable, Ends, filterVars, LoopInv
<1>5. CASE ModelActs \/ ModelBabbles
  <2>1. /\ loop = "thinking" /\ calls' = calls + 1 /\ shown' = frame
        /\ loop' \in {"acting", "failing"}
        /\ UNCHANGED <<step, lastFrame, lastKey, skipped, hist, loopResult>>
    BY <1>5 DEF ModelActs, ModelBabbles, filterVars
  <2> QED  BY <1>1, <1>2, <2>1, SMT DEF LoopInv
<1>6. CASE LoopGoesOn \/ LoopDecided
  <2>1. hist' \in Seq(History) /\ Len(hist') = Len(hist) + 1
    BY <1>6, NotesOne DEF LoopGoesOn, LoopDecided
  <2>2. /\ loop \in {"failing", "acting"}
        /\ UNCHANGED <<lastFrame, lastKey, shown, calls, skipped>>
        /\ \/ loop' = "off" /\ loopResult' \in {"finished", "stopped"} /\ step' = step
           \/ loop' = "top" /\ loopResult' = loopResult /\ step' = step + 1
    BY <1>6 DEF LoopGoesOn, LoopDecided, Ends, filterVars
  <2> QED  BY <1>1, <1>2, <2>1, <2>2, SMT DEF LoopInv
<1> QED  BY <1>3, <1>4, <1>5, <1>6 DEF LoopSteps

\* The replay stays within the skill.
LEMMA ReplayInvKeeps == IInv /\ ReplayInv /\ ReplaySteps => ReplayInv'
<1> SUFFICES ASSUME IInv, ReplayInv, ReplaySteps PROVE ReplayInv'  OBVIOUS
<1>1. CASE ReplayStep \/ ReplayGrabRaises \/ ReplayChecks
  BY <1>1 DEF ReplayStep, ReplayGrabRaises, ReplayChecks, ReplayEnds, ReplayInv
<1>2. CASE ReplayDecided
  <2>1. rstep \in 1..Len(Skill) /\ rstep + 1 \in 0..(Len(Skill) + 1)
    BY <1>2, SkillLength, SMT DEF ReplayDecided, IInv, ReplayOrder
  <2> QED  BY <1>2, <2>1 DEF ReplayDecided, ReplayEnds, ReplayInv
<1> QED  BY <1>1, <1>2 DEF ReplaySteps

-----------------------------------------------------------------------------
\* Nothing has happened yet.
LEMMA InitSInv == Init => SInv
<1> SUFFICES ASSUME Init PROVE SInv  OBVIOUS
<1>1. IInv  BY InitIInv
<1>2. DeskInv
  <2>1. DeskTypeOK
    <3>1. << >> \in Seq(KbdReports \union MouseReports)  OBVIOUS
    <3>2. 0 \in Nat  OBVIOUS
    <3>3. /\ screen \in Screens /\ shot \in Screens /\ stop = FALSE /\ whole = TRUE
          /\ changes = 0 /\ stops = 0 /\ frame = 0 /\ tears = 0 /\ acted = 0
          /\ gate = "idle" /\ ans = "none" /\ queue = << >> /\ kbd = AllUp
          /\ buttons = {} /\ torn = {}
      BY DEF Init, DeskInit
    <3> QED  BY <3>1, <3>2, <3>3, AllUpTyped DEF DeskTypeOK
  <2> QED  BY <2>1 DEF Init, DeskInit, DeskInv, Underway, LetGo, Told
<1>3. LoopInv
  <2>1. MaxSteps \in Nat  BY LoopAssumption DEF LoopAssumption
  <2> QED  BY <2>1, SMT DEF Init, LoopInit, LoopInv
<1>4. ReplayInv
  BY SkillLength, SMT DEF Init, ReplayInit, ReplayInv
<1> QED  BY <1>1, <1>2, <1>3, <1>4 DEF SInv

\* A step of any of them.
LEMMA NextSInv == SInv /\ [Next]_vars => SInv'
<1> SUFFICES ASSUME SInv, [Next]_vars PROVE SInv'  OBVIOUS
<1> USE DEF SInv
<1>1. IInv'  BY NextIInv
<1>2. CASE Call
  <2>1. DeskInv'  BY <1>2, CallDeskKeeps
  <2>2. CASE RunLoop /\ UNCHANGED replayVars
    <3>1. LoopInv'
      BY <2>2, LoopAssumption, SMT DEF LoopAssumption, RunLoop, filterVars, LoopInv
    <3>2. ReplayInv'  BY <2>2 DEF ReplayInv, replayVars
    <3> QED  BY <1>1, <2>1, <3>1, <3>2
  <2>3. CASE (\E text \in Params : StartReplay(text)) /\ UNCHANGED loopVars
    <3>1. LoopInv'  BY <2>3 DEF LoopInv, loopVars
    <3>2. ReplayInv'
      BY <2>3, SkillLength, SMT DEF StartReplay, ReplayEnds, ReplayInv
    <3> QED  BY <1>1, <2>1, <3>1, <3>2
  <2> QED  BY <1>2, <2>2, <2>3 DEF Call
<1>3. CASE Works
  <2>1. CASE LoopSteps /\ UNCHANGED replayVars
    <3>1. ReplayInv'  BY <2>1 DEF ReplayInv, replayVars
    <3> QED  BY <1>1, <2>1, <3>1, LoopDeskKeeps, LoopInvKeeps
  <2>2. CASE ReplaySteps /\ UNCHANGED loopVars
    <3>1. LoopInv'  BY <2>2 DEF LoopInv, loopVars
    <3> QED  BY <1>1, <2>2, <3>1, ReplayDeskKeeps, ReplayInvKeeps
  <2>3. CASE DeskSteps /\ UNCHANGED <<loopVars, replayVars>>
    <3>1. LoopInv' /\ ReplayInv'
      BY <2>3 DEF LoopInv, loopVars, ReplayInv, replayVars
    <3> QED  BY <1>1, <2>3, <3>1, DeskStepsKeep
  <2> QED  BY <1>3, <2>1, <2>2, <2>3 DEF Works
<1>4. CASE Around
  <2>1. LoopInv' /\ ReplayInv'
    BY <1>4 DEF Around, LoopInv, loopVars, ReplayInv, replayVars
  <2> QED  BY <1>1, <1>4, <2>1, AroundDeskKeeps
<1>5. CASE UNCHANGED vars
  <2>1. UNCHANGED <<screen, changes, stop, stops, frame, shot, gate, req, ans, queue,
                    targetVars>>
    BY <1>5 DEF vars, deskVars, targetVars
  <2>2. DeskInv'  BY <2>1, DeskIsTyped, LeavesKeep
  <2>3. LoopInv' /\ ReplayInv'
    BY <1>5 DEF vars, LoopInv, loopVars, ReplayInv, replayVars
  <2> QED  BY <1>1, <2>2, <2>3
<1> QED  BY <1>2, <1>3, <1>4, <1>5 DEF Next

\* The invariant of the desk and of both clients holds in every run.
THEOREM InputInvariantHolds == Spec => []SInv
BY InitSInv, NextSInv, PTL DEF Spec

\* Every variable keeps its type, the reports on their way to the device and the
\* action asked for among them, and the loop never spends more than max_steps
\* calls and skipped frames (loop.py: for step in range(max_steps)).
THEOREM TypeCorrect == Spec => []TypeOK
<1>1. SInv => TypeOK
  BY DEF SInv, IInv, Clients, DeskInv, LoopInv, ReplayInv, TypeOK
<1> QED  BY InputInvariantHolds, <1>1, PTL

\* For every action and every point at which a write may raise: between actions
\* no key and no button is down, except on a device whose last action broke off.
THEOREM NothingStaysHeld == Spec => []HeldOnlyAfterFailure
<1>1. SInv => HeldOnlyAfterFailure
  BY DEF SInv, DeskInv, LetGo, HeldOnlyAfterFailure
<1> QED  BY InputInvariantHolds, <1>1, PTL

\* For every screen width, every text, chord, click, drag and scroll, and every
\* write that fails: what the target sees is what was asked for, or a beginning
\* of it where the action was reported as failed.
THEOREM InputArrives == Spec => []InputIsWhatWasAsked
<1>1. SInv => InputIsWhatWasAsked
  <2> SUFFICES ASSUME SInv, whole, Plain(req)
               PROVE  /\ ans = "executed" => got = Asked(req)
                      /\ gate = "executing" \/ ans = "execution-failed" =>
                           \E k \in 0..Len(Asked(req)) : got = SubSeq(Asked(req), 1, k)
    BY DEF InputIsWhatWasAsked
  <2>1. ASSUME gate = "executing"
        PROVE  \E k \in 0..Len(Asked(req)) : got = SubSeq(Asked(req), 1, k)
    <3>1. PICK j \in 0..Len(Reports(req)) : Progress(j)
      BY <2>1 DEF SInv, DeskInv, Underway
    <3> QED  BY <3>1 DEF Progress
  <2> QED  BY <2>1 DEF SInv, DeskInv, Told
<1> QED  BY InputInvariantHolds, <1>1, PTL
=============================================================================

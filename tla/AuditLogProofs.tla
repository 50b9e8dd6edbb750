--------------------------- MODULE AuditLogProofs ---------------------------
(***************************************************************************)
(* A log that one process at a time appends to, with no write cut short    *)
(* and no outside change, verifies at every moment, across any number of   *)
(* processes, restarts, crashes and records; and whatever was cut short or *)
(* changed, what verifies is all that was written, as long as the last     *)
(* line stays last.                                                        *)
(*                                                                         *)
(* ChainHolds is not inductive: that the next line chains to the last one  *)
(* rests on _prev being the tail hash in the one process that is up, and   *)
(* on the number it counted being the length of the file plus one.  What   *)
(* VerifiedIsComplete rests on is said where its part begins.              *)
(***************************************************************************)
EXTENDS AuditLog, SequenceTheorems, WellFoundedInduction, TLAPS

Clean == damaged = 0 /\ ~torn

\* The process that is up continues the chain where the file ends.
Continues(w) ==
  Clean /\ at[w] # "down" =>
    /\ prev[w] = TailHash
    /\ at[w] = "counted" => seq[w] = Len(log) + 1

OneUp == \A v, w \in Writers : at[v] # "down" /\ at[w] # "down" => v = w

ChainInv ==
  /\ OneUp
  /\ ~torn => ~ragged
  /\ ChainHolds
  /\ \A w \in Writers : Continues(w)

-----------------------------------------------------------------------------
\* A record has the fields of a line and hashes to what its own fields say.
LEMMA EntryType ==
  ASSUME NEW s \in Nat, NEW p \in Hashes, NEW b \in Bodies
  PROVE  /\ Entry(s, p, b) \in Entries
         /\ Entry(s, p, b).hash \in Hashes
<1>1. <<s, b>> \in Nat \X Bodies
  OBVIOUS
<1>2. Append(p, <<s, b>>) \in Hashes
  BY <1>1, AppendProperties DEF Hashes
<1> QED
  BY <1>2 DEF Entry, EntryHash, Entries

\* Text at the end of the file leaves lines in the file, and at least one.
LEMMA ExtendedType ==
  ASSUME TypeOK, NEW line \in Entries \union {Torn}
  PROVE  /\ Extended(line) \in Seq(Entries \union {Torn})
         /\ Extended(line) # << >>
<1> DEFINE L == Entries \union {Torn}
<1>1. log \in Seq(L)
  BY DEF TypeOK
<1>2. CASE ragged
  <2>1. log # << >>
    BY <1>2 DEF TypeOK
  <2>2. [log EXCEPT ![Len(log)] = Torn] \in Seq(L)
    BY <1>1, <2>1, ExceptSeq
  <2>3. Len([log EXCEPT ![Len(log)] = Torn]) = Len(log) /\ Len(log) # 0
    BY <1>1, <2>1, ExceptSeq, EmptySeq
  <2> QED
    BY <1>2, <2>2, <2>3 DEF Extended
<1>3. CASE ~ragged
  BY <1>1, <1>3, AppendProperties DEF Extended
<1> QED
  BY <1>2, <1>3

\* A new AuditLog takes a hash from the file.
LEMMA TailHashType ==
  ASSUME TypeOK, log # << >> => log[Len(log)] # Torn
  PROVE  TailHash \in Hashes
<1>1. CASE log = << >>
  BY <1>1, EmptySeq DEF TailHash, Genesis, Hashes
<1>2. CASE log # << >>
  <2>1. Len(log) \in 1..Len(log)
    BY <1>2, EmptySeq DEF TypeOK
  <2>2. log[Len(log)] \in Entries
    BY <1>2, <2>1, ElementOfSeq DEF TypeOK
  <2> QED
    BY <1>2, <2>2 DEF TailHash, Entries
<1> QED
  BY <1>1, <1>2

\* An outside change leaves lines in the file.
LEMMA DamageType ==
  ASSUME TypeOK, NEW i \in 1..Len(log), Edit(i) \/ Delete(i) \/ Swap(i)
  PROVE  log' \in Seq(Entries \union {Torn})
<1> DEFINE L == Entries \union {Torn}
<1>1. log \in Seq(L) /\ log[i] \in L /\ Len(log) \in Nat
  BY ElementOfSeq, LenProperties DEF TypeOK
<1>2. CASE Edit(i)
  <2>1. PICK b \in Bodies : log' = [log EXCEPT ![i].body = b]
    BY <1>2 DEF Edit
  <2>2. log[i] \in Entries
    BY <1>1, <1>2 DEF Edit
  <2>3. [log[i] EXCEPT !.body = b] \in L
    BY <2>2 DEF Entries
  <2>4. log' = [log EXCEPT ![i] = [log[i] EXCEPT !.body = b]]
    BY <2>1
  <2> QED
    BY <1>1, <2>3, <2>4, ExceptSeq
<1>3. CASE Delete(i)
  <2>1. SubSeq(log, 1, i - 1) \in Seq(L)
    BY <1>1, SubSeqProperties
  <2>2. SubSeq(log, i + 1, Len(log)) \in Seq(L)
    BY <1>1, SubSeqProperties
  <2> QED
    BY <1>3, <2>1, <2>2, ConcatProperties DEF Delete, RemoveAt
<1>4. CASE Swap(i)
  <2>1. i + 1 \in 1..Len(log)
    BY <1>1, <1>4 DEF Swap
  <2>2. log[i + 1] \in L
    BY <1>1, <2>1, ElementOfSeq
  <2> DEFINE half == [log EXCEPT ![i] = log[i + 1]]
  <2>3. half \in Seq(L) /\ Len(half) = Len(log)
    BY <1>1, <2>2, ExceptSeq
  <2>4. log' = [half EXCEPT ![i + 1] = log[i]]
    BY <1>4 DEF Swap
  <2> HIDE DEF half
  <2> QED
    BY <1>1, <2>1, <2>3, <2>4, ExceptSeq
<1> QED
  BY <1>2, <1>3, <1>4

-----------------------------------------------------------------------------
\* One writer's step keeps the types.
LEMMA WriterTypes ==
  ASSUME TypeOK, NEW w \in Writers, WriterStep(w)
  PROVE  TypeOK'
<1> DEFINE L == Entries \union {Torn}
<1>1. Len(log) \in Nat /\ Len(log) + 1 \in Nat
  BY LenProperties DEF TypeOK
<1>2. CASE Open(w)
  <2>1. TailHash \in Hashes
    BY <1>2, TailHashType DEF Open
  <2> QED
    BY <1>2, <2>1 DEF Open, TypeOK
<1>3. CASE Count(w)
  BY <1>1, <1>3 DEF Count, TypeOK
<1>4. CASE Write(w)
  <2>1. PICK b \in Bodies :
          /\ log' = Extended(Entry(seq[w], prev[w], b))
          /\ prev' = [prev EXCEPT ![w] = Entry(seq[w], prev[w], b).hash]
          /\ written' = Append(written, Entry(seq[w], prev[w], b))
    BY <1>4 DEF Write
  <2> DEFINE e == Entry(seq[w], prev[w], b)
  <2>2. e \in Entries /\ e.hash \in Hashes
    BY EntryType DEF TypeOK
  <2> HIDE DEF e
  <2>3. log' \in Seq(L)
    BY <2>1, <2>2, ExtendedType DEF e
  <2>4. written' \in Seq(Entries)
    BY <2>1, <2>2, AppendProperties DEF TypeOK, e
  <2>5. prev' \in [Writers -> Hashes]
    BY <2>1, <2>2 DEF TypeOK, e
  <2> QED
    BY <1>4, <2>3, <2>4, <2>5 DEF Write, TypeOK
<1>5. CASE CutShort(w)
  <2>1. /\ log' \in Seq(L) /\ log' # << >>
        /\ written' \in Seq(Entries)
    <3>1. CASE log' = Extended(Torn) /\ UNCHANGED written
      BY <3>1, ExtendedType DEF TypeOK
    <3>2. ASSUME NEW b \in Bodies,
                 log' = Extended(Entry(seq[w], prev[w], b)),
                 written' = Append(written, Entry(seq[w], prev[w], b))
          PROVE  /\ log' \in Seq(L) /\ log' # << >>
                 /\ written' \in Seq(Entries)
      <4> DEFINE e == Entry(seq[w], prev[w], b)
      <4>1. e \in Entries
        BY EntryType DEF TypeOK
      <4> HIDE DEF e
      <4> QED
        BY <3>2, <4>1, ExtendedType, AppendProperties DEF TypeOK, e
    <3> QED
      BY <1>5, <3>1, <3>2 DEF CutShort
  <2> QED
    BY <1>5, <2>1 DEF CutShort, TypeOK
<1>6. CASE Crash(w)
  BY <1>6 DEF Crash, TypeOK
<1> QED
  BY <1>2, <1>3, <1>4, <1>5, <1>6 DEF WriterStep

LEMMA NextTypes == TypeOK /\ [Next]_vars => TypeOK'
<1> SUFFICES ASSUME TypeOK, [Next]_vars PROVE TypeOK'
  OBVIOUS
<1>1. CASE OutsideChange
  <2>1. PICK i \in 1..Len(log) : Edit(i) \/ Delete(i) \/ Swap(i)
    BY <1>1 DEF OutsideChange
  <2>2. log' \in Seq(Entries \union {Torn})
    BY <2>1, DamageType
  <2> QED
    BY <1>1, <2>2 DEF OutsideChange, TypeOK
<1>2. CASE UNCHANGED vars
  BY <1>2 DEF vars, TypeOK
<1> QED
  BY <1>1, <1>2, WriterTypes DEF Next

LEMMA InitTypes == Init => TypeOK
<1>1. /\ << >> \in Seq(Entries \union {Torn}) /\ << >> \in Seq(Entries)
      /\ << >> \in Hashes
  BY EmptySeq DEF Hashes
<1> SUFFICES ASSUME Init PROVE TypeOK
  OBVIOUS
<1>2. log \in Seq(Entries \union {Torn}) /\ written \in Seq(Entries)
  BY <1>1 DEF Init
<1>3. prev \in [Writers -> Hashes]
  BY <1>1 DEF Init, Genesis
<1> QED
  BY <1>2, <1>3 DEF Init, TypeOK

\* The file, the writers' memory and the history keep their types whatever
\* the writers and the outside do: audit.py's append and _tail_hash never
\* see anything but records and lines that are not JSON.
THEOREM TypeCorrect == Spec => []TypeOK
  BY InitTypes, NextTypes, PTL DEF Spec

-----------------------------------------------------------------------------
\* A clean file is whole: it verifies and a new AuditLog finds its last hash.
\* What one writer's step does to it.
LEMMA WriterChain ==
  ASSUME ~Shared, TypeOK, ChainInv, NEW w \in Writers, WriterStep(w)
  PROVE  ChainInv'
<1>1. /\ Len(log) \in Nat
      /\ \A v \in Writers : at[v] \in {"down", "up", "counted"}
      /\ \A v \in Writers : seq[v] \in Nat
  BY LenProperties DEF TypeOK
<1>2. CASE Open(w)
  <2>1. \A v \in Writers : at[v] = "down"
    BY <1>2 DEF Open
  <2>2. OneUp'
    BY <1>2, <2>1 DEF Open, OneUp, TypeOK
  <2>3. ChainHolds' /\ (~torn => ~ragged)' /\ TailHash' = TailHash
    BY <1>2 DEF Open, ChainInv, ChainHolds, Verify, LineOk, PrevHash, TailHash
  <2>4. ASSUME NEW v \in Writers PROVE Continues(v)'
    BY <1>2, <2>1, <2>3 DEF Open, Continues, Clean, TypeOK
  <2> QED
    BY <2>2, <2>3, <2>4 DEF ChainInv
<1>3. CASE Count(w)
  <2>1. OneUp'
    BY <1>1, <1>3 DEF Count, OneUp, ChainInv, TypeOK
  <2>2. ChainHolds' /\ (~torn => ~ragged)' /\ TailHash' = TailHash
    BY <1>3 DEF Count, ChainInv, ChainHolds, Verify, LineOk, PrevHash, TailHash
  <2>3. ASSUME NEW v \in Writers PROVE Continues(v)'
    BY <1>1, <1>3, <2>2 DEF Count, ChainInv, Continues, Clean, TypeOK
  <2> QED
    BY <2>1, <2>2, <2>3 DEF ChainInv
<1>4. CASE Write(w)
  <2>1. PICK b \in Bodies :
          /\ log' = Extended(Entry(seq[w], prev[w], b))
          /\ prev' = [prev EXCEPT ![w] = Entry(seq[w], prev[w], b).hash]
    BY <1>4 DEF Write
  <2> DEFINE e == Entry(seq[w], prev[w], b)
  <2>2. OneUp' /\ \A v \in Writers : v # w => at'[v] = "down"
    BY <1>1, <1>4 DEF Write, OneUp, ChainInv, TypeOK
  <2>3. /\ e \in Entries /\ e.seq = seq[w] /\ e.prev = prev[w] /\ e.body = b
        /\ e.hash = EntryHash(e.seq, e.prev, e.body)
    BY EntryType DEF TypeOK, Entry
  <2> HIDE DEF e
  <2>4. CASE Clean
    <3>1. log' = Append(log, e)
      BY <2>1, <2>4 DEF Extended, ChainInv, Clean, e
    <3>2. /\ Len(log') = Len(log) + 1 /\ log' # << >>
          /\ \A i \in 1..Len(log) : log'[i] = log[i]
          /\ log'[Len(log) + 1] = e
      <4>1. log \in Seq(Entries \union {Torn}) /\ e \in Entries \union {Torn}
        BY <2>3 DEF TypeOK
      <4>2. /\ Len(Append(log, e)) = Len(log) + 1 /\ Append(log, e) # << >>
            /\ \A i \in 1..Len(log) : Append(log, e)[i] = log[i]
            /\ Append(log, e)[Len(log) + 1] = e
        BY <4>1, AppendProperties
      <4> QED
        BY <3>1, <4>2
    <3>3. prev[w] = TailHash /\ seq[w] = Len(log) + 1
      BY <1>4, <2>4 DEF Write, ChainInv, Continues
    <3>4. ASSUME NEW i \in 1..Len(log') PROVE LineOk(i)'
      <4>1. CASE i \in 1..Len(log)
        <5>1. LineOk(i)
          BY <2>4, <4>1 DEF ChainInv, ChainHolds, Verify, Clean
        <5>2. log'[i] = log[i] /\ PrevHash(i)' = PrevHash(i)
          BY <1>1, <3>2, <4>1 DEF PrevHash
        <5> QED
          BY <5>1, <5>2 DEF LineOk
      <4>2. CASE i = Len(log) + 1
        <5>1. PrevHash(i)' = TailHash
          <6>1. CASE Len(log) = 0
            BY <4>2, <6>1, EmptySeq DEF PrevHash, TailHash, TypeOK
          <6>2. CASE Len(log) # 0
            <7>1. log # << >> /\ i - 1 = Len(log) /\ i # 1
              BY <1>1, <4>2, <6>2, EmptySeq
            <7>2. log'[i - 1] = log[Len(log)]
              BY <1>1, <3>2, <6>2, <7>1
            <7> QED
              BY <7>1, <7>2 DEF PrevHash, TailHash
          <6> QED
            BY <6>1, <6>2
        <5>2. log'[i] = e /\ e # Torn
          BY <3>2, <4>2, TornIsNoEntry, <2>3
        <5> QED
          BY <2>3, <3>3, <4>2, <5>1, <5>2 DEF LineOk
      <4> QED
        BY <1>1, <3>2, <4>1, <4>2
    <3>5. ChainHolds'
      BY <3>4 DEF ChainHolds, Verify
    <3>6. TailHash' = e.hash
      BY <3>2 DEF TailHash
    <3>7. prev'[w] = e.hash /\ at'[w] = "up"
      BY <1>4, <2>1 DEF Write, TypeOK, e
    <3>8. ASSUME NEW v \in Writers PROVE Continues(v)'
      BY <2>2, <3>6, <3>7 DEF Continues
    <3> QED
      BY <1>4, <2>2, <3>5, <3>8 DEF ChainInv, Write
  <2>5. CASE ~Clean
    <3>1. ~Clean'
      BY <1>4, <2>5 DEF Write, Clean
    <3> QED
      BY <1>4, <2>2, <3>1 DEF Write, ChainInv, ChainHolds, Continues, Clean
  <2> QED
    BY <2>4, <2>5
<1>5. CASE CutShort(w)
  <2>1. ~Clean' /\ torn'
    BY <1>5 DEF CutShort, Clean
  <2>2. OneUp'
    BY <1>1, <1>5 DEF CutShort, OneUp, ChainInv, TypeOK
  <2> QED
    BY <2>1, <2>2 DEF ChainInv, ChainHolds, Continues, Clean
<1>6. CASE Crash(w)
  <2>1. OneUp'
    BY <1>1, <1>6 DEF Crash, OneUp, ChainInv, TypeOK
  <2>2. ChainHolds' /\ (~torn => ~ragged)' /\ TailHash' = TailHash
    BY <1>6 DEF Crash, ChainInv, ChainHolds, Verify, LineOk, PrevHash, TailHash
  <2>3. ASSUME NEW v \in Writers PROVE Continues(v)'
    BY <1>1, <1>6, <2>2 DEF Crash, ChainInv, Continues, Clean, TypeOK
  <2> QED
    BY <2>1, <2>2, <2>3 DEF ChainInv
<1> QED
  BY <1>2, <1>3, <1>4, <1>5, <1>6 DEF WriterStep

LEMMA NextChain ==
  ASSUME ~Shared, TypeOK, ChainInv, [Next]_vars
  PROVE  ChainInv'
<1>1. CASE OutsideChange
  <2>1. ~Clean'
    BY <1>1 DEF OutsideChange, Clean, TypeOK
  <2> QED
    BY <1>1, <2>1
    DEF OutsideChange, ChainInv, OneUp, ChainHolds, Continues, Clean
<1>2. CASE UNCHANGED vars
  BY <1>2 DEF vars, ChainInv, OneUp, ChainHolds, Continues, Clean, Verify,
              LineOk, PrevHash, TailHash
<1> QED
  BY <1>1, <1>2, WriterChain DEF Next

\* A log that its writers have open one at a time verifies, as long as no
\* write is cut short and nobody else touches the file: restarts and crashes
\* between appends never break the chain (audit.py's _tail_hash, append).
THEOREM OwnLogVerifies == ~Shared => (Spec => []ChainHolds)
<1> SUFFICES ASSUME ~Shared PROVE Spec => []ChainHolds
  OBVIOUS
<1>1. Init => ChainInv
  BY EmptySeq
  DEF Init, ChainInv, OneUp, ChainHolds, Continues, Clean, Verify
<1>2. TypeOK /\ ChainInv /\ [Next]_vars => ChainInv'
  BY NextChain
<1>3. ChainInv => ChainHolds
  BY DEF ChainInv
<1> QED
  BY <1>1, <1>2, <1>3, TypeCorrect, PTL DEF Spec
-----------------------------------------------------------------------------
(***************************************************************************)
(* What a log that verifies says of what was written, after any number of  *)
(* outside changes and cut writes, as long as the last line stays last.    *)
(*                                                                         *)
(* A hash is as long as the chain it ends, so a log that verifies has a    *)
(* line of every length up to the last one's, and the last line's hash     *)
(* says what they are.  A record that is missing from the chain the        *)
(* writers went on with left a length that no line has, and none gets it   *)
(* again.                                                                  *)
(***************************************************************************)
PrevIn(s, i) == IF i = 1 THEN Genesis ELSE s[i - 1].hash

Chained(s) ==
  \A i \in 1..Len(s) :
    /\ s[i] \in Entries
    /\ s[i].prev = PrevIn(s, i)
    /\ s[i].hash = EntryHash(s[i].seq, s[i].prev, s[i].body)

Lost(h) ==
  \E k \in 1..Len(h) :
    \A i \in 1..Len(log) : log[i] # Torn => Len(log[i].hash) # k

\* A set of natural numbers has a least one: the induction of what follows.
LEMMA LeastNumber ==
  ASSUME NEW T \in SUBSET Nat, T # {}
  PROVE  \E x \in T : \A y \in T : x <= y
<1>1. \E R : IsWellFoundedOn(R, Nat) /\ \A x, y \in Nat : <<y, x>> \in R <=> y < x
  <2>1. \A x, y \in Nat : <<y, x>> \in OpToRel(<, Nat) <=> y < x
    BY Zenon DEF OpToRel
  <2> QED
    BY NatLessThanWellFounded, <2>1, Zenon
<1>2. PICK R : IsWellFoundedOn(R, Nat) /\ \A x, y \in Nat : <<y, x>> \in R <=> y < x
  BY <1>1, Zenon
<1>3. PICK x \in T : \A y \in T : ~(<<y, x>> \in R)
  BY <1>2, WFMin, Zenon
<1>4. ASSUME NEW y \in T PROVE x <= y
  <2>1. x \in Nat /\ y \in Nat
    OBVIOUS
  <2>2. ~(y < x)
    BY <1>2, <1>3, <2>1, Zenon
  <2> QED
    BY <2>1, <2>2
<1> QED
  BY <1>4

\* A hash says which hash it continues, and with which number and body.
LEMMA HashSays ==
  ASSUME NEW p \in Hashes, NEW q \in Hashes, NEW s \in Nat, NEW t \in Nat,
         NEW b \in Bodies, NEW c \in Bodies
  PROVE  /\ Len(EntryHash(s, p, b)) = Len(p) + 1
         /\ EntryHash(s, p, b) = EntryHash(t, q, c) => p = q /\ s = t /\ b = c
<1> DEFINE N == Nat \X Bodies
           x == <<s, b>>
           y == <<t, c>>
<1>1. p \in Seq(N) /\ q \in Seq(N) /\ x \in N /\ y \in N
  BY DEF Hashes
<1>2. /\ Len(p) \in Nat /\ Len(q) \in Nat
      /\ Len(Append(p, x)) = Len(p) + 1 /\ Len(Append(q, y)) = Len(q) + 1
      /\ \A i \in 1..Len(p) : Append(p, x)[i] = p[i]
      /\ \A i \in 1..Len(q) : Append(q, y)[i] = q[i]
      /\ Append(p, x)[Len(p) + 1] = x /\ Append(q, y)[Len(q) + 1] = y
  BY <1>1, AppendProperties, LenProperties
<1>3. ASSUME Append(p, x) = Append(q, y) PROVE p = q /\ x = y
  <2>1. Len(p) = Len(q)
    BY <1>2, <1>3
  <2>2. \A i \in 1..Len(p) : p[i] = q[i]
    BY <1>2, <1>3, <2>1
  <2>3. p = q
    BY <1>1, <2>1, <2>2, SeqEqual
  <2> QED
    BY <1>2, <1>3, <2>1, <2>3
<1>4. x = y => s = t /\ b = c
  OBVIOUS
<1> QED
  BY <1>2, <1>3, <1>4 DEF EntryHash

LEMMA ChainedLength ==
  ASSUME NEW S, NEW s \in Seq(S), Chained(s)
  PROVE  \A i \in 1..Len(s) : Len(s[i].hash) = i
<1>1. Len(s) \in Nat
  BY LenProperties
<1> DEFINE T == {i \in 1..Len(s) : Len(s[i].hash) # i}
<1> SUFFICES ASSUME T # {} PROVE FALSE
  OBVIOUS
<1>2. PICK i \in T : \A j \in T : i <= j
  <2>1. T \in SUBSET Nat
    BY <1>1
  <2> QED
    BY <2>1, LeastNumber
<1>3. i \in 1..Len(s) /\ i \in Nat /\ Len(s[i].hash) # i
  BY <1>1
<1>4. /\ s[i].prev \in Hashes /\ s[i].seq \in Nat /\ s[i].body \in Bodies
      /\ s[i].prev = PrevIn(s, i)
      /\ s[i].hash = EntryHash(s[i].seq, s[i].prev, s[i].body)
  BY <1>3 DEF Chained, Entries
<1>5. Len(s[i].hash) = Len(PrevIn(s, i)) + 1
  BY <1>4, HashSays
<1>6. CASE i = 1
  BY <1>3, <1>5, <1>6, EmptySeq DEF PrevIn, Genesis
<1>7. CASE i # 1
  <2>1. i - 1 \in 1..Len(s) /\ i - 1 \notin T
    BY <1>1, <1>2, <1>3, <1>7
  <2>2. Len(s[i - 1].hash) = i - 1
    BY <2>1
  <2> QED
    BY <1>3, <1>5, <1>7, <2>2 DEF PrevIn
<1> QED
  BY <1>6, <1>7

\* Two chains that end in one hash are one.
LEMMA ChainedEqual ==
  ASSUME NEW S, NEW s \in Seq(S), NEW t \in Seq(S), Chained(s), Chained(t),
         s # << >>, t # << >>, s[Len(s)].hash = t[Len(t)].hash
  PROVE  s = t
<1> DEFINE n == Len(s)
<1>1. n \in Nat \ {0} /\ Len(t) \in Nat \ {0}
  BY EmptySeq
<1>2. Len(t) = n
  <2>1. n \in 1..n /\ Len(t) \in 1..Len(t)
    BY <1>1
  <2>2. Len(s[n].hash) = n /\ Len(t[Len(t)].hash) = Len(t)
    BY <2>1, ChainedLength
  <2> QED
    BY <2>2
<1> HIDE DEF n
<1>3. ASSUME NEW i \in 1..n, s[i].hash = t[i].hash
      PROVE  s[i] = t[i] /\ PrevIn(s, i) = PrevIn(t, i)
  <2>1. i \in 1..Len(s) /\ i \in 1..Len(t)
    BY <1>2 DEF n
  <2>2. /\ s[i] \in Entries /\ s[i].prev = PrevIn(s, i)
        /\ s[i].hash = EntryHash(s[i].seq, s[i].prev, s[i].body)
    BY <2>1 DEF Chained
  <2>3. /\ t[i] \in Entries /\ t[i].prev = PrevIn(t, i)
        /\ t[i].hash = EntryHash(t[i].seq, t[i].prev, t[i].body)
    BY <2>1 DEF Chained
  <2>4. /\ s[i].prev \in Hashes /\ s[i].seq \in Nat /\ s[i].body \in Bodies
        /\ t[i].prev \in Hashes /\ t[i].seq \in Nat /\ t[i].body \in Bodies
    BY <2>2, <2>3 DEF Entries
  <2>5. s[i].prev = t[i].prev /\ s[i].seq = t[i].seq /\ s[i].body = t[i].body
    <3>1. EntryHash(s[i].seq, s[i].prev, s[i].body)
            = EntryHash(t[i].seq, t[i].prev, t[i].body)
      BY <1>3, <2>2, <2>3
    <3> QED
      BY <2>4, <3>1, HashSays
  <2>6. s[i] = t[i]
    BY <1>3, <2>2, <2>3, <2>5 DEF Entries
  <2> QED
    BY <2>2, <2>3, <2>5, <2>6
<1> DEFINE T == {d \in 0..(n - 1) : s[n - d].hash # t[n - d].hash}
<1>4. T = {}
  <2> SUFFICES ASSUME T # {} PROVE FALSE
    OBVIOUS
  <2>1. PICK d \in T : \A e \in T : d <= e
    <3>1. T \in SUBSET Nat
      BY <1>1
    <3> QED
      BY <3>1, LeastNumber
  <2>2. d \in 0..(n - 1) /\ s[n - d].hash # t[n - d].hash
    OBVIOUS
  <2>3. s[n].hash = t[n].hash
    BY <1>2 DEF n
  <2>4. d # 0
    BY <1>1, <2>2, <2>3
  <2>5. d - 1 \in 0..(n - 1) /\ d - 1 \notin T
    <3>1. d - 1 \in 0..(n - 1) /\ ~(d <= d - 1)
      BY <1>1, <2>2, <2>4
    <3> QED
      BY <2>1, <3>1, Zenon
  <2>6. s[n - (d - 1)].hash = t[n - (d - 1)].hash
    BY <2>5
  <2> DEFINE i == n - (d - 1)
  <2>7. i \in 1..n /\ i # 1 /\ i - 1 = n - d
    BY <1>1, <2>2, <2>4
  <2> HIDE DEF i
  <2>8. PrevIn(s, i) = PrevIn(t, i)
    BY <1>3, <2>6, <2>7 DEF i
  <2> QED
    BY <2>2, <2>7, <2>8 DEF PrevIn
<1>5. ASSUME NEW i \in 1..n PROVE s[i] = t[i]
  <2>1. n - i \in 0..(n - 1) /\ n - (n - i) = i
    BY <1>1
  <2>2. s[i].hash = t[i].hash
    BY <1>4, <2>1
  <2> QED
    BY <1>3, <2>2
<1> QED
  BY <1>2, <1>5, SeqEqual DEF n

-----------------------------------------------------------------------------
LastLine  == log[Len(log)]
LastWhole == log # << >> /\ LastLine # Torn

WrittenHash == IF written = << >> THEN Genesis ELSE written[Len(written)].hash

\* The hashes of the whole lines are no longer than h, but the last line's if
\* a newline is still due to it.
NoneLonger(h) ==
  \A i \in 1..Len(log) :
    log[i] # Torn /\ (ragged => i # Len(log)) => Len(log[i].hash) <= Len(h)

LastIsLongest ==
  LastWhole => \A i \in 1..Len(log) :
    log[i] # Torn => Len(log[i].hash) <= Len(LastLine.hash)

LastIsWritten ==
  /\ log = << >> => written = << >>
  /\ LastWhole => written # << >> /\ LastLine.hash = WrittenHash

WholeOrLost == LastWhole => Chained(written) \/ Lost(LastLine.hash)

\* What the writer that is up goes on with.
GoesOn(w) ==
  at[w] # "down" =>
    /\ NoneLonger(prev[w])
    /\ \/ ragged
       \/ Chained(written) /\ prev[w] = WrittenHash
       \/ Lost(prev[w])

CompleteInv ==
  /\ OneUp
  /\ LastIsLongest /\ LastIsWritten /\ WholeOrLost
  /\ \A w \in Writers : GoesOn(w)

-----------------------------------------------------------------------------
\* Lines have hashes of some length.
LEMMA LineType ==
  ASSUME TypeOK, NEW i \in 1..Len(log), log[i] # Torn
  PROVE  log[i] \in Entries /\ log[i].hash \in Hashes /\ Len(log[i].hash) \in Nat
<1>1. log[i] \in Entries
  BY ElementOfSeq DEF TypeOK
<1> QED
  BY <1>1, LenProperties DEF Entries, Hashes

LEMMA CompleteImplies ==
  ASSUME TypeOK, CompleteInv
  PROVE  VerifiedIsComplete
<1> SUFFICES ASSUME Verify PROVE log = written
  BY DEF VerifiedIsComplete
<1> DEFINE L == Entries \union {Torn}
<1>1. log \in Seq(L) /\ written \in Seq(L)
  BY SeqMonotonic DEF TypeOK
<1>2. CASE log = << >>
  BY <1>2 DEF CompleteInv, LastIsWritten
<1>3. CASE log # << >>
  <2>1. Len(log) \in Nat \ {0} /\ Len(log) \in 1..Len(log)
    BY <1>1, <1>3, EmptySeq
  <2>2. Chained(log)
    <3> SUFFICES ASSUME NEW i \in 1..Len(log)
                 PROVE  /\ log[i] \in Entries /\ log[i].prev = PrevIn(log, i)
                        /\ log[i].hash = EntryHash(log[i].seq, log[i].prev, log[i].body)
      BY DEF Chained
    <3>1. LineOk(i)
      BY DEF Verify
    <3> QED
      BY <3>1, LineType DEF LineOk, PrevHash, PrevIn
  <2>3. LastWhole
    BY <1>3, <2>1 DEF LastWhole, LastLine, Verify, LineOk
  <2>4. \A i \in 1..Len(log) : log[i] # Torn /\ Len(log[i].hash) = i
    BY <1>1, <2>2, ChainedLength DEF Verify, LineOk
  <2>5. ~Lost(LastLine.hash)
    <3>1. Len(LastLine.hash) = Len(log)
      BY <2>1, <2>4 DEF LastLine
    <3> QED
      BY <2>4, <3>1 DEF Lost
  <2>6. /\ Chained(written) /\ written # << >>
        /\ LastLine.hash = written[Len(written)].hash
    BY <2>3, <2>5 DEF CompleteInv, WholeOrLost, LastIsWritten, WrittenHash
  <2> QED
    BY <1>1, <1>3, <2>2, <2>6, ChainedEqual DEF LastLine
<1> QED
  BY <1>2, <1>3

\* A hash that goes on from the last record written makes a chain of it.
LEMMA ChainedAppend ==
  ASSUME NEW s \in Seq(Entries), Chained(s), NEW e \in Entries,
         e.prev = (IF s = << >> THEN Genesis ELSE s[Len(s)].hash),
         e.hash = EntryHash(e.seq, e.prev, e.body)
  PROVE  Chained(Append(s, e))
<1> DEFINE t == Append(s, e)
<1>1. /\ Len(s) \in Nat /\ Len(t) = Len(s) + 1
      /\ \A i \in 1..Len(s) : t[i] = s[i]
      /\ t[Len(s) + 1] = e
  BY AppendProperties, LenProperties
<1>2. s = << >> <=> Len(s) = 0
  BY EmptySeq
<1> HIDE DEF t
<1> SUFFICES ASSUME NEW i \in 1..Len(t)
             PROVE  /\ t[i] \in Entries /\ t[i].prev = PrevIn(t, i)
                    /\ t[i].hash = EntryHash(t[i].seq, t[i].prev, t[i].body)
  BY DEF Chained, t
<1>3. CASE i \in 1..Len(s)
  <2>1. PrevIn(t, i) = PrevIn(s, i)
    <3>1. i # 1 => i - 1 \in 1..Len(s)
      BY <1>1, <1>3
    <3> QED
      BY <1>1, <3>1 DEF PrevIn
  <2> QED
    BY <1>1, <1>3, <2>1 DEF Chained
<1>4. CASE i = Len(s) + 1
  <2>1. PrevIn(t, i) = e.prev
    <3>1. CASE Len(s) = 0
      BY <1>2, <1>4, <3>1 DEF PrevIn
    <3>2. CASE Len(s) # 0
      <4>1. i # 1 /\ i - 1 = Len(s) /\ Len(s) \in 1..Len(s)
        BY <1>1, <1>4, <3>2
      <4> QED
        BY <1>1, <1>2, <3>2, <4>1 DEF PrevIn
    <3> QED
      BY <3>1, <3>2
  <2> QED
    BY <1>1, <1>4, <2>1
<1> QED
  BY <1>1, <1>3, <1>4

\* A record that reaches the end of the file on a line of its own.
LEMMA RecordAppended ==
  ASSUME TypeOK, ~ragged, NEW w \in Writers, at[w] # "down", GoesOn(w),
         NEW e \in Entries, e.prev = prev[w],
         e.hash = EntryHash(e.seq, e.prev, e.body),
         log' = Append(log, e), written' = Append(written, e)
  PROVE  /\ log' # << >> /\ LastLine' = e /\ written' # << >> /\ WrittenHash' = e.hash
         /\ \A i \in 1..Len(log') :
              log'[i] # Torn => Len(log'[i].hash) <= Len(e.hash)
         /\ Chained(written)' \/ Lost(e.hash)'
<1> DEFINE L == Entries \union {Torn}
<1>1. /\ log \in Seq(L) /\ e \in L /\ written \in Seq(Entries)
      /\ prev[w] \in Hashes /\ e.seq \in Nat /\ e.body \in Bodies
  BY DEF TypeOK, Entries
<1>2. /\ Len(log) \in Nat /\ Len(log') = Len(log) + 1 /\ log' # << >>
      /\ \A i \in 1..Len(log) : log'[i] = log[i]
      /\ log'[Len(log) + 1] = e
  BY <1>1, AppendProperties, LenProperties
<1>3. /\ Len(written) \in Nat /\ Len(written') = Len(written) + 1
      /\ written' # << >> /\ written'[Len(written) + 1] = e
  BY <1>1, AppendProperties, LenProperties
<1>4. Len(e.hash) = Len(prev[w]) + 1 /\ Len(prev[w]) \in Nat
  <2>1. Len(EntryHash(e.seq, prev[w], e.body)) = Len(prev[w]) + 1
    BY <1>1, HashSays
  <2> QED
    BY <1>1, <2>1, LenProperties DEF Hashes
<1>5. LastLine' = e /\ WrittenHash' = e.hash
  BY <1>2, <1>3 DEF LastLine, WrittenHash
<1>6. ASSUME NEW i \in 1..Len(log'), log'[i] # Torn
      PROVE  Len(log'[i].hash) <= Len(e.hash)
  <2>1. CASE i \in 1..Len(log)
    <3>1. log[i] # Torn /\ Len(log[i].hash) \in Nat
      BY <1>2, <1>6, <2>1, LineType
    <3>2. Len(log[i].hash) <= Len(prev[w])
      BY <2>1, <3>1 DEF GoesOn, NoneLonger
    <3> QED
      BY <1>2, <1>4, <2>1, <3>1, <3>2
  <2>2. CASE i = Len(log) + 1
    BY <1>2, <1>4, <2>2
  <2> QED
    BY <1>2, <2>1, <2>2
<1>7. CASE Chained(written) /\ prev[w] = WrittenHash
  <2>1. Chained(Append(written, e))
    BY <1>1, <1>7, ChainedAppend DEF WrittenHash
  <2> QED
    BY <1>2, <1>3, <1>5, <1>6, <2>1 DEF Chained, PrevIn
<1>8. CASE Lost(prev[w])
  <2>1. PICK k \in 1..Len(prev[w]) :
          \A i \in 1..Len(log) : log[i] # Torn => Len(log[i].hash) # k
    BY <1>8 DEF Lost
  <2>2. k \in 1..Len(e.hash) /\ k # Len(e.hash)
    BY <1>4
  <2>3. ASSUME NEW i \in 1..Len(log'), log'[i] # Torn
        PROVE  Len(log'[i].hash) # k
    BY <1>2, <2>1, <2>2, <2>3
  <2>4. Lost(e.hash)'
    BY <2>2, <2>3 DEF Lost
  <2> QED
    BY <1>2, <1>3, <1>5, <1>6, <2>4
<1> QED
  BY <1>7, <1>8 DEF GoesOn

\* Text that goes to the end of a ragged line spoils it.
LEMMA LineSpoiled ==
  ASSUME TypeOK, ragged, NEW w \in Writers, at[w] # "down", GoesOn(w),
         NEW line, log' = Extended(line)
  PROVE  /\ log' # << >> /\ ~LastWhole'
         /\ \A i \in 1..Len(log') :
              log'[i] # Torn => Len(log'[i].hash) <= Len(prev[w])
<1> DEFINE L == Entries \union {Torn}
<1>1. log \in Seq(L) /\ log # << >> /\ Torn \in L
  BY DEF TypeOK
<1>2. Len(log) \in Nat \ {0} /\ Len(log) \in 1..Len(log)
  BY <1>1, EmptySeq
<1>3. /\ log' \in Seq(L) /\ Len(log') = Len(log)
      /\ \A i \in 1..Len(log) : log'[i] = IF i = Len(log) THEN Torn ELSE log[i]
  BY <1>1, <1>2, ExceptSeq DEF Extended
<1>4. log' # << >>
  BY <1>2, <1>3, EmptySeq
<1>5. ~LastWhole'
  BY <1>2, <1>3 DEF LastWhole, LastLine
<1>6. ASSUME NEW i \in 1..Len(log'), log'[i] # Torn
      PROVE  Len(log'[i].hash) <= Len(prev[w])
  <2>1. i \in 1..Len(log) /\ i # Len(log) /\ log'[i] = log[i]
    BY <1>3, <1>6
  <2> QED
    BY <1>6, <2>1 DEF GoesOn, NoneLonger
<1> QED
  BY <1>4, <1>5, <1>6

-----------------------------------------------------------------------------
\* One writer's step, with everybody else's AuditLog closed.
LEMMA WriterComplete ==
  ASSUME ~Shared, TypeOK, CompleteInv, NEW w \in Writers, WriterStep(w)
  PROVE  CompleteInv'
<1> USE DEF CompleteInv
<1>1. /\ \A v \in Writers : at[v] \in {"down", "up", "counted"}
      /\ at \in [Writers -> {"down", "up", "counted"}]
      /\ prev \in [Writers -> Hashes] /\ prev[w] \in Hashes
      /\ seq[w] \in Nat /\ Len(log) \in Nat
  BY LenProperties DEF TypeOK
<1>2. CASE Open(w)
  <2>1. /\ UNCHANGED <<log, ragged, written>>
        /\ \A v \in Writers : at[v] = "down"
        /\ at' = [at EXCEPT ![w] = "up"] /\ prev' = [prev EXCEPT ![w] = TailHash]
        /\ log # << >> => log[Len(log)] # Torn
    BY <1>2 DEF Open
  <2>2. OneUp'
    BY <1>1, <2>1 DEF OneUp
  <2>3. LastIsLongest' /\ LastIsWritten' /\ WholeOrLost'
    BY <2>1 DEF LastIsLongest, LastIsWritten, WholeOrLost, LastWhole, LastLine,
                WrittenHash, Lost
  <2>4. prev'[w] = TailHash
    BY <1>1, <2>1
  <2>5. NoneLonger(TailHash)
    <3>1. CASE log = << >>
      BY <3>1, EmptySeq DEF NoneLonger
    <3>2. CASE log # << >>
      BY <2>1, <3>2 DEF NoneLonger, LastIsLongest, LastWhole, LastLine, TailHash
    <3> QED
      BY <3>1, <3>2
  <2>6. (Chained(written) /\ TailHash = WrittenHash) \/ Lost(TailHash)
    <3>1. CASE log = << >>
      <4>1. written = << >>
        BY <3>1 DEF LastIsWritten
      <4> QED
        BY <3>1, <4>1, EmptySeq DEF Chained, TailHash, WrittenHash
    <3>2. CASE log # << >>
      BY <2>1, <3>2 DEF LastWhole, LastLine, LastIsWritten, WholeOrLost, TailHash
    <3> QED
      BY <3>1, <3>2
  <2>7. GoesOn(w)'
    BY <2>1, <2>4, <2>5, <2>6 DEF GoesOn, NoneLonger, Lost, WrittenHash
  <2>8. ASSUME NEW v \in Writers PROVE GoesOn(v)'
    BY <1>1, <2>1, <2>7 DEF GoesOn
  <2> QED
    BY <2>2, <2>3, <2>8
<1>3. CASE Count(w) \/ Crash(w)
  <2>1. /\ UNCHANGED <<log, ragged, written, prev>>
        /\ \A v \in Writers : at'[v] # "down" => at[v] # "down"
    BY <1>1, <1>3 DEF Count, Crash
  <2>2. LastIsLongest' /\ LastIsWritten' /\ WholeOrLost'
    BY <2>1 DEF LastIsLongest, LastIsWritten, WholeOrLost, LastWhole, LastLine,
                WrittenHash, Lost
  <2>3. ASSUME NEW v \in Writers PROVE GoesOn(v)'
    BY <2>1 DEF GoesOn, NoneLonger, WrittenHash, Lost
  <2> QED
    BY <2>1, <2>2, <2>3 DEF OneUp
<1>4. ASSUME at[w] = "counted"
      PROVE  /\ GoesOn(w)
             /\ \A v \in Writers : v # w => at[v] = "down"
  BY <1>4 DEF OneUp
<1>5. ASSUME NEW b \in Bodies
      PROVE  \E e \in Entries :
               /\ e = Entry(seq[w], prev[w], b) /\ e.prev = prev[w]
               /\ e.hash = EntryHash(e.seq, e.prev, e.body)
               /\ Len(e.hash) = Len(prev[w]) + 1 /\ Len(prev[w]) \in Nat
  <2>1. Entry(seq[w], prev[w], b) \in Entries
    BY <1>1, EntryType
  <2>2. Len(EntryHash(seq[w], prev[w], b)) = Len(prev[w]) + 1
    BY <1>1, HashSays
  <2>3. Len(prev[w]) \in Nat
    BY <1>1, LenProperties DEF Hashes
  <2> QED
    BY <2>1, <2>2, <2>3 DEF Entry
<1>6. CASE Write(w)
  <2>1. PICK b \in Bodies :
          /\ log' = Extended(Entry(seq[w], prev[w], b))
          /\ prev' = [prev EXCEPT ![w] = Entry(seq[w], prev[w], b).hash]
          /\ written' = Append(written, Entry(seq[w], prev[w], b))
    BY <1>6 DEF Write
  <2>2. PICK e \in Entries :
          /\ e = Entry(seq[w], prev[w], b) /\ e.prev = prev[w]
          /\ e.hash = EntryHash(e.seq, e.prev, e.body)
          /\ Len(e.hash) = Len(prev[w]) + 1 /\ Len(prev[w]) \in Nat
    BY <1>5
  <2>3. /\ log' = Extended(e) /\ prev' = [prev EXCEPT ![w] = e.hash]
        /\ written' = Append(written, e)
    BY <2>1, <2>2
  <2>4. /\ at[w] = "counted" /\ at' = [at EXCEPT ![w] = "up"] /\ ragged' = FALSE
    BY <1>6 DEF Write
  <2>5. /\ GoesOn(w) /\ at[w] # "down"
        /\ \A v \in Writers : v # w => at'[v] = "down"
    BY <1>1, <1>4, <2>4
  <2>6. prev'[w] = e.hash
    BY <1>1, <2>3
  <2>7. OneUp'
    BY <2>5 DEF OneUp
  <2>8. LastIsLongest' /\ LastIsWritten' /\ WholeOrLost' /\ GoesOn(w)'
    <3>1. CASE ~ragged
      <4>1. log' = Append(log, e)
        BY <2>3, <3>1 DEF Extended
      <4>2. /\ log' # << >> /\ LastLine' = e /\ written' # << >>
            /\ WrittenHash' = e.hash
            /\ \A i \in 1..Len(log') :
                 log'[i] # Torn => Len(log'[i].hash) <= Len(e.hash)
            /\ Chained(written)' \/ Lost(e.hash)'
        BY <2>2, <2>3, <2>5, <3>1, <4>1, RecordAppended
      <4>3. LastIsLongest' /\ LastIsWritten'
        BY <4>2 DEF LastIsLongest, LastIsWritten
      <4>4. WholeOrLost'
        BY <4>2 DEF WholeOrLost, Lost
      <4>5. NoneLonger(prev[w])'
        BY <2>6, <4>2 DEF NoneLonger
      <4>6. GoesOn(w)'
        BY <2>6, <4>2, <4>5 DEF GoesOn, Lost
      <4> QED
        BY <4>3, <4>4, <4>6
    <3>2. CASE ragged
      <4>1. /\ log' # << >> /\ ~LastWhole'
            /\ \A i \in 1..Len(log') :
                 log'[i] # Torn => Len(log'[i].hash) <= Len(prev[w])
        BY <2>3, <2>5, <3>2, LineSpoiled
      <4>2. TypeOK'
        BY WriterTypes
      <4>3. ASSUME NEW i \in 1..Len(log'), log'[i] # Torn
            PROVE  Len(log'[i].hash) <= Len(e.hash) /\ Len(log'[i].hash) # Len(e.hash)
        <5>1. log'[i].hash \in Hashes
          BY <4>2, <4>3, ElementOfSeq DEF TypeOK, Entries
        <5>2. Len(log'[i].hash) \in Nat
          BY <5>1, LenProperties DEF Hashes
        <5> QED
          BY <2>2, <4>1, <4>3, <5>2
      <4>4. NoneLonger(prev[w])'
        BY <2>6, <4>3 DEF NoneLonger
      <4>5. Lost(prev[w])'
        <5>1. Len(e.hash) \in 1..Len(e.hash)
          BY <2>2
        <5> QED
          BY <2>6, <4>3, <5>1 DEF Lost
      <4> QED
        BY <4>1, <4>4, <4>5
        DEF LastIsLongest, LastIsWritten, WholeOrLost, GoesOn
    <3> QED
      BY <3>1, <3>2
  <2>9. ASSUME NEW v \in Writers PROVE GoesOn(v)'
    BY <2>5, <2>8 DEF GoesOn
  <2> QED
    BY <2>7, <2>8, <2>9
<1>7. CASE CutShort(w)
  <2>1. /\ at[w] = "counted" /\ ragged' = TRUE /\ prev' = prev
        /\ \E next \in {"up", "down"} : at' = [at EXCEPT ![w] = next]
    BY <1>7 DEF CutShort
  <2>2. /\ GoesOn(w) /\ at[w] # "down"
        /\ \A v \in Writers : v # w => at'[v] = "down"
    BY <1>1, <1>4, <2>1
  <2>3. OneUp'
    BY <2>2 DEF OneUp
  <2>4. LastIsLongest' /\ LastIsWritten' /\ WholeOrLost' /\ NoneLonger(prev[w])'
    <3>1. CASE ragged
      <4>1. PICK line : log' = Extended(line)
        BY <1>7 DEF CutShort
      <4>2. /\ log' # << >> /\ ~LastWhole'
            /\ \A i \in 1..Len(log') :
                 log'[i] # Torn => Len(log'[i].hash) <= Len(prev[w])
        BY <2>2, <3>1, <4>1, LineSpoiled
      <4>3. NoneLonger(prev[w])'
        BY <2>1, <4>2 DEF NoneLonger
      <4> QED
        BY <4>2, <4>3 DEF LastIsLongest, LastIsWritten, WholeOrLost
    <3>2. CASE ~ragged
      <4>1. ASSUME NEW line \in Entries \union {Torn}, log' = Append(log, line)
            PROVE  /\ log' # << >> /\ LastLine' = line
                   /\ NoneLonger(prev[w])'
        <5>1. /\ Len(log') = Len(log) + 1 /\ log' # << >>
              /\ \A i \in 1..Len(log) : log'[i] = log[i]
              /\ log'[Len(log) + 1] = line
          BY <4>1, AppendProperties DEF TypeOK
        <5>2. ASSUME NEW i \in 1..Len(log'), log'[i] # Torn, i # Len(log')
              PROVE  Len(log'[i].hash) <= Len(prev[w])
          BY <1>1, <2>2, <3>2, <5>1, <5>2 DEF GoesOn, NoneLonger
        <5> QED
          BY <2>1, <5>1, <5>2 DEF LastLine, NoneLonger
      <4>2. CASE log' = Extended(Torn)
        <5>1. log' = Append(log, Torn)
          BY <3>2, <4>2 DEF Extended
        <5> QED
          BY <4>1, <5>1
          DEF LastIsLongest, LastIsWritten, WholeOrLost, LastWhole
      <4>3. ASSUME NEW b \in Bodies,
                   log' = Extended(Entry(seq[w], prev[w], b)),
                   written' = Append(written, Entry(seq[w], prev[w], b))
            PROVE  LastIsLongest' /\ LastIsWritten' /\ WholeOrLost'
                   /\ NoneLonger(prev[w])'
        <5>1. PICK e \in Entries :
                /\ e = Entry(seq[w], prev[w], b) /\ e.prev = prev[w]
                /\ e.hash = EntryHash(e.seq, e.prev, e.body)
          BY <1>5
        <5>2. log' = Append(log, e) /\ written' = Append(written, e)
          BY <3>2, <4>3, <5>1 DEF Extended
        <5>3. /\ log' # << >> /\ LastLine' = e /\ written' # << >>
              /\ WrittenHash' = e.hash
              /\ \A i \in 1..Len(log') :
                   log'[i] # Torn => Len(log'[i].hash) <= Len(e.hash)
              /\ Chained(written)' \/ Lost(e.hash)'
          BY <2>2, <3>2, <5>1, <5>2, RecordAppended
        <5>4. LastIsLongest' /\ LastIsWritten'
          BY <5>3 DEF LastIsLongest, LastIsWritten
        <5>5. WholeOrLost'
          BY <5>3 DEF WholeOrLost, Lost
        <5> QED
          BY <4>1, <5>1, <5>2, <5>4, <5>5
      <4> QED
        BY <1>7, <4>2, <4>3 DEF CutShort
    <3> QED
      BY <3>1, <3>2
  <2>5. ASSUME NEW v \in Writers PROVE GoesOn(v)'
    BY <2>1, <2>2, <2>4 DEF GoesOn
  <2> QED
    BY <2>3, <2>4, <2>5
<1> QED
  BY <1>2, <1>3, <1>6, <1>7 DEF WriterStep

\* An outside change makes no hash that was not there, and leaves the last
\* line's.
LEMMA DamageKeeps ==
  ASSUME ~LastGoes, TypeOK, NEW i \in 1..Len(log), Edit(i) \/ Delete(i) \/ Swap(i)
  PROVE  /\ log # << >> /\ log' # << >>
         /\ LastWhole' => LastWhole /\ LastLine'.hash = LastLine.hash
         /\ \A j \in 1..Len(log') : log'[j] # Torn =>
              \E k \in 1..Len(log) : log[k] # Torn /\ log'[j].hash = log[k].hash
<1> DEFINE L == Entries \union {Torn}
           n == Len(log)
           Same == \A j \in 1..Len(log') : log'[j] # Torn =>
                     \E k \in 1..n : log[k] # Torn /\ log'[j].hash = log[k].hash
<1>1. log \in Seq(L) /\ log[i] \in L /\ n \in Nat
  BY ElementOfSeq, LenProperties DEF TypeOK
<1>2. n # 0 /\ n \in 1..n /\ log # << >>
  BY <1>1, EmptySeq
<1>3. CASE Edit(i)
  <2>1. PICK b \in Bodies : log' = [log EXCEPT ![i].body = b]
    BY <1>3 DEF Edit
  <2> DEFINE e == [log[i] EXCEPT !.body = b]
  <2>2. log[i] \in Entries /\ log[i] # Torn
    BY <1>1, <1>3 DEF Edit
  <2>3. e \in Entries /\ e.hash = log[i].hash /\ e # Torn
    BY <2>2, TornIsNoEntry DEF Entries
  <2> HIDE DEF e
  <2>4. log' = [log EXCEPT ![i] = e]
    BY <2>1 DEF e
  <2>5. /\ Len(log') = n
        /\ \A j \in 1..n : log'[j] = IF j = i THEN e ELSE log[j]
    BY <1>1, <2>3, <2>4, ExceptSeq
  <2>6. log' # << >>
    BY <1>2, <2>5, EmptySeq
  <2>7. LastLine' = IF n = i THEN e ELSE LastLine
    BY <1>2, <2>5 DEF LastLine
  <2>8. LastWhole' => LastWhole /\ LastLine'.hash = LastLine.hash
    BY <1>2, <2>2, <2>3, <2>7 DEF LastWhole, LastLine
  <2>9. Same
    BY <2>2, <2>3, <2>5
  <2> QED
    BY <1>2, <2>6, <2>8, <2>9
<1>4. CASE Delete(i)
  <2> DEFINE s == SubSeq(log, 1, i - 1)
             t == SubSeq(log, i + 1, n)
  <2>1. log' = s \o t /\ i < n
    BY <1>4 DEF Delete, RemoveAt
  <2>2. s \in Seq(L) /\ Len(s) = i - 1 /\ \A j \in 1..(i - 1) : s[j] = log[j]
    <3>1. \A j \in 1..(i - 1) : log[j] \in L
      BY <1>1, ElementOfSeq
    <3>2. /\ SubSeq(log, 1, i - 1) \in Seq(L)
          /\ Len(SubSeq(log, 1, i - 1)) = IF 1 <= i - 1 THEN (i - 1) - 1 + 1 ELSE 0
          /\ \A j \in 1..((i - 1) - 1 + 1) :
               SubSeq(log, 1, i - 1)[j] = log[1 + j - 1]
      BY <1>1, <3>1, SubSeqProperties
    <3> QED
      BY <1>1, <3>2
  <2>3. t \in Seq(L) /\ Len(t) = n - i /\ \A j \in 1..(n - i) : t[j] = log[j + i]
    <3>1. \A j \in (i + 1)..n : log[j] \in L
      BY <1>1, ElementOfSeq
    <3>2. /\ SubSeq(log, i + 1, n) \in Seq(L)
          /\ Len(SubSeq(log, i + 1, n)) = IF i + 1 <= n THEN n - (i + 1) + 1 ELSE 0
          /\ \A j \in 1..(n - (i + 1) + 1) :
               SubSeq(log, i + 1, n)[j] = log[(i + 1) + j - 1]
      BY <1>1, <3>1, SubSeqProperties
    <3> QED
      BY <1>1, <2>1, <3>2
  <2> HIDE DEF s, t
  <2>4. /\ Len(log') = n - 1
        /\ \A j \in 1..(n - 1) : log'[j] = IF j <= i - 1 THEN s[j] ELSE t[j - (i - 1)]
    <3>1. /\ Len(s \o t) = Len(s) + Len(t)
          /\ \A j \in 1..(Len(s) + Len(t)) :
               (s \o t)[j] = IF j <= Len(s) THEN s[j] ELSE t[j - Len(s)]
      BY <2>2, <2>3, ConcatProperties
    <3> QED
      BY <1>1, <2>1, <2>2, <2>3, <3>1
  <2>5. ASSUME NEW j \in 1..(n - 1)
        PROVE  log'[j] = IF j <= i - 1 THEN log[j] ELSE log[j + 1]
    <3>1. CASE j <= i - 1
      BY <1>1, <2>2, <2>4, <3>1
    <3>2. CASE ~(j <= i - 1)
      <4>1. j - (i - 1) \in 1..(n - i) /\ (j - (i - 1)) + i = j + 1
        BY <1>1, <2>1, <3>2
      <4> QED
        BY <2>3, <2>4, <3>2, <4>1
    <3> QED
      BY <3>1, <3>2
  <2>6. n - 1 \in 1..(n - 1) /\ ~(n - 1 <= i - 1) /\ (n - 1) + 1 = n
    BY <1>1, <2>1
  <2>7. LastLine' = LastLine
    BY <2>4, <2>5, <2>6 DEF LastLine
  <2>8. log' # << >>
    BY <2>4, <2>6, EmptySeq
  <2>9. Same
    <3> SUFFICES ASSUME NEW j \in 1..(n - 1), log'[j] # Torn
                 PROVE  \E k \in 1..n : log[k] # Torn /\ log'[j].hash = log[k].hash
      BY <2>4
    <3>1. j \in 1..n /\ j + 1 \in 1..n
      BY <1>1
    <3> QED
      BY <2>5, <3>1
  <2> QED
    BY <1>2, <2>7, <2>8, <2>9 DEF LastWhole
<1>5. CASE Swap(i)
  <2>1. i + 1 \in 1..n /\ i + 1 < n
    BY <1>1, <1>5 DEF Swap
  <2>2. log[i + 1] \in L
    BY <1>1, <2>1, ElementOfSeq
  <2> DEFINE half == [log EXCEPT ![i] = log[i + 1]]
  <2>3. /\ half \in Seq(L) /\ Len(half) = n
        /\ \A j \in 1..n : half[j] = IF j = i THEN log[i + 1] ELSE log[j]
    BY <1>1, <2>2, ExceptSeq
  <2>4. log' = [half EXCEPT ![i + 1] = log[i]]
    BY <1>5 DEF Swap
  <2> HIDE DEF half
  <2>5. /\ Len(log') = n
        /\ \A j \in 1..n : log'[j] = IF j = i + 1 THEN log[i] ELSE half[j]
    BY <1>1, <2>1, <2>3, <2>4, ExceptSeq
  <2>6. LastLine' = LastLine
    BY <1>1, <1>2, <2>1, <2>3, <2>5 DEF LastLine
  <2>7. log' # << >>
    BY <1>2, <2>5, EmptySeq
  <2>8. Same
    BY <2>1, <2>3, <2>5
  <2> QED
    BY <1>2, <2>6, <2>7, <2>8 DEF LastWhole
<1> QED
  BY <1>3, <1>4, <1>5

LEMMA OutsideComplete ==
  ASSUME ~LastGoes, TypeOK, CompleteInv, OutsideChange
  PROVE  CompleteInv'
<1>1. PICK i \in 1..Len(log) : Edit(i) \/ Delete(i) \/ Swap(i)
  BY DEF OutsideChange
<1>2. ~ragged /\ UNCHANGED <<ragged, at, prev, written>>
  BY DEF OutsideChange
<1>3. /\ log # << >> /\ log' # << >>
      /\ LastWhole' => LastWhole /\ LastLine'.hash = LastLine.hash
      /\ \A j \in 1..Len(log') : log'[j] # Torn =>
           \E k \in 1..Len(log) : log[k] # Torn /\ log'[j].hash = log[k].hash
  BY <1>1, DamageKeeps
<1>4. ASSUME NEW h, Lost(h)
      PROVE  \E k \in 1..Len(h) :
               \A j \in 1..Len(log') : log'[j] # Torn => Len(log'[j].hash) # k
  BY <1>3, <1>4 DEF Lost
<1>5. OneUp'
  BY <1>2 DEF CompleteInv, OneUp
<1>6. LastIsLongest'
  BY <1>3 DEF CompleteInv, LastIsLongest
<1>7. LastIsWritten'
  BY <1>2, <1>3 DEF CompleteInv, LastIsWritten, WrittenHash
<1>8. WholeOrLost'
  <2> SUFFICES ASSUME LastWhole' PROVE Chained(written)' \/ Lost(LastLine.hash)'
    BY DEF WholeOrLost
  <2>1. Chained(written) \/ Lost(LastLine.hash)
    BY <1>3 DEF CompleteInv, WholeOrLost
  <2> QED
    BY <1>2, <1>3, <1>4, <2>1 DEF Lost, Chained, PrevIn
<1>9. ASSUME NEW v \in Writers PROVE GoesOn(v)'
  <2> SUFFICES ASSUME at[v] # "down"
               PROVE  /\ NoneLonger(prev[v])'
                      /\ \/ Chained(written)' /\ prev'[v] = WrittenHash'
                         \/ Lost(prev[v])'
    BY <1>2 DEF GoesOn
  <2>1. /\ NoneLonger(prev[v])
        /\ (Chained(written) /\ prev[v] = WrittenHash) \/ Lost(prev[v])
    BY <1>2 DEF CompleteInv, GoesOn
  <2>2. NoneLonger(prev[v])'
    BY <1>2, <1>3, <2>1 DEF NoneLonger
  <2> QED
    BY <1>2, <1>4, <2>1, <2>2 DEF Lost, Chained, PrevIn, WrittenHash
<1> QED
  BY <1>5, <1>6, <1>7, <1>8, <1>9 DEF CompleteInv

LEMMA NextComplete ==
  ASSUME ~Shared, ~LastGoes, TypeOK, CompleteInv, [Next]_vars
  PROVE  CompleteInv'
<1>1. CASE UNCHANGED vars
  BY <1>1 DEF vars, CompleteInv, OneUp, LastIsLongest, LastIsWritten,
              WholeOrLost, GoesOn, NoneLonger, LastWhole, LastLine, WrittenHash,
              Lost, Chained, PrevIn
<1> QED
  BY <1>1, WriterComplete, OutsideComplete DEF Next

\* A log that verifies holds every record its writers put there, unchanged
\* and in order, after any number of edited, removed and swapped lines,
\* restarts, crashes and cut writes, as long as the last line stays last
\* (audit.py: "deleting or editing any historical line breaks verification").
THEOREM NothingIsMissing == ~Shared /\ ~LastGoes => (Spec => []VerifiedIsComplete)
<1> SUFFICES ASSUME ~Shared, ~LastGoes PROVE Spec => []VerifiedIsComplete
  OBVIOUS
<1>1. Init => CompleteInv
  BY EmptySeq
  DEF Init, CompleteInv, OneUp, LastIsLongest, LastIsWritten, WholeOrLost,
      GoesOn, LastWhole
<1>2. TypeOK /\ CompleteInv /\ [Next]_vars => CompleteInv'
  BY NextComplete
<1>3. TypeOK /\ CompleteInv => VerifiedIsComplete
  BY CompleteImplies
<1> QED
  BY <1>1, <1>2, <1>3, TypeCorrect, PTL DEF Spec
=============================================================================

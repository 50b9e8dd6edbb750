------------------------------ MODULE AuditLog ------------------------------
(***************************************************************************)
(* The hash-chained audit log of gatekeeper/audit.py: a file of lines,     *)
(* each naming the hash of the line before it, and the processes that      *)
(* append to it.  An AuditLog object reads the file's last hash once, when *)
(* it is made, and from then on chains to what it wrote itself.  The       *)
(* sequence number is counted from the file at every append.               *)
(*                                                                         *)
(* SHA-256 is taken to be collision-free: the hash of a line is the tuple  *)
(* it is computed over.  The body stands for the other fields of a record. *)
(***************************************************************************)
EXTENDS Naturals, Sequences, SequencesExt

CONSTANTS
  Writers,    \* processes that make an AuditLog on the file
  Shared,     \* may two of them have it open at once?
  LastGoes,   \* may an outside change move or remove the last line?
  Torn,       \* a line that is not JSON: cut short, or two in one
  Bodies,     \* contents of records
  MaxLines,   \* bound: records appended
  MaxDamage   \* bound: outside changes to the file

ASSUME AuditAssumption ==
  /\ Shared \in BOOLEAN /\ LastGoes \in BOOLEAN
  /\ MaxLines \in Nat /\ MaxDamage \in Nat

\* A hash is the numbers and bodies of all the lines up to its own.
Hashes  == Seq(Nat \X Bodies)
Entries == [seq : Nat, prev : Hashes, body : Bodies, hash : Hashes]

ASSUME TornIsNoEntry == Torn \notin Entries

VARIABLES
  log,      \* the lines of the file
  ragged,   \* the last line has no newline yet
  at,       \* where each writer is: down, up, counted
  prev,     \* AuditLog._prev of each writer
  seq,      \* the sequence number a writer has counted
  written,  \* history: the records whose text reached the file, in order
  damaged,  \* history: outside changes so far
  torn      \* history: a write was cut short

vars == <<log, ragged, at, prev, seq, written, damaged, torn>>

Genesis == << >>
EntryHash(s, p, b) == Append(p, <<s, b>>)
Entry(s, p, b) ==
  [seq |-> s, prev |-> p, body |-> b, hash |-> EntryHash(s, p, b)]

Init ==
  /\ log = << >> /\ ragged = FALSE
  /\ at = [w \in Writers |-> "down"]
  /\ prev = [w \in Writers |-> Genesis]
  /\ seq = [w \in Writers |-> 0]
  /\ written = << >> /\ damaged = 0 /\ torn = FALSE

-----------------------------------------------------------------------------
TailHash == IF log = << >> THEN Genesis ELSE log[Len(log)].hash

\* AuditLog(path): a last line that is not JSON raises, and nothing starts.
Open(w) ==
  /\ at[w] = "down"
  /\ Shared \/ \A v \in Writers : at[v] = "down"
  /\ log # << >> => log[Len(log)] # Torn
  /\ at' = [at EXCEPT ![w] = "up"]
  /\ prev' = [prev EXCEPT ![w] = TailHash]
  /\ UNCHANGED <<log, ragged, seq, written, damaged, torn>>

\* append, first half: the lines of the file are counted.
Count(w) ==
  /\ at[w] = "up" /\ Len(written) < MaxLines
  /\ at' = [at EXCEPT ![w] = "counted"]
  /\ seq' = [seq EXCEPT ![w] = Len(log) + 1]
  /\ UNCHANGED <<log, ragged, prev, written, damaged, torn>>

\* What the file holds once a text went to its end: a ragged last line is
\* continued, which leaves one line that is not JSON.
Extended(line) ==
  IF ragged THEN [log EXCEPT ![Len(log)] = Torn] ELSE Append(log, line)

\* Mutant: _prev is left as the constructor read it.
WriteKeepingPrev(w) ==
  /\ at[w] = "counted"
  /\ \E b \in Bodies :
       LET e == Entry(seq[w], prev[w], b) IN
       /\ log' = Extended(e)
       /\ written' = Append(written, e)
  /\ ragged' = FALSE
  /\ at' = [at EXCEPT ![w] = "up"]
  /\ UNCHANGED <<prev, seq, damaged, torn>>

\* append, second half: one write at the end of the file, then _prev.
Write(w) ==
  /\ at[w] = "counted"
  /\ \E b \in Bodies :
       LET e == Entry(seq[w], prev[w], b) IN
       /\ log' = Extended(e)
       /\ prev' = [prev EXCEPT ![w] = e.hash]
       /\ written' = Append(written, e)
  /\ ragged' = FALSE
  /\ at' = [at EXCEPT ![w] = "up"]
  /\ UNCHANGED <<seq, damaged, torn>>

\* The write fails part of the way, at the earliest in the text and at the
\* latest before the newline.  The error reaches the caller, which lives on
\* with the _prev it had, or the process dies with it.
CutShort(w) ==
  /\ at[w] = "counted"
  /\ \/ log' = Extended(Torn) /\ UNCHANGED written
     \/ \E b \in Bodies :
          LET e == Entry(seq[w], prev[w], b) IN
          log' = Extended(e) /\ written' = Append(written, e)
  /\ ragged' = TRUE /\ torn' = TRUE
  /\ \E next \in {"up", "down"} : at' = [at EXCEPT ![w] = next]
  /\ UNCHANGED <<prev, seq, damaged>>

Crash(w) ==
  /\ at[w] # "down"
  /\ at' = [at EXCEPT ![w] = "down"]
  /\ UNCHANGED <<log, ragged, prev, seq, written, damaged, torn>>

-----------------------------------------------------------------------------
\* Outside changes to complete lines: what verify() is there to find.
Edit(i) ==
  /\ log[i] # Torn
  /\ \E b \in Bodies : log' = [log EXCEPT ![i].body = b]

Delete(i) ==
  /\ LastGoes \/ i < Len(log)
  /\ log' = RemoveAt(log, i)

Swap(i) ==
  /\ i < Len(log) /\ (LastGoes \/ i + 1 < Len(log))
  /\ log' = [log EXCEPT ![i] = log[i + 1], ![i + 1] = log[i]]

OutsideChange ==
  /\ ~ragged /\ damaged < MaxDamage
  /\ \E i \in 1..Len(log) : Edit(i) \/ Delete(i) \/ Swap(i)
  /\ damaged' = damaged + 1
  /\ UNCHANGED <<ragged, at, prev, seq, written, torn>>

WriterStep(w) == Open(w) \/ Count(w) \/ Write(w) \/ CutShort(w) \/ Crash(w)

Next == (\E w \in Writers : WriterStep(w)) \/ OutsideChange

Spec == Init /\ [][Next]_vars
-----------------------------------------------------------------------------
\* verify(): every line is JSON, names the hash of the one before, has the
\* hash of its own content, and its own place as its number.
PrevHash(i) == IF i = 1 THEN Genesis ELSE log[i - 1].hash

\* Mutant: the content hash is not computed again.
LineOkUnhashed(i) ==
  /\ log[i] # Torn
  /\ log[i].prev = PrevHash(i)
  /\ log[i].seq = i

LineOk(i) ==
  /\ log[i] # Torn
  /\ log[i].prev = PrevHash(i)
  /\ log[i].hash = EntryHash(log[i].seq, log[i].prev, log[i].body)
  /\ log[i].seq = i

Verify == \A i \in 1..Len(log) : LineOk(i)

TypeOK ==
  /\ log \in Seq(Entries \union {Torn})
  /\ written \in Seq(Entries)
  /\ ragged \in BOOLEAN /\ torn \in BOOLEAN
  /\ ragged => log # << >>
  /\ at \in [Writers -> {"down", "up", "counted"}]
  /\ seq \in [Writers -> Nat]
  /\ prev \in [Writers -> Hashes]
  /\ damaged \in Nat

\* A log only its own writers touched, with no write cut short, verifies,
\* across any restarts (audit.verify; docs/roadmap.md:365 "Ensure restarts
\* preserve ... audit safety").
ChainHolds == damaged = 0 /\ ~torn => Verify

\* A log that verifies holds every record append() put there, unchanged and
\* in order, whatever was done to the file or to a write (audit.py:
\* "deleting or editing any historical line breaks verification").
VerifiedIsComplete == Verify => log = written
=============================================================================

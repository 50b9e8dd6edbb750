------------------------------ MODULE MCServices ------------------------------
(* The situations the programs start in, in families that each vary what one *)
(* part of the code looks at.                                                *)
EXTENDS Services

p1 == "p1"
p2 == "p2"
MCRealPath == [ttyUSB0 |-> "d1", byid |-> "d1", ttyACM0 |-> "d2"]
Item(label, box, valid) == [label |-> label, box |-> box, valid |-> valid]
MCTree == << <<Item("root", 0, TRUE), Item("ok", 1, TRUE), Item("no", 2, TRUE)>>,
             <<Item("ok", 1, TRUE), Item("ok", 1, TRUE)>> >>
MCBoxes == << <<Item("ok", 1, TRUE), Item("no", 2, TRUE)>>, <<Item("no", 2, FALSE), Item("no", 2, TRUE)>> >>

Good(tok) == [tok |-> tok, whole |-> TRUE, private |-> TRUE, mine |-> TRUE]
Bad(tok) == {[Good(tok) EXCEPT !.whole = FALSE], [Good(tok) EXCEPT !.private = FALSE], [Good(tok) EXCEPT !.mine = FALSE]}
Nothing == [n \in Names |-> Absent]

Mode(owner, others) == [owner |-> owner, others |-> others]
Private == Mode("self", {})
Readable == Mode("self", {"read"})
Shared == Mode("self", {"read", "change"})

Entry(type, sid, mask, inherited) ==
  [type |-> type, sid |-> sid, mask |-> mask, inherited |-> inherited, inheritOnly |-> FALSE]
Profile == [owner |-> "admins", protected |-> FALSE, present |-> TRUE,
            aces |-> <<Entry("allow", "system", Rights, TRUE), Entry("allow", "admins", Rights, TRUE),
                       Entry("allow", "user", Rights, TRUE), Entry("allow", "everyone", {"read"}, TRUE)>>]
Public == [Profile EXCEPT !.aces = @ \o <<Entry("allow", "everyone", {"change"}, TRUE)>>]
Callback == [Profile EXCEPT !.aces = @ \o <<Entry("other", "everyone", {"change"}, FALSE)>>]

(* Posix and Windows: both directories there, both with what they should     *)
(* hold, nobody else let in, two idle processes.                             *)
Posix ==
  [windows |-> FALSE, umask |-> {"read"}, faults |-> FALSE, keyConfigured |-> TRUE, stopAbsolute |-> TRUE, apart |-> FALSE,
   above |-> [p \in Paths |-> Readable], foreign |-> Mode("other", {"read"}),
   dir |-> [priv |-> 1, keys |-> 2, gate |-> 0], dirs |-> 2, sec |-> [d \in DirIds |-> Private],
   files |-> [d \in DirIds |-> IF d = 1 THEN [Nothing EXCEPT !["secret"] = Good(1), !["state"] = Good(3)]
                               ELSE IF d = 2 THEN [Nothing EXCEPT !["key"] = Good(2)] ELSE Nothing],
   drawn |-> 3, prog |-> [p \in Procs |-> "idle"], starts |-> 2, calls |-> 0, port |-> "none", baud |-> 0,
   plugged |-> [d \in Devices |-> "none"]]
Win == [Posix EXCEPT !.windows = TRUE, !.above = [p \in Paths |-> Profile],
                     !.foreign = [Public EXCEPT !.owner = "other"], !.sec = [d \in DirIds |-> OwnerOnlySddl]]

Run(w, a, b) == [w EXCEPT !.prog = [p \in Procs |-> IF p = p1 THEN a ELSE b]]
Without(w, d, n) == [w EXCEPT !.files[d][n] = Absent]
NoDir(w, path) == [w EXCEPT !.dir[path] = 0, !.files[w.dir[path]] = Nothing]
Faulty(w) == [w EXCEPT !.faults = TRUE]

\* The executor and the gatekeeper make or load the secret.
SecretWorlds ==
  LET both(w) == [Run(w, "executor", "gatekeeper") EXCEPT !.starts = 3]
      ready == {Posix, Win}
      missing == {Without(w, 1, "secret") : w \in ready} \cup {NoDir(w, "priv") : w \in ready}
  IN  {both(w) : w \in missing \cup ready}
      \cup {both([w EXCEPT !.umask = m]) : w \in {x \in missing : ~x.windows}, m \in {{}, ModeRights}}
      \cup {[both(Faulty(w)) EXCEPT !.starts = 2] : w \in missing}
      \cup {both([w EXCEPT !.files[1]["secret"] = f]) : w \in ready, f \in Bad(1)}
      \cup {both([Without(Posix, 1, "secret") EXCEPT !.sec[1] = s]) : s \in {Readable, Shared}}
      \cup {[both(Faulty([Without(Posix, 1, "secret") EXCEPT !.sec[1] = Shared])) EXCEPT !.starts = 1],
            [both([NoDir(Posix, "priv") EXCEPT !.above.priv = Shared]) EXCEPT !.starts = 1]}
      \cup {both([Without(Win, 1, "secret") EXCEPT !.sec[1] = s]) : s \in {Profile, Public}}
      \cup {both([NoDir(Win, "priv") EXCEPT !.above.priv = s]) : s \in {Public, Callback}}

\* The key is provisioned while it is loaded, or twice.
KeyWorlds ==
  LET bare == {Without(w, 2, "key") : w \in {Posix, Win}}
  IN  {Run(w, "keygen", b) : w \in bare \cup {Faulty(x) : x \in bare}, b \in {"observer", "keygen"}}
      \cup {[Run(Faulty(w), "keygen", "gatekeeper") EXCEPT !.starts = 3] : w \in bare}
      \cup {Run(w, "keygen", "observer") : w \in {Posix, Win, NoDir(Posix, "keys"), NoDir(Win, "keys")}}
      \cup {Run([Without(Posix, 2, "key") EXCEPT !.above.keys = Shared, !.sec[2] = s], "keygen", "observer")
              : s \in {Private, Readable}}
      \cup {Run([Without(Win, 2, "key") EXCEPT !.above.keys = Public, !.sec[2] = s], "keygen", "observer")
              : s \in {OwnerOnlySddl, Profile}}
      \cup {Run([w EXCEPT !.files[2]["key"] = f], "observer", "gatekeeper") : w \in {Posix, Win}, f \in Bad(2)}

\* The gatekeeper starts, records a watermark and starts again.
StateWorlds ==
  LET alone(w) == [Run(Without(w, 1, "state"), "gatekeeper", "idle") EXCEPT !.faults = TRUE]
  IN  {alone(w) : w \in {Posix, Win}}
      \cup {alone([Posix EXCEPT !.sec[1] = s]) : s \in {Readable, Shared}}
      \cup {alone([NoDir(Posix, "priv") EXCEPT !.umask = m]) : m \in {{"read"}, ModeRights}}
      \cup {alone(NoDir(Win, "priv"))}
      \cup {alone([Posix EXCEPT !.above.priv = Shared])}
      \cup {alone([w EXCEPT !.above.priv = s]) : w \in {Win, NoDir(Win, "priv")}, s \in {Public, Callback}}
      \cup {Run([w EXCEPT !.files[1]["state"] = f], "gatekeeper", "idle") : w \in {Posix, Win}, f \in Bad(3) \cup {Good(3)}}
      \cup {Run([Posix EXCEPT !.keyConfigured = FALSE], "gatekeeper", "observer"),
            Run([Win EXCEPT !.stopAbsolute = FALSE], "gatekeeper", "idle")}
      \cup {alone([w EXCEPT !.apart = TRUE]) : w \in {Posix, Win}}
      \cup {alone([Posix EXCEPT !.apart = TRUE, !.above.gate = Shared]),
            alone([Win EXCEPT !.apart = TRUE, !.above.gate = Public])}
      \cup {alone([w EXCEPT !.apart = TRUE, !.dir.gate = 3, !.dirs = 3]) : w \in {Posix, Win}}
      \cup {alone([Posix EXCEPT !.apart = TRUE, !.above.gate = Shared, !.dir.gate = 3, !.dirs = 3]),
            alone([Win EXCEPT !.apart = TRUE, !.above.gate = Public, !.dir.gate = 3, !.dirs = 3])}
      \cup {alone([Posix EXCEPT !.above.priv = Shared, !.dirs = 3]),   \* a third directory of the owner's
            alone([Win EXCEPT !.above.priv = Public, !.dirs = 3])}

\* The executor opens its port while devices are plugged in and out.
PortWorlds ==
  {[Run(Posix, "executor", "idle") EXCEPT !.port = port, !.baud = baud, !.starts = 1, !.plugged = ("d1" :> a @@ "d2" :> "other")]
     : port \in DOMAIN MCRealPath \cup {"auto"}, baud \in {0, 19200}, a \in {"ch9329", "ch32v208"}}

\* The observer serves.
ObserverWorlds == {[Run(Faulty(Posix), "observer", "idle") EXCEPT !.starts = 1, !.calls = 2]}

MCWorlds == SecretWorlds \cup KeyWorlds \cup StateWorlds \cup PortWorlds \cup ObserverWorlds
=============================================================================

---------------------------- MODULE ExecutorHop -----------------------------
(***************************************************************************)
(* gatekeeper/remote_executor.py, common/ipc.py and services/executor.py:  *)
(* an action goes from the gatekeeper to the executor service over a       *)
(* connection of its own.  The gatekeeper waits for one answer at a time   *)
(* and gives up after a while; the service takes the connections one by    *)
(* one, in the order they were made, and knows nothing of who still waits. *)
(* Either process may die.                                                 *)
(*                                                                         *)
(* A request is its number, which stands for its connection and its nonce. *)
(* Time is counted in ticks, and ages are kept up to the limits only.  One *)
(* execution takes any time.                                               *)
(***************************************************************************)
EXTENDS Naturals, Sequences, FiniteSets

CONSTANTS
  Timeout,      \* ticks before RemoteExecutor gives up: timeout_s
  MaxAge,       \* ticks before a request is stale: max_age_s
  Backlog,      \* connections that may wait to be accepted: listen(16)
  MaxNonces,    \* nonces remembered: 10_000
  MaxRequests,  \* bound: requests
  MaxDeaths     \* bound: deaths of the two processes together

ASSUME HopAssumption ==
  /\ {Timeout, MaxAge, MaxRequests, MaxDeaths} \subseteq Nat
  /\ {Backlog, MaxNonces} \subseteq Nat \ {0}

VARIABLES
  n,        \* requests the gatekeeper made
  at,       \* where RemoteExecutor.execute is
  waited,   \* ticks the present socket operation has taken
  age,      \* ticks since issued_at, of each request
  sent,     \* requests whose message was sent
  queue,    \* connections not yet accepted
  svc,      \* where serve_forever and handle are
  serving,  \* the request of the accepted connection, 0 for none
  seen,     \* _seen_nonces
  ok,       \* the response to be sent
  answer,   \* what the service sent back on each connection
  input,    \* what has become of each action at the keyboard
  result,   \* what execute returned or raised
  deaths

clientVars == <<n, at, waited, sent, result>>
svcVars    == <<svc, serving, seen, ok, answer, input>>
vars == <<clientVars, svcVars, age, queue, deaths>>

Requests == 1..MaxRequests

Init ==
  /\ n = 0 /\ at = "idle" /\ waited = 0
  /\ age = [i \in Requests |-> 0] /\ sent = {} /\ queue = << >>
  /\ svc = "accept" /\ serving = 0 /\ seen = {} /\ ok = FALSE
  /\ answer = [i \in Requests |-> "none"]
  /\ input = [i \in Requests |-> "no"]
  /\ result = [i \in Requests |-> "none"]
  /\ deaths = 0

\* The connection of request i is established and the service holds it.
Held(i) == i = serving \/ \E k \in 1..Len(queue) : queue[k] = i

\* The gatekeeper has closed its end of it.
Closed(i) == i # n \/ at = "idle"

-----------------------------------------------------------------------------
(* RemoteExecutor.execute and ipc.request.                                 *)

Execute ==
  /\ at = "idle" /\ n < MaxRequests
  /\ n' = n + 1 /\ at' = "connect" /\ waited' = 0
  /\ UNCHANGED <<svcVars, age, sent, queue, result, deaths>>

\* Mutant: any number of connections may wait.
ConnectUnlimited ==
  /\ at = "connect" /\ svc # "down"
  /\ at' = "send" /\ queue' = Append(queue, n)
  /\ UNCHANGED <<svcVars, age, n, waited, sent, result, deaths>>

Connect ==
  /\ at = "connect" /\ svc # "down" /\ Len(queue) < Backlog
  /\ at' = "send" /\ queue' = Append(queue, n)
  /\ UNCHANGED <<svcVars, age, n, waited, sent, result, deaths>>

Send ==
  /\ at = "send" /\ Held(n)
  /\ at' = "recv" /\ waited' = 0 /\ sent' = sent \union {n}
  /\ UNCHANGED <<svcVars, age, n, queue, result, deaths>>

Return(r) ==
  /\ at' = "idle" /\ waited' = 0 /\ result' = [result EXCEPT ![n] = r]
  /\ UNCHANGED <<svcVars, age, n, sent, queue, deaths>>

\* Mutant: any answer that is there is taken for this one's.
AnsweredAny ==
  /\ at = "recv" /\ \E i \in Requests : answer[i] = "ok"
  /\ Return("ok")

Answered == at = "recv" /\ answer[n] = "ok" /\ Return("ok")

\* The service says no.
Rejected == at = "recv" /\ answer[n] = "error" /\ Return("failed")

\* Nobody listens, or the service died with the connection.
Broken ==
  /\ \/ at = "connect" /\ svc = "down"
     \/ at \in {"send", "recv"} /\ ~Held(n) /\ answer[n] = "none"
  /\ Return("failed")

\* Mutant: receiving has no timeout.
GiveUpConnecting ==
  at = "connect" /\ waited >= Timeout /\ Return("failed")

GiveUp ==
  at \in {"connect", "recv"} /\ waited >= Timeout /\ Return("failed")

-----------------------------------------------------------------------------
(* IPCServer.serve_forever and ExecutorService.handle.                     *)

Accept ==
  /\ svc = "accept" /\ queue # << >>
  /\ svc' = "recv" /\ serving' = Head(queue) /\ queue' = Tail(queue)
  /\ UNCHANGED <<clientVars, age, seen, ok, answer, input, deaths>>

\* recv_json raises: the peer closed before its message arrived.
RecvFails ==
  /\ svc = "recv" /\ serving \notin sent /\ Closed(serving)
  /\ svc' = "reply" /\ ok' = FALSE
  /\ UNCHANGED <<clientVars, age, queue, serving, seen, answer, input, deaths>>

Remember(nonce) ==
  IF Cardinality(seen \union {nonce}) > MaxNonces THEN {nonce}
  ELSE seen \union {nonce}

\* Mutant: the age of a request is not looked at.
HandleAnyAge ==
  /\ svc = "recv" /\ serving \in sent /\ serving \notin seen
  /\ svc' = "run" /\ seen' = Remember(serving)
  /\ input' = [input EXCEPT ![serving] = "begun"]
  /\ UNCHANGED <<clientVars, age, queue, serving, ok, answer, deaths>>

Handle ==
  /\ svc = "recv" /\ serving \in sent
  /\ serving \notin seen /\ age[serving] <= MaxAge
  /\ svc' = "run" /\ seen' = Remember(serving)
  /\ input' = [input EXCEPT ![serving] = "begun"]
  /\ UNCHANGED <<clientVars, age, queue, serving, ok, answer, deaths>>

\* A replayed nonce, or a stale request.
Refuse ==
  /\ svc = "recv" /\ serving \in sent
  /\ serving \in seen \/ age[serving] > MaxAge
  /\ svc' = "reply" /\ ok' = FALSE
  /\ UNCHANGED <<clientVars, age, queue, serving, seen, answer, input, deaths>>

\* The executor returns, or raises before, in or after its last event.
ExecuteEnds ==
  /\ svc = "run"
  /\ svc' = "reply" /\ ok' \in BOOLEAN
  /\ input' = [input EXCEPT ![serving] = IF ok' THEN "done" ELSE "broken"]
  /\ UNCHANGED <<clientVars, age, queue, serving, seen, answer, deaths>>

\* Of no use to a peer that has closed its end.
Reply ==
  /\ svc = "reply"
  /\ svc' = "accept" /\ serving' = 0
  /\ answer' = IF Closed(serving) THEN answer
               ELSE [answer EXCEPT ![serving] = IF ok THEN "ok" ELSE "error"]
  /\ ok' = FALSE
  /\ UNCHANGED <<clientVars, age, queue, seen, input, deaths>>

-----------------------------------------------------------------------------
(* Time and the two processes.                                             *)

Waiting == at \in {"connect", "recv"} /\ waited < Timeout

Aging(i) == age[i] <= MaxAge /\ (Held(i) \/ (i = n /\ at # "idle"))

Tick ==
  /\ Waiting \/ \E i \in Requests : Aging(i)
  /\ waited' = IF Waiting THEN waited + 1 ELSE waited
  /\ age' = [i \in Requests |-> IF Aging(i) THEN age[i] + 1 ELSE age[i]]
  /\ UNCHANGED <<n, at, sent, result, svcVars, queue, deaths>>

\* The gatekeeper dies in a call, and one is started anew.
GatekeeperDies ==
  /\ at # "idle" /\ deaths < MaxDeaths
  /\ at' = "idle" /\ waited' = 0 /\ deaths' = deaths + 1
  /\ UNCHANGED <<svcVars, age, n, sent, queue, result>>

\* With its connections, its nonces and what was under way.
ServiceDies ==
  /\ svc # "down" /\ deaths < MaxDeaths
  /\ svc' = "down" /\ serving' = 0 /\ seen' = {} /\ ok' = FALSE
  /\ queue' = << >> /\ deaths' = deaths + 1
  /\ input' = [i \in Requests |->
                 IF input[i] = "begun" THEN "broken" ELSE input[i]]
  /\ UNCHANGED <<clientVars, age, answer>>

ServiceStarts ==
  /\ svc = "down" /\ svc' = "accept"
  /\ UNCHANGED <<clientVars, age, queue, serving, seen, ok, answer, input,
                 deaths>>

Calling == Connect \/ Send \/ Answered \/ Rejected \/ Broken \/ GiveUp
Serving == Accept \/ RecvFails \/ Handle \/ Refuse \/ Reply

Next ==
  \/ Execute \/ Calling \/ Serving \/ ExecuteEnds
  \/ Tick \/ GatekeeperDies \/ ServiceDies \/ ServiceStarts

Spec == Init /\ [][Next]_vars

\* Both processes run and time passes; no execution has to end, and a service
\* that died need not be started again.
FairSpec == Spec /\ WF_vars(Calling) /\ WF_vars(Serving) /\ WF_vars(Tick)
-----------------------------------------------------------------------------
TypeOK ==
  /\ n \in 0..MaxRequests /\ at \in {"idle", "connect", "send", "recv"}
  /\ waited \in 0..Timeout /\ age \in [Requests -> 0..(MaxAge + 1)]
  /\ sent \subseteq Requests /\ queue \in Seq(Requests) /\ Len(queue) <= Backlog
  /\ svc \in {"accept", "recv", "run", "reply", "down"}
  /\ serving \in {0} \union Requests
  /\ (serving = 0 <=> svc \in {"accept", "down"})
  /\ seen \subseteq Requests /\ ok \in BOOLEAN
  /\ answer \in [Requests -> {"none", "ok", "error"}]
  /\ input \in [Requests -> {"no", "begun", "done", "broken"}]
  /\ result \in [Requests -> {"none", "ok", "failed"}]
  /\ deaths \in 0..MaxDeaths

\* Through timeouts, late answers and deaths of either process, no action is
\* begun twice, out of order or beside another, and one reported as carried
\* out was (gatekeeper.py: a decision "executed" with its outcome).
Port == INSTANCE InputPort WITH asked <- n
ImplementsInputPort == Port!Spec

\* What still waits when its caller has given up is either begun while it is
\* no older than max_age_s or never (services/executor.py: "stale executor
\* request").
BegunInTime ==
  [][\A i \in Requests : input[i] = "no" /\ input'[i] = "begun" =>
       age[i] <= MaxAge]_vars

\* Every call returns or raises, even if the service hangs in an action or is
\* dead, so the gatekeeper goes on to the next request.
CallsEnd == at # "idle" ~> at = "idle"
=============================================================================

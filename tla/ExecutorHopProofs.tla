-------------------------- MODULE ExecutorHopProofs --------------------------
(***************************************************************************)
(* What holds of the hop to the executor service for any limits, and any   *)
(* number of calls and deaths.                                             *)
(***************************************************************************)
EXTENDS ExecutorHop, SequenceTheorems, TLAPS

-----------------------------------------------------------------------------
\* What a tail leaves of a queue: its elements, one place further on.
LEMMA TailOf ==
  ASSUME NEW S, NEW q \in Seq(S), q # << >>
  PROVE  /\ Tail(q) \in Seq(S) /\ Len(Tail(q)) = Len(q) - 1
         /\ Len(q) \in Nat \ {0} /\ Head(q) = q[1] /\ Head(q) \in S
         /\ \A k \in 1..Len(Tail(q)) : Tail(q)[k] = q[k + 1]
BY EmptySeq, HeadTailProperties, ElementOfSeq

LEMMA AppendedTo ==
  ASSUME NEW S, NEW q \in Seq(S), NEW x \in S
  PROVE  /\ Append(q, x) \in Seq(S) /\ Len(Append(q, x)) = Len(q) + 1
         /\ Len(q) \in Nat
         /\ \A k \in 1..Len(q) : Append(q, x)[k] = q[k]
         /\ Append(q, x)[Len(q) + 1] = x
BY AppendProperties, LenProperties

\* A call is of a request.
TypeInv == TypeOK /\ (at # "idle" => n \in Requests)

LEMMA InitType == Init => TypeInv
<1> SUFFICES ASSUME Init PROVE TypeInv
  OBVIOUS
<1>0. /\ Timeout \in Nat /\ MaxAge \in Nat /\ MaxRequests \in Nat
      /\ MaxDeaths \in Nat /\ Backlog \in Nat \ {0}
  BY HopAssumption
<1> USE <1>0 DEF Init
<1>1. queue \in Seq(Requests) /\ Len(queue) <= Backlog
  BY EmptySeq
<1>2. n \in 0..MaxRequests /\ waited \in 0..Timeout /\ deaths \in 0..MaxDeaths
  OBVIOUS
<1>3. age \in [Requests -> 0..(MaxAge + 1)]
  OBVIOUS
<1> QED
  BY <1>1, <1>2, <1>3 DEF TypeOK, TypeInv

LEMMA NextType == TypeInv /\ [Next]_vars => TypeInv'
<1> SUFFICES ASSUME TypeInv, [Next]_vars PROVE TypeInv'
  OBVIOUS
<1>0. /\ Timeout \in Nat /\ MaxAge \in Nat /\ MaxRequests \in Nat
      /\ MaxDeaths \in Nat /\ Backlog \in Nat \ {0}
  BY HopAssumption
<1> USE <1>0 DEF TypeInv, TypeOK, clientVars, svcVars, Requests
<1>1. CASE Execute
  BY <1>1 DEF Execute
<1>2. CASE Connect
  <2>1. n \in Requests /\ queue' = Append(queue, n)
    BY <1>2 DEF Connect
  <2> QED
    BY <1>2, <2>1, AppendedTo DEF Connect
<1>3. CASE Send
  BY <1>3 DEF Send, Held
<1>4. CASE Answered
  BY <1>4 DEF Answered, Return
<1>5. CASE Rejected
  BY <1>5 DEF Rejected, Return
<1>6. CASE Broken
  BY <1>6 DEF Broken, Return
<1>7. CASE GiveUp
  BY <1>7 DEF GiveUp, Return
<1>8. CASE Accept
  BY <1>8, TailOf DEF Accept
<1>9. CASE RecvFails
  BY <1>9 DEF RecvFails
<1>10. CASE Handle
  BY <1>10 DEF Handle, Remember
<1>11. CASE Refuse
  BY <1>11 DEF Refuse
<1>12. CASE Reply
  BY <1>12 DEF Reply
<1>13. CASE ExecuteEnds
  BY <1>13 DEF ExecuteEnds
<1>14. CASE Tick
  BY <1>14 DEF Tick, Waiting, Aging
<1>15. CASE GatekeeperDies
  BY <1>15 DEF GatekeeperDies
<1>16. CASE ServiceDies
  <2>1. queue' \in Seq(Requests) /\ Len(queue') <= Backlog
    BY <1>16, EmptySeq DEF ServiceDies
  <2>2. input' \in [Requests -> {"no", "begun", "done", "broken"}]
    BY <1>16 DEF ServiceDies
  <2>3. /\ svc' = "down" /\ serving' = 0 /\ seen' = {} /\ ok' = FALSE
        /\ deaths' \in 0..MaxDeaths
        /\ UNCHANGED <<n, at, waited, sent, result, age, answer>>
    BY <1>16 DEF ServiceDies
  <2> QED
    BY <2>1, <2>2, <2>3
<1>17. CASE ServiceStarts
  BY <1>17 DEF ServiceStarts
<1>18. CASE UNCHANGED vars
  BY <1>18 DEF vars
<1> QED
  BY <1>1, <1>2, <1>3, <1>4, <1>5, <1>6, <1>7, <1>8, <1>9, <1>10, <1>11,
     <1>12, <1>13, <1>14, <1>15, <1>16, <1>17, <1>18
     DEF Next, Calling, Serving

\* The inductive invariant of the types.
THEOREM TypeInvariant == Spec => []TypeInv
BY InitType, NextType, PTL DEF Spec

\* Both ends of the hop, and the connections between them, keep their types,
\* and no more than Backlog connections wait, in every step.
THEOREM TypeCorrect == Spec => []TypeOK
<1>1. TypeInv => TypeOK
  BY DEF TypeInv
<1> QED
  BY <1>1, TypeInvariant, PTL

\* ExecutorService.handle begins nothing that is older than max_age_s, however
\* long it waited to be accepted.
THEOREM NothingStaleBegins == Spec => BegunInTime
<1>1. TypeInv /\ [Next]_vars =>
        [\A i \in Requests : input[i] = "no" /\ input'[i] = "begun" =>
           age[i] <= MaxAge]_vars
  <2> SUFFICES ASSUME TypeInv, [Next]_vars, NEW i \in Requests,
                      input[i] = "no", input'[i] = "begun"
               PROVE  age[i] <= MaxAge
    OBVIOUS
  <2>1. CASE Handle
    BY <2>1 DEF Handle, TypeInv, TypeOK
  <2>2. CASE ExecuteEnds
    BY <2>2 DEF ExecuteEnds, TypeInv, TypeOK
  <2>3. CASE ServiceDies
    BY <2>3 DEF ServiceDies
  <2>4. CASE UNCHANGED input
    BY <2>4
  <2>5. Execute \/ Calling \/ Accept \/ RecvFails \/ Refuse \/ Reply \/ Tick
          \/ GatekeeperDies \/ ServiceStarts \/ UNCHANGED vars
        => UNCHANGED input
    BY DEF Execute, Calling, Connect, Send, Answered, Rejected, Broken, GiveUp,
           Return, Accept, RecvFails, Refuse, Reply, Tick, GatekeeperDies,
           ServiceStarts, vars, svcVars
  <2> QED
    BY <2>1, <2>2, <2>3, <2>4, <2>5 DEF Next, Serving
<1> QED
  BY <1>1, TypeInvariant, PTL DEF Spec, BegunInTime
-----------------------------------------------------------------------------
(* The order of things.                                                    *)

\* What waits was asked for in that order, after what is served.
QueueInv ==
  /\ serving <= n
  /\ \A k \in 1..Len(queue) : queue[k] <= n /\ serving < queue[k]
  /\ \A k \in 1..Len(queue) : \A l \in 1..Len(queue) :
       k < l => queue[k] < queue[l]
  /\ at = "connect" =>
       serving < n /\ \A k \in 1..Len(queue) : queue[k] < n

\* What was begun comes before what waits, and what is under way is served.
InputInv ==
  /\ \A i \in Requests : i > n \/ (i = n /\ at = "connect") => input[i] = "no"
  /\ \A i \in Requests : \A k \in 1..Len(queue) :
       i >= queue[k] => input[i] = "no"
  /\ svc = "recv" => \A i \in Requests : i >= serving => input[i] = "no"
  /\ svc \in {"run", "reply"} =>
       \A i \in Requests : i > serving => input[i] = "no"
  /\ \A i \in Requests : input[i] = "begun" <=> svc = "run" /\ i = serving

\* Nothing is reported, answered or about to be answered as carried out that
\* was not, and a call has no result before it has returned.
ReportInv ==
  /\ svc = "reply" /\ ok => input[serving] = "done"
  /\ \A i \in Requests : answer[i] = "ok" => input[i] = "done"
  /\ \A i \in Requests : result[i] = "ok" => input[i] = "done"
  /\ \A i \in Requests : i > n \/ (i = n /\ at # "idle") => result[i] = "none"

OrderInv == QueueInv /\ InputInv /\ ReportInv

LEMMA InitOrder == Init => OrderInv
<1>1. Len(<< >>) = 0
  BY EmptySeq
<1> QED
  BY <1>1, HopAssumption DEF Init, OrderInv, QueueInv, InputInv, ReportInv

LEMMA NextQueue == TypeInv /\ QueueInv /\ [Next]_vars => QueueInv'
<1> SUFFICES ASSUME TypeInv, QueueInv, [Next]_vars PROVE QueueInv'
  OBVIOUS
<1>0. /\ n \in Nat /\ serving \in Nat /\ queue \in Seq(Requests)
      /\ Len(queue) \in Nat /\ Requests \subseteq Nat
      /\ \A k \in 1..Len(queue) : queue[k] \in Nat
  <2>1. queue \in Seq(Requests) /\ Requests \subseteq Nat
    BY DEF TypeInv, TypeOK, Requests
  <2>2. Len(queue) \in Nat /\ \A k \in 1..Len(queue) : queue[k] \in Requests
    BY <2>1, LenProperties, ElementOfSeq
  <2> QED
    BY <2>1, <2>2, HopAssumption DEF TypeInv, TypeOK, Requests
<1> USE <1>0 DEF QueueInv, clientVars, svcVars
<1>1. CASE Execute
  BY <1>1 DEF Execute
<1>2. CASE Connect
  <2>1. n \in Requests /\ queue' = Append(queue, n)
    BY <1>2 DEF Connect, TypeInv
  <2>2. /\ Len(queue') = Len(queue) + 1
        /\ \A k \in 1..Len(queue) : queue'[k] = queue[k]
        /\ queue'[Len(queue) + 1] = n
    BY <2>1, AppendedTo
  <2>3. UNCHANGED <<n, serving>> /\ at = "connect" /\ at' = "send"
    BY <1>2 DEF Connect
  <2> QED
    BY <2>2, <2>3
<1>3. CASE Accept
  <2>1. queue # << >> /\ queue' = Tail(queue) /\ serving' = Head(queue)
        /\ UNCHANGED <<n, at>>
    BY <1>3 DEF Accept
  <2>2. /\ Len(queue') = Len(queue) - 1 /\ Len(queue) # 0
        /\ serving' = queue[1] /\ \A k \in 1..Len(queue') : queue'[k] = queue[k + 1]
    BY <2>1, TailOf
  <2>3. \A k \in 1..Len(queue') : queue'[k] <= n' /\ serving' < queue'[k]
    BY <2>1, <2>2
  <2>4. \A k \in 1..Len(queue') : \A l \in 1..Len(queue') :
          k < l => queue'[k] < queue'[l]
    BY <2>1, <2>2
  <2>5. at' = "connect" =>
          serving' < n' /\ \A k \in 1..Len(queue') : queue'[k] < n'
    BY <2>1, <2>2
  <2> QED
    BY <2>1, <2>2, <2>3, <2>4, <2>5
<1>4. CASE ServiceDies
  BY <1>4, EmptySeq DEF ServiceDies
<1>5. CASE Reply
  BY <1>5 DEF Reply
<1>6. CASE UNCHANGED <<n, queue, serving>> /\ at' # "connect"
  BY <1>6
<1>7. CASE UNCHANGED <<n, at, queue, serving>>
  BY <1>7
<1>8. Send \/ Answered \/ Rejected \/ Broken \/ GiveUp \/ GatekeeperDies
        => UNCHANGED <<n, queue, serving>> /\ at' # "connect"
  BY DEF Send, Answered, Rejected, Broken, GiveUp, Return, GatekeeperDies
<1>9. RecvFails \/ Handle \/ Refuse \/ ExecuteEnds \/ Tick \/ ServiceStarts
        \/ UNCHANGED vars => UNCHANGED <<n, at, queue, serving>>
  BY DEF RecvFails, Handle, Refuse, ExecuteEnds, Tick, ServiceStarts, vars
<1> QED
  BY <1>1, <1>2, <1>3, <1>4, <1>5, <1>6, <1>7, <1>8, <1>9
     DEF Next, Calling, Serving

LEMMA NextInput == TypeInv /\ QueueInv /\ InputInv /\ [Next]_vars => InputInv'
<1> SUFFICES ASSUME TypeInv, QueueInv, InputInv, [Next]_vars PROVE InputInv'
  OBVIOUS
<1>0. /\ n \in Nat /\ serving \in {0} \union Requests
      /\ queue \in Seq(Requests) /\ Len(queue) \in Nat /\ Requests \subseteq Nat
      /\ \A k \in 1..Len(queue) : queue[k] \in Nat
      /\ input \in [Requests -> {"no", "begun", "done", "broken"}]
      /\ (serving = 0 <=> svc \in {"accept", "down"})
  <2>1. queue \in Seq(Requests) /\ Requests \subseteq Nat
    BY DEF TypeInv, TypeOK, Requests
  <2>2. Len(queue) \in Nat /\ \A k \in 1..Len(queue) : queue[k] \in Requests
    BY <2>1, LenProperties, ElementOfSeq
  <2> QED
    BY <2>1, <2>2, HopAssumption DEF TypeInv, TypeOK, Requests
<1> USE <1>0 DEF InputInv, clientVars, svcVars
<1>1. CASE Execute
  BY <1>1 DEF Execute
<1>2. CASE Connect
  <2>1. n \in Requests /\ queue' = Append(queue, n)
    BY <1>2 DEF Connect, TypeInv
  <2>2. /\ Len(queue') = Len(queue) + 1
        /\ \A k \in 1..Len(queue) : queue'[k] = queue[k]
        /\ queue'[Len(queue) + 1] = n
    BY <2>1, AppendedTo
  <2>3. UNCHANGED <<n, serving, svc, input>> /\ at = "connect" /\ at' = "send"
    BY <1>2 DEF Connect
  <2> QED
    BY <2>2, <2>3
<1>3. CASE Accept
  <2>1. queue # << >> /\ queue' = Tail(queue) /\ serving' = Head(queue)
        /\ svc = "accept" /\ svc' = "recv" /\ UNCHANGED <<n, at, input>>
    BY <1>3 DEF Accept
  <2>2. /\ Len(queue') = Len(queue) - 1 /\ Len(queue) # 0
        /\ serving' = queue[1] /\ \A k \in 1..Len(queue') : queue'[k] = queue[k + 1]
    BY <2>1, TailOf
  <2> QED
    BY <2>1, <2>2
<1>4. CASE Handle
  <2>1. /\ serving \in Requests /\ svc = "recv" /\ svc' = "run"
        /\ input' = [input EXCEPT ![serving] = "begun"]
        /\ UNCHANGED <<n, at, queue, serving>>
    BY <1>4 DEF Handle
  <2>2. \A k \in 1..Len(queue) : serving < queue[k]
    BY DEF QueueInv
  <2>3. serving < n \/ (serving = n /\ at # "connect")
    BY <2>1 DEF QueueInv
  <2> QED
    BY <2>1, <2>2, <2>3
<1>5. CASE ExecuteEnds
  <2>1. /\ serving \in Requests /\ svc = "run" /\ svc' = "reply"
        /\ input'[serving] \in {"done", "broken"}
        /\ \A i \in Requests : i # serving => input'[i] = input[i]
        /\ UNCHANGED <<n, at, queue, serving>>
    BY <1>5 DEF ExecuteEnds
  <2>2. \A k \in 1..Len(queue) : serving < queue[k]
    BY DEF QueueInv
  <2>3. serving < n \/ (serving = n /\ at # "connect")
    BY <2>1 DEF QueueInv
  <2> QED
    BY <2>1, <2>2, <2>3
<1>6. CASE ServiceDies
  BY <1>6, EmptySeq DEF ServiceDies
<1>7. CASE RecvFails \/ Refuse
  BY <1>7 DEF RecvFails, Refuse
<1>8. CASE Reply
  BY <1>8 DEF Reply
<1>9. CASE ServiceStarts
  BY <1>9 DEF ServiceStarts
<1>10. CASE UNCHANGED <<n, queue, svcVars>> /\ at' # "connect"
  BY <1>10
<1>11. CASE UNCHANGED <<n, at, queue, svcVars>>
  BY <1>11
<1>12. Send \/ Answered \/ Rejected \/ Broken \/ GiveUp \/ GatekeeperDies
        => UNCHANGED <<n, queue, svcVars>> /\ at' # "connect"
  BY DEF Send, Answered, Rejected, Broken, GiveUp, Return, GatekeeperDies
<1>13. Tick \/ UNCHANGED vars => UNCHANGED <<n, at, queue, svcVars>>
  BY DEF Tick, vars
<1> QED
  BY <1>1, <1>2, <1>3, <1>4, <1>5, <1>6, <1>7, <1>8, <1>9, <1>10, <1>11,
     <1>12, <1>13 DEF Next, Calling, Serving

LEMMA NextReport ==
  TypeInv /\ InputInv /\ ReportInv /\ [Next]_vars => ReportInv'
<1> SUFFICES ASSUME TypeInv, InputInv, ReportInv, [Next]_vars PROVE ReportInv'
  OBVIOUS
<1>0. /\ n \in Nat /\ serving \in {0} \union Requests /\ Requests \subseteq Nat
      /\ input \in [Requests -> {"no", "begun", "done", "broken"}]
      /\ answer \in [Requests -> {"none", "ok", "error"}]
      /\ result \in [Requests -> {"none", "ok", "failed"}]
      /\ (serving = 0 <=> svc \in {"accept", "down"})
      /\ (at # "idle" => n \in Requests)
  BY HopAssumption DEF TypeInv, TypeOK, Requests
<1> USE <1>0 DEF ReportInv, clientVars, svcVars
<1>1. CASE Execute
  BY <1>1 DEF Execute
<1>2. CASE Answered
  BY <1>2 DEF Answered, Return
<1>3. CASE Rejected \/ Broken \/ GiveUp
  BY <1>3 DEF Rejected, Broken, GiveUp, Return
<1>4. CASE Handle
  BY <1>4 DEF Handle, InputInv
<1>5. CASE ExecuteEnds
  BY <1>5 DEF ExecuteEnds, InputInv
<1>6. CASE Reply
  BY <1>6 DEF Reply
<1>7. CASE ServiceDies
  BY <1>7 DEF ServiceDies
<1>8. CASE RecvFails \/ Refuse \/ Accept
  BY <1>8 DEF RecvFails, Refuse, Accept
<1>9. CASE ServiceStarts
  BY <1>9 DEF ServiceStarts
<1>10. CASE Connect \/ Send \/ GatekeeperDies
  BY <1>10 DEF Connect, Send, GatekeeperDies
<1>11. CASE Tick \/ UNCHANGED vars
  BY <1>11 DEF Tick, vars
<1> QED
  BY <1>1, <1>2, <1>3, <1>4, <1>5, <1>6, <1>7, <1>8, <1>9, <1>10, <1>11
     DEF Next, Calling, Serving

LEMMA OrderInvariant == Spec => []OrderInv
<1>1. TypeInv /\ OrderInv /\ [Next]_vars => OrderInv'
  BY NextQueue, NextInput, NextReport DEF OrderInv
<1> QED
  BY <1>1, InitOrder, TypeInvariant, PTL DEF Spec
-----------------------------------------------------------------------------
(* The refinement.                                                         *)

LEMMA StepIsPortStep ==
  TypeInv /\ OrderInv /\ [Next]_vars => [Port!Next]_(Port!portVars)
<1> SUFFICES ASSUME TypeInv, OrderInv, [Next]_vars
             PROVE  Port!Next \/ UNCHANGED <<n, input, result>>
  BY DEF Port!portVars
<1>0. /\ n \in Nat /\ serving \in {0} \union Requests /\ Requests \subseteq Nat
      /\ Port!Requests = Requests
      /\ input \in [Requests -> {"no", "begun", "done", "broken"}]
      /\ result \in [Requests -> {"none", "ok", "failed"}]
      /\ (serving = 0 <=> svc \in {"accept", "down"})
      /\ (at # "idle" => n \in Requests)
  BY HopAssumption DEF TypeInv, TypeOK, Requests, Port!Requests
<1> USE <1>0 DEF clientVars, svcVars
<1>1. CASE Execute
  <2>1. Port!Ask
    BY <1>1 DEF Execute, Port!Ask
  <2> QED
    BY <2>1 DEF Port!Next
<1>2. CASE Answered \/ Rejected \/ Broken \/ GiveUp
  <2>1. at # "idle" /\ n \in Requests /\ result[n] = "none"
    BY <1>2 DEF Answered, Rejected, Broken, GiveUp, OrderInv, ReportInv
  <2>2. Answered => input[n] = "done"
    BY <2>1 DEF Answered, OrderInv, ReportInv
  <2>3. Port!Report(n)
    BY <1>2, <2>1, <2>2
       DEF Answered, Rejected, Broken, GiveUp, Return, Port!Report
  <2> QED
    BY <2>1, <2>3 DEF Port!Next
<1>3. CASE Handle
  <2>1. serving \in Requests /\ svc = "recv" /\ serving <= n
    BY <1>3 DEF Handle, OrderInv, QueueInv
  <2>2. \A j \in Requests : input[j] # "begun" /\ (j >= serving => input[j] = "no")
    BY <2>1 DEF OrderInv, InputInv
  <2>3. result[serving] # "ok"
    BY <2>1, <2>2 DEF OrderInv, ReportInv
  <2>4. Port!Begin(serving)
    BY <1>3, <2>1, <2>2, <2>3 DEF Handle, Port!Begin
  <2> QED
    BY <2>1, <2>4 DEF Port!Next
<1>4. CASE ExecuteEnds
  <2>1. serving \in Requests /\ input[serving] = "begun"
    BY <1>4 DEF ExecuteEnds, OrderInv, InputInv
  <2>2. Port!End(serving)
    BY <1>4, <2>1 DEF ExecuteEnds, Port!End
  <2> QED
    BY <2>1, <2>2 DEF Port!Next
<1>5. CASE ServiceDies
  <2>1. CASE svc = "run"
    <3>1. /\ serving \in Requests /\ input[serving] = "begun"
          /\ \A i \in Requests : i # serving => input[i] # "begun"
      BY <2>1 DEF OrderInv, InputInv
    <3>2. input' = [input EXCEPT ![serving] = "broken"]
      BY <1>5, <3>1 DEF ServiceDies
    <3>3. Port!End(serving)
      BY <1>5, <3>1, <3>2 DEF ServiceDies, Port!End
    <3> QED
      BY <3>1, <3>3 DEF Port!Next
  <2>2. CASE svc # "run"
    <3>1. \A i \in Requests : input[i] # "begun"
      BY <2>2 DEF OrderInv, InputInv
    <3>2. input' = input
      BY <1>5, <3>1 DEF ServiceDies
    <3> QED
      BY <1>5, <3>2 DEF ServiceDies
  <2> QED
    BY <2>1, <2>2
<1>6. Connect \/ Send \/ Accept \/ RecvFails \/ Refuse \/ Reply \/ Tick
        \/ GatekeeperDies \/ ServiceStarts \/ UNCHANGED vars
        => UNCHANGED <<n, input, result>>
  BY DEF Connect, Send, Accept, RecvFails, Refuse, Reply, Tick,
         GatekeeperDies, ServiceStarts, vars
<1> QED
  BY <1>1, <1>2, <1>3, <1>4, <1>5, <1>6 DEF Next, Calling, Serving

\* RemoteExecutor, the loopback IPC and ExecutorService keep what InputPort
\* promises, whatever times out, comes late or dies.
THEOREM HopImplementsPort == Spec => ImplementsInputPort
<1>1. Init => Port!Init
  BY DEF Init, Port!Init, Port!Requests, Requests
<1> QED
  BY <1>1, StepIsPortStep, TypeInvariant, OrderInvariant, PTL
     DEF Spec, Port!Spec, ImplementsInputPort
=============================================================================

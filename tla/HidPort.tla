------------------------------- MODULE HidPort -------------------------------
(* The serial port of the executor service: services/executor.py             *)
(* build_executor and the part of gatekeeper/executor_ch9329.py that turns   *)
(* the configured port and rate into the pair to open. Devices may be        *)
(* plugged in and out between the look and the opening.                      *)
EXTENDS OwnerFiles

CONSTANTS
  Devices,    \* serial devices, by the name the enumeration reports
  RealPath    \* the device each configured port name stands for

VARIABLES
  plugged,  \* the USB identity at each device, "none" if nothing is there
  conn      \* the port of each executor: what was resolved, and what was opened

portVars == <<plugged, conn>>

(* The identities the code knows; "other" is a device it does not.           *)
KnownChips ==
  [ch9329   |-> [fixed |-> 0,      default |-> 9600,   auto |-> FALSE],
   ch32v208 |-> [fixed |-> 115200, default |-> 115200, auto |-> FALSE]]
Ids == DOMAIN KnownChips \cup {"other", "none"}
Conn == [device: Devices \cup {"none"}, id: Ids, baud: Nat, opened: Ids]
NoConn == [device |-> "none", id |-> "none", baud |-> 0, opened |-> "none"]

Matches == {d \in Devices : plugged[d] \in DOMAIN KnownChips}
(* detect_hid_port: the one device that matches, if its identity is enough.  *)
Detected == {d \in Matches : Matches = {d} /\ KnownChips[plugged[d]].auto}

SamePort(d, name) == RealPath[name] = d
Identify(name) ==
  IF \E d \in Matches : SamePort(d, name) THEN plugged[RealPath[name]] ELSE "none"

\* Mutant: the configured rate wins over the chip's fixed one.
ResolveBaudrateAsked(id, configured) ==
  IF configured # 0 THEN configured ELSE IF id = "none" THEN 9600 ELSE KnownChips[id].default

(* A fixed rate wins, then the configured one (0 for none), then the chip's. *)
ResolveBaudrate(id, configured) ==
  IF id = "none" THEN IF configured = 0 THEN 9600 ELSE configured
  ELSE IF KnownChips[id].fixed # 0 THEN KnownChips[id].fixed
  ELSE IF configured = 0 THEN KnownChips[id].default ELSE configured

(* The dry-run and pynput executors need no port.                            *)
ResolveConnection(p) ==
  /\ task[p] = "port" /\ pc[p] = "begin"
  /\ IF world.port = "none" THEN Finish(p, 0) /\ UNCHANGED conn
     ELSE IF world.port = "auto" /\ Detected = {} THEN Fail(p) /\ UNCHANGED conn
     ELSE LET device == IF world.port = "auto" THEN CHOOSE d \in Detected : TRUE
                        ELSE RealPath[world.port]
              id == IF world.port = "auto" THEN plugged[device] ELSE Identify(world.port)
          IN  /\ conn' = [conn EXCEPT ![p] = [device |-> device, id |-> id, opened |-> "none",
                                              baud |-> ResolveBaudrate(id, world.baud)]]
              /\ Step(p, "open") /\ UNCHANGED <<task, at, mine, got, starts>>
  /\ UNCHANGED <<world, fsVars, plugged>>

OpenSerial(p) ==
  /\ task[p] = "port" /\ pc[p] = "open"
  /\ \/ /\ plugged[conn[p].device] # "none"
        /\ conn' = [conn EXCEPT ![p].opened = plugged[conn[p].device]]
        /\ Finish(p, 0)
     \/ /\ plugged[conn[p].device] = "none" \/ world.faults
        /\ Fail(p) /\ UNCHANGED conn
  /\ UNCHANGED <<world, fsVars, plugged>>

(* Somebody plugs another device in, or takes one out.                       *)
Replug(d, id) ==
  /\ world.port # "none" /\ plugged[d] # id
  /\ plugged' = [plugged EXCEPT ![d] = id]
  /\ UNCHANGED <<fileVars, conn>>

PortStep(p) == ResolveConnection(p) \/ OpenSerial(p)
=============================================================================

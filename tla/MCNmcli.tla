------------------------------ MODULE MCNmcli ------------------------------
(***************************************************************************)
(* Instances of Nmcli.  The name "bridge" is also a type: once there is    *)
(* another bridge, "br-ex", connection_exists takes it for this one.       *)
(***************************************************************************)
EXTENDS Nmcli

Opts(given) == [o \in Options |-> IF o \in given THEN 1 ELSE 0]

Call(s, n, t, given, c) ==
  [state |-> s, name |-> n, type |-> t, id |-> None, ifname |-> TRUE,
   opts |-> Opts(given), check |-> c]

MCRequests ==
  { Call("present", "eth0", "ethernet", {"dns", "mtu"}, FALSE),
    Call("present", "eth0", "bond", {"dns", "own", "fixed"}, FALSE),
    Call("present", "eth0", "vlan", {"dns", "own"}, FALSE),
    Call("present", "eth0", "team-slave", {"master", "mtu"}, FALSE),
    Call("present", "eth0", "team-slave", {}, FALSE),
    Call("present", "eth0", None, {}, FALSE),
    Call("present", "bridge", "bridge", {"ip", "own"}, FALSE),
    Call("present", "bridge", "bridge", {"ip", "own"}, TRUE),
    Call("present", "br-ex", "bridge", {"ip", "own"}, FALSE),
    Call("absent", "eth0", None, {}, FALSE),
    Call("absent", "bridge", None, {}, TRUE) }
=============================================================================

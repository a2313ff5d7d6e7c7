------------------------------- MODULE MCLan --------------------------------
(* Hosts a and b on a switch, host c on a hub behind its third port;    *)
(* the hub has a free port to which b may be moved.                         *)
EXTENDS Lan, TLC

CONSTANTS a, b, c, sw, hub

LanPorts == {<<sw, 1>>, <<sw, 2>>, <<sw, 3>>, <<hub, 1>>, <<hub, 2>>, <<hub, 3>>}
LanTrunk == <<sw, 3>> :> <<hub, 1>> @@ <<hub, 1>> :> <<sw, 3>>
LanHome == a :> <<sw, 1>> @@ b :> <<sw, 2>> @@ c :> <<hub, 2>>
=============================================================================

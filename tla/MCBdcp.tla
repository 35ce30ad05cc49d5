------------------------------- MODULE MCBdcp -------------------------------
\* A device that starts beside a server; a device that starts beside two.
EXTENDS Bdcp, TLC

CONSTANTS d1, d2, d3, i1, i2, i3

TwoFirstIps == d1 :> i1 @@ d2 :> i2
ThreeFirstIps == TwoFirstIps @@ d3 :> i3
=============================================================================

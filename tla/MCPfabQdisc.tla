---------------------------- MODULE MCPfabQdisc ----------------------------
(***************************************************************************)
(* Small instances of PfabQdisc for TLC.  Header lengths, limits and the   *)
(* u32 modulus are scaled down; 4 bands in 2 words of 2 bits keep both     *)
(* loops of the bitmap scans alive.                                        *)
(***************************************************************************)
EXTENDS PfabQdisc

IpFrame(tos)  == [ip |-> TRUE,  len |-> 2, tos |-> tos]
ShortFrame    == [ip |-> FALSE, len |-> 1, tos |-> 0]
OtherFrame(b) == [ip |-> FALSE, len |-> 3, tos |-> b]

MCFrames == {ShortFrame, IpFrame(1), IpFrame(3), OtherFrame(4)}

UrgencyFrames == {IpFrame(0), IpFrame(1), IpFrame(3), IpFrame(4)}

MCOpts == [limit : {0, 2}, disable_dequeue : BOOLEAN]

NoOpts == {}
=============================================================================

-------------------------- MODULE MCChannelIngress --------------------------
(* Two messages of one thread, a message of another channel with the same    *)
(* stamp, a message of a Discord channel with the first one's identifier and *)
(* a ping of Discord's.                                                      *)
EXTENDS ChannelIngress, TLC

CONSTANTS m1, m2, m3, d1, ping

MCSurfaceOf == [m \in Messages |-> IF m \in {m1, m2, m3} THEN "slack" ELSE "discord"]
MCKind == [m \in Messages |-> IF m = ping THEN "setup" ELSE "text"]
MCChannelOf == [m \in Messages |-> IF m = m3 THEN "d" ELSE "c"]
MCStampOf == [m \in Messages |-> IF m = m2 THEN 2 ELSE 1]
MCRootOf == [m \in Messages |-> 1]
=============================================================================

--------------------------- MODULE MCMultiplexer ----------------------------
(***************************************************************************)
(* Instances of Multiplexer for TLC: channels of capacity one, so that     *)
(* every blocking send happens, and two clients of which one may fail.     *)
(***************************************************************************)
EXTENDS MultiplexerProps

CONSTANTS s1, s2

Clients == {s1, s2}
OneClient == {s1}
OtherClient == {s2}
NoClient == {}

\* Any request, only those the runner receives, or only the one that starts it.
AllKinds == {"config", "input", "other"}
OnlyConfig == {"config"}
=============================================================================

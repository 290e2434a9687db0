--------------------------- MODULE MCSerialDaemon ---------------------------
(* Two uploads at a time, two daemon processes at a time.                  *)
EXTENDS SerialDaemon

CONSTANTS c1, c2, d1, d2

MCClients == {c1, c2}
OneClient == {c1}
MCDaemons == {d1, d2}

=============================================================================

--------------------------- MODULE MCWebSocketHub ---------------------------
(* Instances of WebSocketHub for TLC.                                      *)
EXTENDS WebSocketHub

CONSTANTS m1, m2, s1, s2, r1, r2, r12, rx

\* Two rooms, a name with a comma in it, and one with a separator.
PiecesOf == [r \in Name |-> IF r = r12 THEN {r1, r2} ELSE {r}]

\* One socket is in both rooms.
RoomsJoined == [s \in Socket |-> IF s = s1 THEN {r1, r2} ELSE {r2}]

Msg(ch, names) == [channel |-> ch, rooms |-> names]

\* A message to both rooms and a broadcast; or one that does not decode, and another.
TwoTraffics ==
  {[m \in Message |-> IF m = m1 THEN Msg("send", {r12}) ELSE Msg("broadcast", {})],
   [m \in Message |-> IF m = m1 THEN Msg("send", {r1, rx}) ELSE Msg("send", {r2})]}

FairHubSpec == HubSpec /\ HubFairness
=============================================================================

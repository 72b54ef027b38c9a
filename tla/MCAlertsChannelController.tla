--------------------- MODULE MCAlertsChannelController ---------------------
(* Instances of AlertsChannelController for TLC.                           *)
EXTENDS AlertsChannelController

CONSTANTS c1, c2, p1, p2

One(name, config, links) == [name |-> name, config |-> config, links |-> links]

\* A channel that is renamed and linked to another policy; and back.
First   == One("one", c1, {p1})
Second  == One("two", c1, {p2})
MCGiven == {First}
MCEdits == {<<First, Second>>, <<Second, First>>}

\* A channel of the first name that New Relic may hold before.
MCExisting == {One("one", c2, {p2})}

Alone   == {One("one", c1, {})}
NoEdits == {}
=============================================================================

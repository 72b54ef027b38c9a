---------------------- MODULE MCAlertsPolicyController ----------------------
(* Instances of AlertsPolicyController for TLC.                            *)
EXTENDS AlertsPolicyController, TLC

CONSTANTS nrql, apm, a1, a2, b1, ch1, ch2, k1, k2, acc

\* Two versions of one condition, and another condition of the other kind.
MCNameOf == (a1 :> "a") @@ (a2 :> "a") @@ (b1 :> "b")
MCKindOf == (a1 :> nrql) @@ (a2 :> nrql) @@ (b1 :> apm)

One(title, conds, channels) ==
  [title |-> title, key |-> k1, account |-> acc, conditions |-> conds,
   channels |-> channels]

\* A policy that grows: conditions and channels are added, a condition changes,
\* then the title, the key and the account, and nothing goes back to what it was.
Small   == [One("one", <<a1>>, {}) EXCEPT !.account = None]
Grown   == [One("one", <<a2, b1>>, {ch1}) EXCEPT !.account = None]
Renamed == [One("two", <<a2, b1>>, {ch1, ch2}) EXCEPT !.key = k2]

MCGiven   == {Small}
GrowEdits == {<<Small, Grown>>, <<Grown, Renamed>>}

\* The same growth, with one channel in the place of another.
Plugged    == One("one", <<a1>>, {ch1})
Moved      == One("one", <<a2, b1>>, {ch2})
MovedGiven == {Plugged}
MoveEdits  == {<<Plugged, Moved>>}

\* Two conditions from the start.
TwoGiven == {One("one", <<a1, b1>>, {})}

\* All the channels are removed.
Linked       == One("one", <<>>, {ch1})
LinkedGiven  == {Linked}
UnlinkEdits  == {<<Linked, One("one", <<>>, {})>>}

NoEdits == {}
=============================================================================

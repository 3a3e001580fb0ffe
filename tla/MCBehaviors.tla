----------------------------- MODULE MCBehaviors -----------------------------
(***************************************************************************)
(* Instances of Behaviors for TLC: two booths that share a big sign, two   *)
(* doors with rows of the sheet, few readings and few configurations.      *)
(***************************************************************************)
EXTENDS Behaviors, TLC

CONSTANTS b1, b2, d1, d2, s1

\* A load cell reads at most -2 under a person's weight and -1 when empty, say.
MCWeights == {0, -2}
MCDistances == {0}
MCDefaultSetting == [weight |-> -1, above |-> FALSE, distance |-> 1]

NoRoster == << >>
TwoRows == <<d1, d2>>

OneWing == << [bigsign |-> s1, devices |-> {b1, b2}] >>
Regrouped == << [bigsign |-> s1, devices |-> {b1}] >>
NoGroups == {<< >>}
Singleton == {<< >>, << [bigsign |-> s1, devices |-> {b1}] >>}
Regroupings == {<< >>, OneWing, Regrouped}

NoDevices == << >>
DefaultDevices == {NoDevices}
\* The scale of b1 is turned round: both the threshold and its direction change.
Rescalings == {NoDevices, b1 :> [weight |-> 1, above |-> TRUE, distance |-> 1]}
=============================================================================

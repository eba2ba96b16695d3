----------------------------- MODULE StatusIcon -----------------------------
(***************************************************************************)
(* What conwatch-tray shows for the state of its two protocols             *)
(* (stateOf and severityOf of ping_monitor_tick.cpp, and                   *)
(* ping_monitor_status_text.cpp).  Pure functions of the two tracks.       *)
(*                                                                         *)
(* A glyph is the set of the protocols it names: {} for "", {"v4"} for     *)
(* "4", Proto for "4/6".  A status text keeps, per protocol, what the text *)
(* tells of it.                                                            *)
(***************************************************************************)
EXTENDS Naturals

CONSTANT FailStreakForGatewayCheck

ASSUME FailStreakForGatewayCheckAssumption ==
    FailStreakForGatewayCheck \in Nat \ {0}

Proto == {"v4", "v6"}

Severity == {"Green", "Blue", "Yellow", "Red"}

ProtoState == {"NoLocalAddress", "Failing", "Healthy"}

\* The fields of a ProtoTrack t read here: configured, hasLocalAddress,
\* failStreak and gatewayReachable.
stateOf(t) ==
    IF ~t.configured \/ ~t.hasLocalAddress THEN "NoLocalAddress"
    ELSE IF t.failStreak = 0 THEN "Healthy" ELSE "Failing"

severityOf(t) ==
    IF t.failStreak < FailStreakForGatewayCheck THEN "Yellow"
    ELSE IF t.gatewayReachable THEN "Blue" ELSE "Red"

IsHealthy(t) == stateOf(t) = "Healthy"

IsBlue(t) == severityOf(t) = "Blue"

IsYellow(t) == stateOf(t) = "Failing" /\ severityOf(t) = "Yellow"

glyphFor(track) == {p \in Proto : IsHealthy(track[p]) \/ IsBlue(track[p])}

\* Mutant: the yellow test looks at one protocol only.
worstSeverityOf_YellowV4Only(track) ==
    IF \E p \in Proto : IsHealthy(track[p]) THEN "Green"
    ELSE IF \E p \in Proto : IsBlue(track[p]) THEN "Blue"
    ELSE IF IsYellow(track["v4"]) THEN "Yellow"
    ELSE IF \E p \in Proto : stateOf(track[p]) = "Failing" THEN "Red"
    ELSE "Green"

worstSeverityOf(track) ==
    IF \E p \in Proto : IsHealthy(track[p]) THEN "Green"
    ELSE IF \E p \in Proto : IsBlue(track[p]) THEN "Blue"
    ELSE IF \E p \in Proto : IsYellow(track[p]) THEN "Yellow"
    ELSE IF \E p \in Proto : stateOf(track[p]) = "Failing" THEN "Red"
    ELSE "Green"

\* "connected", or the losses and whether the gateway answers; a protocol
\* without an address is left out.
protoStatusText(t) ==
    [state            |-> stateOf(t),
     losses           |-> IF stateOf(t) = "Failing" THEN t.failStreak ELSE 0,
     gatewayReachable |-> stateOf(t) = "Failing" /\ t.gatewayReachable]

statusTextFor(track) == [p \in Proto |-> protoStatusText(track[p])]
=============================================================================

-------------------------- MODULE PingMonitorProofs --------------------------
(***************************************************************************)
(* Proofs about conwatch-tray for any thresholds, worlds and network       *)
(* faults: types, the currency of the gateway's state, that the display is *)
(* never stale, and that the tray implements PingRounds.                   *)
(***************************************************************************)
EXTENDS PingMonitor, GatewayResolverProofs, SequenceTheorems

\* What a tray may have found for itself.
Ours == {NoGateway, "gateway"}

OursOK(t) == t.gatewayMode = "Auto" => t.gatewayIp \in Ours

\* GatewayIsCurrent and GatewayIsOurs for one track.
GatewayOK(t) ==
    /\ t.gatewayReachable =>
         /\ t.configured
         /\ t.hasLocalAddress
         /\ t.failStreak >= FailStreakForGatewayCheck
         /\ t.gatewayMode # "Disabled"
         /\ t.gatewayIp # NoGateway
    /\ OursOK(t)

Pinged(t) == t.configured /\ t.hasLocalAddress

\* What is known while the thread is blocked in recvReply.
Waiting ==
    /\ step \in {"target", "gateway"} => Pinged(track[proto])
    /\ step = "gateway" =>
         /\ track[proto].failStreak >= FailStreakForGatewayCheck
         /\ track[proto].gatewayMode # "Disabled"
         /\ track[proto].gatewayIp # NoGateway

\* The variables the thread changes during a tick.
TickTypeOK ==
    /\ world \in DOMAIN WorldNamed
    /\ wire \in [Proto -> SUBSET Answerer]
    /\ rx \in [Proto -> Seq(Message)]
    /\ \A p \in Proto : Len(rx[p]) <= RxCapacity
    /\ step \in Steps
    /\ proto \in Proto
    /\ track \in [Proto -> Track]

TickInv ==
    /\ TickTypeOK
    /\ \A p \in Proto : GatewayOK(track[p])
    /\ Waiting

\* A protocol is configured once and for all.
ConfiguredStays ==
    \A q \in Proto : track'[q].configured = track[q].configured

Buffer(b) == b \in Seq(Message) /\ Len(b) <= RxCapacity

-----------------------------------------------------------------------------
(* Ends of a step.                                                         *)

LEMMA ToNextProtoInv ==
    ASSUME TickInv, NEW p \in Proto, NEW t \in Track, GatewayOK(t),
           t.configured = track[p].configured,
           NEW b, Buffer(b), ToNextProto(p, t, wire, b), UNCHANGED world
    PROVE  TickInv' /\ ConfiguredStays
<1>1. TickTypeOK'
  BY DEF TickInv, TickTypeOK, ToNextProto, GoOn, Buffer, Steps, Proto
<1>2. \A q \in Proto : GatewayOK(track'[q])
  BY DEF TickInv, TickTypeOK, ToNextProto
<1>3. step' \notin {"target", "gateway"}
  BY DEF ToNextProto, GoOn
<1>4. ConfiguredStays
  BY DEF TickInv, TickTypeOK, ToNextProto, ConfiguredStays
<1> QED  BY <1>1, <1>2, <1>3, <1>4 DEF TickInv, Waiting

LEMMA ToAwaitInv ==
    ASSUME TickInv, NEW p \in Proto, NEW t \in Track, GatewayOK(t), Pinged(t),
           t.configured = track[p].configured,
           NEW who \in Answerer,
           who = "gateway" => /\ t.failStreak >= FailStreakForGatewayCheck
                              /\ t.gatewayMode # "Disabled"
                              /\ t.gatewayIp # NoGateway,
           NEW b, Buffer(b), ToAwait(p, t, who, b), UNCHANGED world
    PROVE  TickInv' /\ ConfiguredStays
<1>0. step' = who /\ proto' = p /\ track'[p] = t
  BY DEF ToAwait, GoOn, TickInv, TickTypeOK
<1>1. TickTypeOK'
  <2>1. Replies(p, t.sock, who) \subseteq Answerer
    BY DEF Replies, Answerer
  <2> QED  BY <1>0, <2>1
           DEF TickInv, TickTypeOK, ToAwait, Buffer, Steps, Answerer
<1>2. \A q \in Proto : GatewayOK(track'[q])
  BY DEF TickInv, TickTypeOK, ToAwait
<1>3. Waiting'
  BY <1>0 DEF Waiting
<1>4. ConfiguredStays
  BY DEF TickInv, TickTypeOK, ToAwait, ConfiguredStays
<1> QED  BY <1>1, <1>2, <1>3, <1>4 DEF TickInv

-----------------------------------------------------------------------------
(* The operations on a track.                                              *)

LEMMA LostBounds ==
    ASSUME NEW n \in 0 .. MaxFailStreak
    PROVE  /\ Lost(n) \in 1 .. MaxFailStreak
           /\ n >= FailStreakForGatewayCheck =>
                Lost(n) >= FailStreakForGatewayCheck
  BY CountersAssumption, FailStreakForGatewayCheckAssumption DEF Lost

LEMMA OpenSocketType ==
    ASSUME world \in DOMAIN WorldNamed
    PROVE  openSocket \subseteq Handle
<1>1. Here.ifindex \in TrayIfindex \cup {None}
  BY NetworkAssumption DEF Here, WorldNamed, World
<1> QED  BY <1>1 DEF openSocket, Handle

\* Whatever the dump is cut into, a resolver finds a gateway of its interface.
LEMMA ResolveGatewayFindsOurs ==
    ASSUME NEW w \in DOMAIN WorldNamed, NEW p \in Proto,
           NEW gateway \in resolveGateway[w][p]
    PROVE  gateway \in Ours
<1> DEFINE routes == Worlds[w].routes
           ifindex == Worlds[w].ifindex
           dump == [k \in 1 .. Len(routes) + 1 |->
                       IF k <= Len(routes) THEN Newroute(routes[k])
                       ELSE DumpDone]
           M == {Newroute(routes[k]) : k \in DOMAIN routes} \cup {DumpDone}
<1>0. w \in DOMAIN Worlds /\ routes \in Seq(Route)
  BY NetworkAssumption DEF WorldNamed, World
<1>1. dump \in Seq(M)
  <2>1. Len(routes) + 1 \in Nat /\ DOMAIN routes = 1 .. Len(routes)
    BY <1>0
  <2>2. dump \in [1 .. Len(routes) + 1 -> M]
    BY <2>1
  <2> QED  BY <2>1, <2>2, IsASeq
<1>2. ASSUME NEW message \in M
      PROVE  GatewayIn(p, ifindex, message) \in Ours
  <2>1. CASE message = DumpDone
    BY <2>1 DEF GatewayIn, DumpDone, Ours
  <2>2. CASE \E k \in DOMAIN routes : message = Newroute(routes[k])
    BY <1>0, <2>2, RoutesAssumption
    DEF GatewayIn, Newroute, parseDefaultRouteGateway, IsDefault,
        formatGateway, Ours
  <2> QED  BY <2>1, <2>2
<1>3. ASSUME NEW batches \in Seq(Seq(M))
      PROVE  drain(p, ifindex, batches) \in Ours
  <2> HIDE DEF M, ifindex
  <2>1. \A k, l : Reads(batches, k, l) => batches[k][l] \in M
    BY DEF Reads
  <2>2. \/ drain(p, ifindex, batches) = NoGateway
        \/ \E k, l : /\ Reads(batches, k, l)
                     /\ GatewayIn(p, ifindex, batches[k][l])
                          = drain(p, ifindex, batches)
    BY DrainFindsLastDefaultRoute
  <2> QED  BY <1>2, <2>1, <2>2 DEF Ours
<1>4. ASSUME NEW batches \in Dumps(routes), NEW n \in 0 .. 2
      PROVE  SubSeq(batches, 1, n) \in Seq(Seq(M))
  <2>1. PICK k \in DOMAIN dump :
            batches = << SubSeq(dump, 1, k), SubSeq(dump, k + 1, Len(dump)) >>
    BY DEF Dumps
  <2> HIDE DEF dump, M
  <2>2. k \in 1 .. Len(dump) /\ Len(dump) \in Nat
    BY <1>1, <2>1
  <2>3. /\ SubSeq(dump, 1, k) \in Seq(M)
        /\ SubSeq(dump, k + 1, Len(dump)) \in Seq(M)
    BY <1>1, <2>2, SubSeqProperties
  <2>4. batches \in Seq(Seq(M)) /\ Len(batches) = 2
    BY <2>1, <2>3
  <2>5. ASSUME NEW l \in 1 .. n
        PROVE  batches[l] \in Seq(M)
    <3>1. l \in 1 .. Len(batches)
      BY <2>4
    <3> QED  BY <2>4, <3>1, ElementOfSeq
  <2> QED  BY <2>5, SubSeqProperties
<1>5. CASE ifindex = None
  BY <1>0, <1>5 DEF resolveGateway, Ours
<1>6. CASE ifindex # None
  <2>1. PICK batches \in Dumps(routes),
             n \in IF "socket" \in NetFaults THEN 0 .. 2 ELSE {2} :
            gateway = drain(p, ifindex, SubSeq(batches, 1, n))
    BY <1>0, <1>6 DEF resolveGateway
  <2>2. n \in 0 .. 2
    OBVIOUS
  <2> HIDE DEF M, routes, ifindex
  <2> QED  BY <1>3, <1>4, <2>1, <2>2
<1> QED  BY <1>5, <1>6

\* The address recheck leaves everything else alone.
LEMMA RecheckInv ==
    ASSUME NEW t \in Track, GatewayOK(t), NEW found \in BOOLEAN
    PROVE  /\ maybeRecheckLocalAddress(t, found) \in Track
           /\ GatewayOK(maybeRecheckLocalAddress(t, found))
           /\ maybeRecheckLocalAddress(t, found).configured = t.configured
<1> DEFINE r == maybeRecheckLocalAddress(t, found)
<1>1. CASE ~t.configured \/ t.hasLocalAddress
  BY <1>1 DEF maybeRecheckLocalAddress
<1>2. CASE t.configured /\ ~t.hasLocalAddress /\ t.recheckTicksLeft > 0
  <2>1. r = [t EXCEPT !.recheckTicksLeft = @ - 1]
    BY <1>2 DEF maybeRecheckLocalAddress
  <2>2. t.recheckTicksLeft - 1 \in 0 .. LocalAddressRecheckTicks
    BY <1>2, CountersAssumption DEF Track
  <2> QED  BY <2>1, <2>2 DEF Track, GatewayOK, OursOK
<1>3. CASE t.configured /\ ~t.hasLocalAddress /\ ~(t.recheckTicksLeft > 0)
  <2>1. r = [t EXCEPT !.hasLocalAddress = found,
                      !.recheckTicksLeft = LocalAddressRecheckTicks]
    BY <1>3 DEF maybeRecheckLocalAddress
  <2>2. LocalAddressRecheckTicks \in 0 .. LocalAddressRecheckTicks
    BY CountersAssumption
  <2> HIDE DEF r
  <2>4. r \in Track
    BY <2>1, <2>2 DEF Track
  <2>5. ~r.gatewayReachable
    BY <1>3, <2>1 DEF Track, GatewayOK
  <2>6. GatewayOK(r)
    BY <2>1, <2>5 DEF GatewayOK, OursOK, Track
  <2>7. r.configured = t.configured
    BY <2>1 DEF Track
  <2> QED  BY <2>4, <2>6, <2>7 DEF r
<1> QED  BY <1>1, <1>2, <1>3

LEMMA CheckGatewayInv ==
    ASSUME TickInv, NEW p \in Proto, NEW t \in Track, Pinged(t), GatewayOK(t),
           t.configured = track[p].configured,
           t.failStreak >= FailStreakForGatewayCheck,
           NEW b, Buffer(b), checkGateway(p, t, b), UNCHANGED world
    PROVE  TickInv' /\ ConfiguredStays
<1>1. ASSUME NEW gateway \in Ours
      PROVE  LET r == WithGateway(t, gateway) IN
             /\ r \in Track
             /\ Pinged(r)
             /\ OursOK(r)
             /\ r.failStreak = t.failStreak
             /\ r.gatewayMode = t.gatewayMode
             /\ r.configured = t.configured
  BY DEF WithGateway, Track, Pinged, GatewayOK, OursOK, GatewayIp, Ours
<1>2. ASSUME NEW u \in Track, OursOK(u)
      PROVE  /\ Unreachable(u) \in Track
             /\ GatewayOK(Unreachable(u))
             /\ Unreachable(u).configured = u.configured
  BY <1>2 DEF Unreachable, Track, GatewayOK, OursOK
<1>3. CASE t.gatewayMode = "Disabled"
  BY <1>2, <1>3, ToNextProtoInv DEF checkGateway, GatewayOK
<1>4. CASE t.gatewayMode # "Disabled"
  <2>1. PICK gateway \in resolveGateway[world][p] :
            LET r == WithGateway(t, gateway) IN
            IF r.gatewayIp = NoGateway
            THEN ToNextProto(p, Unreachable(r), wire, b)
            ELSE \E sent \in BOOLEAN :
                    /\ MaySend(t.sock, r.gatewayIp, sent)
                    /\ IF sent THEN ToAwait(p, r, "gateway", b)
                               ELSE ToNextProto(p, Unreachable(r), wire, b)
    BY <1>4 DEF checkGateway
  <2> DEFINE r == WithGateway(t, gateway)
  <2>2. /\ r \in Track
        /\ Pinged(r)
        /\ OursOK(r)
        /\ r.failStreak = t.failStreak
        /\ r.gatewayMode = t.gatewayMode
        /\ r.configured = t.configured
    BY <1>1, ResolveGatewayFindsOurs DEF TickInv, TickTypeOK
  <2>3. CASE ToNextProto(p, Unreachable(r), wire, b)
    <3> HIDE DEF r
    <3> QED  BY <1>2, <2>2, <2>3, ToNextProtoInv
  <2>4. CASE r.gatewayIp # NoGateway /\ ToAwait(p, r, "gateway", b)
    <3> HIDE DEF r
    <3>1. GatewayOK(r)
      BY <1>4, <2>2, <2>4 DEF GatewayOK, OursOK, Pinged
    <3>2. "gateway" \in Answerer
      BY DEF Answerer
    <3> QED  BY <1>4, <2>2, <2>4, <3>1, <3>2, ToAwaitInv
  <2> QED  BY <2>1, <2>3, <2>4
<1> QED  BY <1>3, <1>4

LEMMA ToTargetLostInv ==
    ASSUME TickInv, NEW p \in Proto, NEW t \in Track, Pinged(t), GatewayOK(t),
           t.configured = track[p].configured,
           ToTargetLost(p, t), UNCHANGED world
    PROVE  TickInv' /\ ConfiguredStays
<1> DEFINE failed == [t EXCEPT !.failStreak = Lost(@)]
           b == IF SocketIsRecreated(failed) THEN << >> ELSE rx[p]
<1>1. /\ failed \in Track
      /\ failed.failStreak = Lost(t.failStreak)
  BY LostBounds DEF Track
<1>2. Buffer(b)
  <2>1. Buffer(<< >>)
    BY NetworkAssumption DEF Buffer
  <2> QED  BY <2>1 DEF Buffer, TickInv, TickTypeOK
<1>3. PICK sock \in (IF SocketIsRecreated(failed) THEN openSocket
                     ELSE {t.sock}) :
        LET reopened == [failed EXCEPT !.sock = sock] IN
        IF GatewayIsDue(failed) THEN checkGateway(p, reopened, b)
        ELSE ToNextProto(p, reopened, wire, b)
  BY DEF ToTargetLost
<1> DEFINE reopened == [failed EXCEPT !.sock = sock]
<1>4. /\ reopened \in Track
      /\ reopened.failStreak = Lost(t.failStreak)
      /\ Pinged(reopened)
      /\ GatewayOK(reopened)
      /\ reopened.configured = t.configured
  <2>1. sock \in Handle
    BY <1>3, OpenSocketType DEF Track, TickInv, TickTypeOK
  <2>2. t.failStreak >= FailStreakForGatewayCheck =>
          Lost(t.failStreak) >= FailStreakForGatewayCheck
    BY LostBounds DEF Track
  <2> QED  BY <1>1, <2>1, <2>2 DEF Track, Pinged, GatewayOK, OursOK
<1>5. CASE GatewayIsDue(failed)
  BY <1>1, <1>2, <1>3, <1>4, <1>5, CheckGatewayInv DEF GatewayIsDue
<1>6. CASE ~GatewayIsDue(failed)
  BY <1>2, <1>3, <1>4, <1>6, ToNextProtoInv
<1> QED  BY <1>5, <1>6

-----------------------------------------------------------------------------
(* The display.                                                            *)

\* The tracks as m_lastTickState remembers them.
Remembered ==
    [p \in Proto |-> [configured       |-> track[p].configured,
                      failStreak       |-> lastTickState[p][1],
                      hasLocalAddress  |-> lastTickState[p][2],
                      gatewayReachable |-> lastTickState[p][3]]]

IconOf(tracks) ==
    [severity |-> worstSeverityOf(tracks), glyph |-> glyphFor(tracks)]

Shown(tracks) ==
    /\ icon = IconOf(tracks)
    /\ tooltip = statusTextFor(tracks)

\* What is shown is what was remembered when it was drawn.
CacheInv == lastTickState # NoTickState => Shown(Remembered)

DisplayTypeOK ==
    /\ lastTickState \in
         [Proto -> (0 .. MaxFailStreak + 1) \X BOOLEAN \X BOOLEAN]
    /\ icon \in Icon
    /\ tooltip \in Tooltip

DisplayInv ==
    /\ DisplayTypeOK
    /\ DisplayFresh
    /\ CacheInv
    /\ IconAgreesWithTooltip

\* The display depends on four fields of a track.
Alike(t, u) ==
    /\ t.configured = u.configured
    /\ t.failStreak = u.failStreak
    /\ t.hasLocalAddress = u.hasLocalAddress
    /\ t.gatewayReachable = u.gatewayReachable

LEMMA AlikeShownAlike ==
    ASSUME NEW s, NEW t, \A p \in Proto : Alike(s[p], t[p])
    PROVE  /\ worstSeverityOf(s) = worstSeverityOf(t)
           /\ glyphFor(s) = glyphFor(t)
           /\ statusTextFor(s) = statusTextFor(t)
<1>1. \A p \in Proto : /\ stateOf(s[p]) = stateOf(t[p])
                       /\ severityOf(s[p]) = severityOf(t[p])
  BY DEF Alike, stateOf, severityOf
<1>2. \A p \in Proto : /\ IsHealthy(s[p]) <=> IsHealthy(t[p])
                       /\ IsBlue(s[p]) <=> IsBlue(t[p])
                       /\ IsYellow(s[p]) <=> IsYellow(t[p])
  BY <1>1 DEF IsHealthy, IsBlue, IsYellow
<1>3. worstSeverityOf(s) = worstSeverityOf(t)
  BY <1>1, <1>2 DEF worstSeverityOf
<1>4. glyphFor(s) = glyphFor(t)
  BY <1>2 DEF glyphFor
<1>5. \A p \in Proto : protoStatusText(s[p]) = protoStatusText(t[p])
  BY <1>1 DEF protoStatusText, Alike
<1> QED  BY <1>3, <1>4, <1>5 DEF statusTextFor

\* IconAgreesWithTooltip for an icon and a status text.
Agree(i, tip) ==
    /\ \A p \in i.glyph : tip[p].state # "NoLocalAddress"
    /\ i.severity = "Red" =>
         /\ i.glyph = {}
         /\ \A p \in Proto : tip[p].state # "NoLocalAddress" =>
               /\ tip[p].losses >= FailStreakForGatewayCheck
               /\ ~tip[p].gatewayReachable
    /\ (\E p \in Proto : tip[p].gatewayReachable) =>
         i.severity \in {"Green", "Blue"}

LEMMA AgreeIsInvariant == IconAgreesWithTooltip <=> Agree(icon, tooltip)
  BY DEF IconAgreesWithTooltip, Agree

LEMMA ShownType ==
    ASSUME NEW tracks \in [Proto -> Track]
    PROVE  /\ IconOf(tracks) \in Icon
           /\ statusTextFor(tracks) \in Tooltip
<1>1. worstSeverityOf(tracks) \in Severity
  BY DEF worstSeverityOf, Severity
<1>2. glyphFor(tracks) \in SUBSET Proto
  BY DEF glyphFor
<1>3. ASSUME NEW p \in Proto
      PROVE  protoStatusText(tracks[p]) \in
               [state : ProtoState, losses : 0 .. MaxFailStreak,
                gatewayReachable : BOOLEAN]
  <2>1. stateOf(tracks[p]) \in ProtoState
    BY DEF stateOf, ProtoState
  <2>2. tracks[p].failStreak \in 0 .. MaxFailStreak /\ 0 \in 0 .. MaxFailStreak
    BY CountersAssumption DEF Track
  <2>3. (stateOf(tracks[p]) = "Failing" /\ tracks[p].gatewayReachable)
          \in BOOLEAN
    OBVIOUS
  <2> QED  BY <2>1, <2>2, <2>3 DEF protoStatusText
<1> QED  BY <1>1, <1>2, <1>3 DEF IconOf, Icon, Tooltip, statusTextFor

\* Whatever is drawn from current gateway states tells one story.
LEMMA ShownAgrees ==
    ASSUME NEW tracks \in [Proto -> Track],
           \A p \in Proto : GatewayOK(tracks[p])
    PROVE  Agree(IconOf(tracks), statusTextFor(tracks))
<1> USE FailStreakForGatewayCheckAssumption
<1> DEFINE i == IconOf(tracks)
           tip == statusTextFor(tracks)
<1>1. /\ i.severity = worstSeverityOf(tracks)
      /\ i.glyph = glyphFor(tracks)
  BY DEF IconOf
<1>2. ASSUME NEW p \in Proto
      PROVE  /\ tip[p].state = stateOf(tracks[p])
             /\ stateOf(tracks[p]) = "Failing" =>
                  tip[p].losses = tracks[p].failStreak
             /\ tip[p].gatewayReachable <=>
                  stateOf(tracks[p]) = "Failing" /\ tracks[p].gatewayReachable
  BY DEF statusTextFor, protoStatusText
<1>3. ASSUME NEW p \in Proto
      PROVE  IsBlue(tracks[p]) <=>
               stateOf(tracks[p]) = "Failing" /\ tracks[p].gatewayReachable
  BY DEF IsBlue, severityOf, stateOf, GatewayOK, Track
<1>4. \A p \in i.glyph : tip[p].state # "NoLocalAddress"
  BY <1>1, <1>2, <1>3 DEF glyphFor, IsHealthy
<1>5. ASSUME i.severity = "Red"
      PROVE  /\ i.glyph = {}
             /\ \A p \in Proto : tip[p].state # "NoLocalAddress" =>
                   /\ tip[p].losses >= FailStreakForGatewayCheck
                   /\ ~tip[p].gatewayReachable
  <2>1. \A p \in Proto : /\ ~IsHealthy(tracks[p])
                         /\ ~IsBlue(tracks[p])
                         /\ ~IsYellow(tracks[p])
    BY <1>1, <1>5 DEF worstSeverityOf
  <2>2. i.glyph = {}
    BY <1>1, <2>1 DEF glyphFor
  <2>3. ASSUME NEW p \in Proto, tip[p].state # "NoLocalAddress"
        PROVE  /\ tip[p].losses >= FailStreakForGatewayCheck
               /\ ~tip[p].gatewayReachable
    <3>1. stateOf(tracks[p]) = "Failing"
      BY <1>2, <2>1, <2>3 DEF IsHealthy, stateOf
    <3>2. ~(tracks[p].failStreak < FailStreakForGatewayCheck)
      BY <2>1, <3>1 DEF IsYellow, severityOf
    <3> QED  BY <1>2, <1>3, <2>1, <3>1, <3>2 DEF Track
  <2> QED  BY <2>2, <2>3
<1>6. ASSUME NEW p \in Proto, tip[p].gatewayReachable
      PROVE  i.severity \in {"Green", "Blue"}
  BY <1>1, <1>2, <1>3, <1>6 DEF worstSeverityOf
<1> QED  BY <1>4, <1>5, <1>6 DEF Agree

-----------------------------------------------------------------------------
(* The inductive invariant.                                                *)

Inv == TickInv /\ DisplayInv

LEMMA NewTrackInv ==
    ASSUME world \in DOMAIN WorldNamed, NEW tracks \in NewTracks
    PROVE  /\ tracks \in [Proto -> Track]
           /\ \A p \in Proto : GatewayOK(tracks[p])
<1>1. PICK targets \in Configured,
           socks \in [Proto -> openSocket],
           overrides \in [Proto -> GatewayOverrides] :
        tracks = [p \in Proto |->
                    applyGatewayOverride(
                        NewTrack(p \in targets,
                                 IF p \in targets
                                 THEN socks[p] ELSE "closed"),
                        overrides[p])]
  BY DEF NewTracks
<1>2. ASSUME NEW configured \in BOOLEAN, NEW sock \in Handle
      PROVE  /\ NewTrack(configured, sock) \in Track
             /\ ~NewTrack(configured, sock).gatewayReachable
             /\ NewTrack(configured, sock).gatewayIp \in Ours
  BY CountersAssumption DEF NewTrack, Track, Mode, GatewayIp, Ours
<1>3. ASSUME NEW t \in Track, NEW override \in GatewayOverrides,
             ~t.gatewayReachable, t.gatewayIp \in Ours
      PROVE  /\ applyGatewayOverride(t, override) \in Track
             /\ GatewayOK(applyGatewayOverride(t, override))
  <2>1. override \in {"", "none", "None", "gateway", "garbage"}
    BY InputsAssumption
  <2>2. CASE gatewayModeOf(override) = "Fixed"
    <3>1. override \in GatewayIp
      BY <2>1, <2>2 DEF gatewayModeOf, toLower, GatewayIp
    <3> QED  BY <1>3, <2>2, <3>1
             DEF applyGatewayOverride, Track, Mode, GatewayOK, OursOK
  <2>3. CASE gatewayModeOf(override) # "Fixed"
    <3>1. /\ gatewayModeOf(override) \in Mode
          /\ applyGatewayOverride(t, override)
               = [t EXCEPT !.gatewayMode = gatewayModeOf(override)]
      BY <2>3 DEF applyGatewayOverride, gatewayModeOf, Mode
    <3> QED  BY <1>3, <3>1 DEF Track, GatewayOK, OursOK
  <2> QED  BY <2>2, <2>3
<1>4. ASSUME NEW p \in Proto
      PROVE  tracks[p] \in Track /\ GatewayOK(tracks[p])
  <2> DEFINE configured == p \in targets
             sock == IF configured THEN socks[p] ELSE "closed"
  <2>1. configured \in BOOLEAN /\ sock \in Handle
    BY OpenSocketType DEF Handle
  <2>2. tracks[p] = applyGatewayOverride(NewTrack(configured, sock),
                                         overrides[p])
    BY <1>1
  <2> HIDE DEF configured, sock
  <2> QED  BY <1>2, <1>3, <2>1, <2>2
<1>5. tracks = [p \in Proto |-> tracks[p]]
  BY <1>1
<1> QED  BY <1>4, <1>5

LEMMA InitInv == Init => Inv
<1> SUFFICES ASSUME Init PROVE Inv
  OBVIOUS
<1>1. /\ track \in [Proto -> Track]
      /\ \A p \in Proto : GatewayOK(track[p])
  BY NewTrackInv DEF Init, NetInit
<1>2. TickInv
  <2>1. rx \in [Proto -> Seq(Message)] /\ \A p \in Proto : Len(rx[p]) = 0
    BY DEF Init, NetInit
  <2> QED  BY <1>1, <2>1, NetworkAssumption
           DEF Init, NetInit, TickInv, TickTypeOK, Waiting, Steps, Proto
<1>3. Shown(track)
  BY DEF Init, Shown, IconOf
<1>4. DisplayTypeOK
  <2>1. MaxFailStreak + 1 \in 0 .. MaxFailStreak + 1
    BY CountersAssumption
  <2>2. lastTickState \in
          [Proto -> (0 .. MaxFailStreak + 1) \X BOOLEAN \X BOOLEAN]
    BY <2>1 DEF Init, NoTickState
  <2> QED  BY <1>1, <1>3, <2>2, ShownType DEF DisplayTypeOK, Shown
<1>5. DisplayFresh /\ CacheInv
  BY <1>3 DEF Init, DisplayFresh, Shown, IconOf, CacheInv
<1>6. IconAgreesWithTooltip
  BY <1>1, <1>3, ShownAgrees, AgreeIsInvariant DEF Shown
<1> QED  BY <1>2, <1>4, <1>5, <1>6 DEF Inv, DisplayInv

\* A step that draws nothing and does not end the tick.
LEMMA NotDrawn ==
    ASSUME DisplayInv, ConfiguredStays, UNCHANGED displayVars,
           step' = "idle" => step = "idle" /\ UNCHANGED track
    PROVE  DisplayInv'
<1>1. Remembered' = Remembered
  BY DEF ConfiguredStays, displayVars, Remembered
<1>2. CacheInv'
  BY <1>1 DEF DisplayInv, CacheInv, Shown, displayVars
<1>3. DisplayFresh'
  BY DEF DisplayInv, DisplayFresh, displayVars
<1> QED  BY <1>2, <1>3
         DEF DisplayInv, DisplayTypeOK, IconAgreesWithTooltip, displayVars

LEMMA RenderInv ==
    ASSUME Inv, Render
    PROVE  Inv'
<1>0. /\ track \in [Proto -> Track]
      /\ \A p \in Proto : GatewayOK(track[p])
      /\ track' = track
  BY DEF Inv, TickInv, TickTypeOK, Render
<1>1. TickInv'
  BY DEF Inv, TickInv, TickTypeOK, Waiting, Render, GoOn, netVars, Steps, Proto
<1>2. CASE StateChanged
  <2>1. lastTickState' = tickState(track) /\ Shown(track)'
    BY <1>0, <1>2 DEF Render, renderTray, setIcon, applyStatus, Shown,
              IconOf
  <2>2. \A p \in Proto : Alike(Remembered'[p], track'[p])
    BY <1>0, <2>1 DEF Remembered, Alike, tickState, TickStateOf
  <2>3. CacheInv'
    BY <2>1, <2>2, AlikeShownAlike DEF CacheInv, Shown, IconOf
  <2>4. DisplayFresh'
    BY <2>1 DEF DisplayFresh, Shown, IconOf
  <2>5. IconAgreesWithTooltip' /\ icon' \in Icon /\ tooltip' \in Tooltip
    <3>1. icon' = IconOf(track) /\ tooltip' = statusTextFor(track)
      BY <1>0, <2>1 DEF Shown
    <3>2. Agree(icon', tooltip')
      BY <1>0, <3>1, ShownAgrees
    <3> QED  BY <1>0, <3>1, <3>2, ShownType DEF IconAgreesWithTooltip, Agree
  <2>6. DisplayTypeOK'
    <3>1. ASSUME NEW p \in Proto
          PROVE  tickState(track)[p] \in
                   (0 .. MaxFailStreak + 1) \X BOOLEAN \X BOOLEAN
      BY <1>0, CountersAssumption DEF tickState, TickStateOf, Track
    <3> QED  BY <2>1, <2>5, <3>1 DEF DisplayTypeOK, tickState
  <2> QED  BY <1>1, <2>3, <2>4, <2>5, <2>6 DEF Inv, DisplayInv
<1>3. CASE ~StateChanged
  <2>1. /\ UNCHANGED displayVars
        /\ lastTickState = tickState(track)
    BY <1>3 DEF Render, StateChanged
  <2>2. lastTickState # NoTickState
    <3>1. "v4" \in Proto /\ track["v4"].failStreak # MaxFailStreak + 1
      BY <1>0, CountersAssumption DEF Proto, Track
    <3> QED  BY <2>1, <3>1 DEF tickState, TickStateOf, NoTickState
  <2>3. \A p \in Proto : Alike(Remembered[p], track[p])
    BY <2>1 DEF Remembered, Alike, tickState, TickStateOf
  <2>4. Shown(track)
    BY <2>2, <2>3, AlikeShownAlike DEF Inv, DisplayInv, CacheInv, Shown,
                                        IconOf
  <2>5. DisplayFresh'
    BY <1>0, <2>1, <2>4 DEF DisplayFresh, Shown, IconOf, displayVars
  <2>6. Remembered' = Remembered
    BY <1>0, <2>1 DEF Remembered, displayVars
  <2>7. CacheInv'
    BY <2>1, <2>6 DEF Inv, DisplayInv, CacheInv, Shown, displayVars
  <2> QED  BY <1>1, <2>1, <2>5, <2>7
           DEF Inv, DisplayInv, DisplayTypeOK, IconAgreesWithTooltip,
               displayVars
<1> QED  BY <1>2, <1>3

\* The network and the world never touch a track.
LEMMA NetworkInv ==
    ASSUME Inv, NetworkStep \/ WorldStep
    PROVE  Inv'
<1>0. UNCHANGED << step, proto, track, displayVars >>
  BY DEF NetworkStep, WorldStep
<1>1. TickTypeOK'
  <2>0. TickTypeOK
    BY DEF Inv, TickInv
  <2>1. CASE WorldStep
    BY <1>0, <2>0, <2>1 DEF WorldStep, WorldChanges, TickTypeOK
  <2>2. CASE NetworkStep
    <3>1. PICK p \in Proto : \/ ReplyArrives(p, track[p].sock)
                             \/ ForeignArrives(p, track[p].sock)
      BY <2>2 DEF NetworkStep
    <3>2. PICK message \in Message : Receive(p, track[p].sock, message)
      BY <2>0, <3>1
      DEF ReplyArrives, ForeignArrives, Message, TickTypeOK
    <3>3. /\ rx' \in [Proto -> Seq(Message)]
          /\ \A q \in Proto : Len(rx'[q]) <= RxCapacity
      <4>1. /\ Append(rx[p], message) \in Seq(Message)
            /\ Len(Append(rx[p], message)) = Len(rx[p]) + 1
            /\ Len(rx[p]) \in Nat
        BY <2>0, AppendProperties, LenProperties DEF TickTypeOK
      <4> QED  BY <2>0, <3>2, <4>1, NetworkAssumption DEF Receive, TickTypeOK
    <3>4. wire' \in [Proto -> SUBSET Answerer] /\ world' = world
      BY <2>0, <3>1 DEF ReplyArrives, ForeignArrives, TickTypeOK
    <3> QED  BY <1>0, <2>0, <3>3, <3>4 DEF TickTypeOK
  <2> QED  BY <2>1, <2>2
<1>2. TickInv'
  BY <1>0, <1>1 DEF Inv, TickInv, Waiting
<1>3. ConfiguredStays
  BY <1>0 DEF ConfiguredStays
<1> QED  BY <1>0, <1>2, <1>3, NotDrawn DEF Inv

LEMMA NextInv == Inv /\ [Next]_vars => Inv'
<1> SUFFICES ASSUME Inv, [Next]_vars PROVE Inv'
  OBVIOUS
<1> DEFINE t == track[proto]
<1>0. /\ TickInv
      /\ DisplayInv
      /\ proto \in Proto
      /\ t \in Track
      /\ GatewayOK(t)
      /\ Buffer(rx[proto])
  BY DEF Inv, TickInv, TickTypeOK, Buffer
<1>1. CASE TimerFires \/ Quit
  <2>1. /\ TickInv'
        /\ ConfiguredStays
        /\ UNCHANGED displayVars
        /\ step' # "idle"
    BY <1>0, <1>1
    DEF TimerFires, Quit, GoOn, netVars, TickInv, TickTypeOK, Waiting, Steps,
        Proto, ConfiguredStays
  <2> QED  BY <1>0, <2>1, NotDrawn DEF Inv
<1>2. CASE Tick
  <2>0. PICK found \in ifaceHasAddress[world][proto] :
            LET u == maybeRecheckLocalAddress(t, found) IN
            IF ~u.configured \/ ~u.hasLocalAddress
            THEN ToNextProto(proto, u, wire, rx[proto])
            ELSE \E sent \in BOOLEAN :
                    /\ MaySend(u.sock, "target", sent)
                    /\ IF sent THEN ToAwait(proto, u, "target", rx[proto])
                               ELSE ToTargetLost(proto, u)
    BY <1>2 DEF Tick
  <2> DEFINE u == maybeRecheckLocalAddress(t, found)
  <2>1. u \in Track /\ GatewayOK(u) /\ u.configured = t.configured
    <3>1. found \in BOOLEAN
      BY <1>0 DEF ifaceHasAddress, TickInv, TickTypeOK, WorldNamed
    <3> QED  BY <1>0, <3>1, RecheckInv
  <2>2. UNCHANGED << world, displayVars >>
    BY <1>2 DEF Tick
  <2>3. CASE ~u.configured \/ ~u.hasLocalAddress
    <3>1. ToNextProto(proto, u, wire, rx[proto])
      BY <2>0, <2>3
    <3>2. TickInv' /\ ConfiguredStays
      BY <1>0, <2>1, <2>2, <3>1, ToNextProtoInv
    <3>3. step' # "idle"
      BY <3>1 DEF ToNextProto, GoOn
    <3> QED  BY <1>0, <2>2, <3>2, <3>3, NotDrawn DEF Inv
  <2>4. CASE u.configured /\ u.hasLocalAddress
    <3>1. ToAwait(proto, u, "target", rx[proto]) \/ ToTargetLost(proto, u)
      BY <2>0, <2>4
    <3>2. "target" \in Answerer /\ Pinged(u)
      BY <2>4 DEF Answerer, Pinged
    <3>3. TickInv' /\ ConfiguredStays
      BY <1>0, <2>1, <2>2, <3>1, <3>2, ToAwaitInv, ToTargetLostInv
    <3>4. step' # "idle"
      BY <3>1
      DEF ToAwait, ToTargetLost, checkGateway, ToNextProto, GoOn
    <3> QED  BY <1>0, <2>2, <3>3, <3>4, NotDrawn DEF Inv
  <2> QED  BY <2>3, <2>4
<1>3. CASE RecvReply
  <2> DEFINE u == IF step = "target" THEN TargetAnswered(t)
                  ELSE GatewayAnswered(t)
  <2>1. /\ ToNextProto(proto, u, wire, Tail(rx[proto]))
        /\ UNCHANGED << world, displayVars >>
    BY <1>3 DEF RecvReply
  <2>2. u \in Track /\ GatewayOK(u) /\ u.configured = t.configured
    <3>1. 0 \in 0 .. MaxFailStreak
      BY CountersAssumption
    <3>2. CASE step = "target"
      BY <1>0, <3>1, <3>2 DEF TargetAnswered, Track, GatewayOK, OursOK
    <3>3. CASE step = "gateway"
      BY <1>0, <3>3
      DEF GatewayAnswered, Track, GatewayOK, OursOK, TickInv, Waiting, Pinged
    <3> QED  BY <1>3, <3>2, <3>3 DEF RecvReply
  <2>3. Buffer(Tail(rx[proto]))
    BY <1>0, <1>3, HeadTailProperties, LenProperties, NetworkAssumption
    DEF Buffer, RecvReply
  <2>4. TickInv' /\ ConfiguredStays
    BY <1>0, <2>1, <2>2, <2>3, ToNextProtoInv
  <2>5. step' # "idle"
    BY <2>1 DEF ToNextProto, GoOn
  <2> QED  BY <1>0, <2>1, <2>4, <2>5, NotDrawn DEF Inv
<1>4. CASE RecvOther
  <2>1. Buffer(Tail(rx[proto]))
    BY <1>0, <1>4, HeadTailProperties, LenProperties, NetworkAssumption
    DEF Buffer, RecvOther
  <2>2. TickInv' /\ ConfiguredStays
    BY <1>0, <1>4, <2>1
    DEF RecvOther, TickInv, TickTypeOK, Waiting, Buffer, ConfiguredStays
  <2>3. UNCHANGED << step, track, displayVars >>
    BY <1>4 DEF RecvOther
  <2> QED  BY <1>0, <2>2, <2>3, NotDrawn DEF Inv
<1>5. CASE RecvTimeout
  <2>1. UNCHANGED << world, displayVars >>
    BY <1>5 DEF RecvTimeout
  <2>2. CASE step = "target"
    <3>1. ToTargetLost(proto, t) /\ Pinged(t)
      BY <1>0, <1>5, <2>2 DEF RecvTimeout, TickInv, Waiting
    <3>2. TickInv' /\ ConfiguredStays
      BY <1>0, <2>1, <3>1, ToTargetLostInv
    <3>3. step' # "idle"
      BY <3>1 DEF ToAwait, ToTargetLost, checkGateway, ToNextProto, GoOn
    <3> QED  BY <1>0, <2>1, <3>2, <3>3, NotDrawn DEF Inv
  <2>3. CASE step = "gateway"
    <3>1. ToNextProto(proto, Unreachable(t), wire, rx[proto])
      BY <1>5, <2>3 DEF RecvTimeout
    <3>2. /\ Unreachable(t) \in Track
          /\ GatewayOK(Unreachable(t))
          /\ Unreachable(t).configured = t.configured
      BY <1>0 DEF Unreachable, Track, GatewayOK, OursOK
    <3>3. TickInv' /\ ConfiguredStays
      BY <1>0, <2>1, <3>1, <3>2, ToNextProtoInv
    <3>4. step' # "idle"
      BY <3>1 DEF ToNextProto, GoOn
    <3> QED  BY <1>0, <2>1, <3>3, <3>4, NotDrawn DEF Inv
  <2> QED  BY <1>5, <2>2, <2>3 DEF RecvTimeout
<1>6. CASE Render
  BY <1>6, RenderInv
<1>7. CASE NetworkStep \/ WorldStep
  BY <1>7, NetworkInv
<1>8. CASE UNCHANGED vars
  <2>1. TickInv' /\ ConfiguredStays /\ UNCHANGED << step, track, displayVars >>
    BY <1>0, <1>8
    DEF vars, netVars, TickInv, TickTypeOK, Waiting, ConfiguredStays
  <2> QED  BY <1>0, <2>1, NotDrawn DEF Inv
<1> QED  BY <1>1, <1>2, <1>3, <1>4, <1>5, <1>6, <1>7, <1>8
         DEF Next, TrayStep, Finished

-----------------------------------------------------------------------------
(* The pace of an outage: between two drawings a protocol loses one ping.  *)

\* The tick under way, if any, has not yet counted a loss of p.
Unticked(p) ==
    \/ step = "idle"
    \/ step \in {"tick", "target"} /\ proto = p
    \/ step \in {"tick", "target", "gateway"} /\ proto = "v4" /\ p = "v6"

\* How far a track may be from the state that is shown of it.
Calm(t, state) ==
    /\ ~Pinged(t) => t.failStreak = 0
    /\ state # "Failing" => t.failStreak <= 1
    /\ state = "Healthy" => Pinged(t)

Fresh(t, state) == state # "Failing" => t.failStreak = 0

\* Green is shown for a healthy protocol, or when there is none to ping.
GreenTold(i, tip) ==
    i.severity = "Green" =>
        \/ \E p \in Proto : tip[p].state = "Healthy"
        \/ \A p \in Proto : tip[p].state = "NoLocalAddress"

PaceInv ==
    /\ GreenTold(icon, tooltip)
    /\ \A p \in Proto : /\ Calm(track[p], tooltip[p].state)
                        /\ Unticked(p) => Fresh(track[p], tooltip[p].state)

InTick == step \in {"tick", "target", "gateway"} /\ UNCHANGED displayVars

LEMMA ToNextProtoPace ==
    ASSUME TickInv, PaceInv, InTick, NEW t \in Track, NEW b,
           Calm(t, tooltip[proto].state), ToNextProto(proto, t, wire, b)
    PROVE  PaceInv'
<1>1. /\ proto \in Proto
      /\ track' = [track EXCEPT ![proto] = t]
      /\ track \in [Proto -> Track]
      /\ icon' = icon
      /\ tooltip' = tooltip
  BY DEF TickInv, TickTypeOK, ToNextProto, InTick, displayVars
<1>2. ASSUME NEW p \in Proto, Unticked(p)'
      PROVE  p # proto /\ Unticked(p)
  BY <1>1, <1>2 DEF Unticked, ToNextProto, GoOn, InTick, Proto
<1>3. ASSUME NEW p \in Proto
      PROVE  /\ Calm(track'[p], tooltip'[p].state)
             /\ Unticked(p)' => Fresh(track'[p], tooltip'[p].state)
  BY <1>1, <1>2 DEF PaceInv
<1> QED  BY <1>1, <1>3 DEF PaceInv

LEMMA ToAwaitPace ==
    ASSUME TickInv, PaceInv, InTick, NEW t \in Track, NEW b,
           Calm(t, tooltip[proto].state), NEW who \in Answerer,
           who = "target" => Fresh(t, tooltip[proto].state),
           ToAwait(proto, t, who, b)
    PROVE  PaceInv'
<1>1. /\ proto \in Proto
      /\ track' = [track EXCEPT ![proto] = t]
      /\ track \in [Proto -> Track]
      /\ icon' = icon
      /\ tooltip' = tooltip
  BY DEF TickInv, TickTypeOK, ToAwait, InTick, displayVars
<1>2. ASSUME NEW p \in Proto, Unticked(p)'
      PROVE  IF p = proto THEN who = "target" ELSE Unticked(p)
  BY <1>1, <1>2 DEF Unticked, ToAwait, GoOn, InTick, Proto, Answerer
<1>3. ASSUME NEW p \in Proto
      PROVE  /\ Calm(track'[p], tooltip'[p].state)
             /\ Unticked(p)' => Fresh(track'[p], tooltip'[p].state)
  BY <1>1, <1>2 DEF PaceInv
<1> QED  BY <1>1, <1>3 DEF PaceInv

LEMMA CheckGatewayPace ==
    ASSUME TickInv, PaceInv, InTick, NEW t \in Track, NEW b,
           Calm(t, tooltip[proto].state), checkGateway(proto, t, b)
    PROVE  PaceInv'
<1> DEFINE state == tooltip[proto].state
<1>1. ASSUME NEW u \in Track, Calm(u, state)
      PROVE  Unreachable(u) \in Track /\ Calm(Unreachable(u), state)
  BY <1>1 DEF Unreachable, Track, Calm, Pinged
<1>2. ASSUME NEW gateway \in Ours
      PROVE  /\ WithGateway(t, gateway) \in Track
             /\ Calm(WithGateway(t, gateway), state)
  BY DEF WithGateway, Track, GatewayIp, Ours, Calm, Pinged
<1>3. CASE t.gatewayMode = "Disabled"
  BY <1>1, <1>3, ToNextProtoPace DEF checkGateway
<1>4. CASE t.gatewayMode # "Disabled"
  <2>1. PICK gateway \in resolveGateway[world][proto] :
            \/ ToNextProto(proto, Unreachable(WithGateway(t, gateway)), wire, b)
            \/ ToAwait(proto, WithGateway(t, gateway), "gateway", b)
    BY <1>4 DEF checkGateway
  <2>2. /\ WithGateway(t, gateway) \in Track
        /\ Calm(WithGateway(t, gateway), state)
    BY <1>2, ResolveGatewayFindsOurs DEF TickInv, TickTypeOK
  <2>3. "gateway" \in Answerer
    BY DEF Answerer
  <2> QED  BY <1>1, <2>1, <2>2, <2>3, ToNextProtoPace, ToAwaitPace
<1> QED  BY <1>3, <1>4

LEMMA ToTargetLostPace ==
    ASSUME TickInv, PaceInv, InTick, NEW t \in Track, Pinged(t),
           Fresh(t, tooltip[proto].state), ToTargetLost(proto, t)
    PROVE  PaceInv'
<1> DEFINE failed == [t EXCEPT !.failStreak = Lost(@)]
           b == IF SocketIsRecreated(failed) THEN << >> ELSE rx[proto]
<1>1. PICK sock \in (IF SocketIsRecreated(failed) THEN openSocket
                     ELSE {t.sock}) :
        LET reopened == [failed EXCEPT !.sock = sock] IN
        IF GatewayIsDue(failed) THEN checkGateway(proto, reopened, b)
        ELSE ToNextProto(proto, reopened, wire, b)
  BY DEF ToTargetLost
<1> DEFINE reopened == [failed EXCEPT !.sock = sock]
<1>2. reopened \in Track /\ Calm(reopened, tooltip[proto].state)
  <2>1. sock \in Handle
    BY <1>1, OpenSocketType DEF Track, TickInv, TickTypeOK
  <2>2. /\ Lost(t.failStreak) \in 0 .. MaxFailStreak
        /\ t.failStreak = 0 => Lost(t.failStreak) = 1
    BY CountersAssumption, FailStreakForGatewayCheckAssumption
    DEF Lost, Track
  <2>3. reopened = [t EXCEPT !.failStreak = Lost(t.failStreak), !.sock = sock]
    BY DEF Track
  <2>4. /\ reopened \in Track
        /\ reopened.failStreak = Lost(t.failStreak)
        /\ reopened.configured = t.configured
        /\ reopened.hasLocalAddress = t.hasLocalAddress
    BY <2>1, <2>2, <2>3 DEF Track
  <2> HIDE DEF reopened
  <2> QED  BY <2>2, <2>4 DEF Calm, Fresh, Pinged
<1>3. CASE GatewayIsDue(failed)
  BY <1>1, <1>2, <1>3, CheckGatewayPace
<1>4. CASE ~GatewayIsDue(failed)
  BY <1>1, <1>2, <1>4, ToNextProtoPace
<1> QED  BY <1>3, <1>4

\* What a drawing shows of the tracks as they are.
LEMMA DrawnPace ==
    ASSUME NEW tracks \in [Proto -> Track],
           \A p \in Proto : ~Pinged(tracks[p]) => tracks[p].failStreak = 0
    PROVE  /\ GreenTold(IconOf(tracks), statusTextFor(tracks))
           /\ \A p \in Proto :
                /\ Calm(tracks[p], statusTextFor(tracks)[p].state)
                /\ Fresh(tracks[p], statusTextFor(tracks)[p].state)
<1>1. ASSUME NEW p \in Proto
      PROVE  statusTextFor(tracks)[p].state = stateOf(tracks[p])
  BY DEF statusTextFor, protoStatusText
<1>2. GreenTold(IconOf(tracks), statusTextFor(tracks))
  BY <1>1 DEF GreenTold, IconOf, worstSeverityOf, IsHealthy, stateOf
<1> QED  BY <1>1, <1>2 DEF Calm, Fresh, stateOf, Pinged, Track

LEMMA NextPace ==
    ASSUME Inv, PaceInv, [Next]_vars
    PROVE  PaceInv'
<1> DEFINE t == track[proto]
           state == tooltip[proto].state
<1>0. /\ TickInv
      /\ track \in [Proto -> Track]
      /\ proto \in Proto
      /\ t \in Track
      /\ Calm(t, state)
      /\ step \in {"tick", "target"} => Fresh(t, state)
  BY DEF Inv, TickInv, TickTypeOK, PaceInv, Unticked
<1>1. CASE TimerFires \/ Quit
  BY <1>1 DEF TimerFires, Quit, GoOn, displayVars, PaceInv, Unticked
<1>2. CASE Tick
  <2>1. PICK found \in ifaceHasAddress[world][proto] :
            LET u == maybeRecheckLocalAddress(t, found) IN
            IF ~u.configured \/ ~u.hasLocalAddress
            THEN ToNextProto(proto, u, wire, rx[proto])
            ELSE \E sent \in BOOLEAN :
                    /\ MaySend(u.sock, "target", sent)
                    /\ IF sent THEN ToAwait(proto, u, "target", rx[proto])
                               ELSE ToTargetLost(proto, u)
    BY <1>2 DEF Tick
  <2> DEFINE u == maybeRecheckLocalAddress(t, found)
  <2>2. InTick
    BY <1>2 DEF Tick, InTick
  <2>3. u \in Track
    <3>1. found \in BOOLEAN
      BY <1>0 DEF ifaceHasAddress, TickInv, TickTypeOK, WorldNamed
    <3> QED  BY <1>0, <3>1, RecheckInv DEF TickInv
  <2>4. /\ u.failStreak = t.failStreak
        /\ Pinged(t) => Pinged(u)
    BY <1>0 DEF maybeRecheckLocalAddress, Track, Pinged
  <2>5. Calm(u, state) /\ Fresh(u, state)
    BY <1>0, <1>2, <2>4 DEF Calm, Fresh, Tick
  <2>6. CASE ~u.configured \/ ~u.hasLocalAddress
    <3>1. ToNextProto(proto, u, wire, rx[proto])
      BY <2>1, <2>6
    <3> HIDE DEF u
    <3> QED  BY <1>0, <2>2, <2>3, <2>5, <3>1, ToNextProtoPace
  <2>7. CASE u.configured /\ u.hasLocalAddress
    <3>1. ToAwait(proto, u, "target", rx[proto]) \/ ToTargetLost(proto, u)
      BY <2>1, <2>7
    <3>2. "target" \in Answerer /\ Pinged(u)
      BY <2>7 DEF Answerer, Pinged
    <3> HIDE DEF u
    <3> QED  BY <1>0, <2>2, <2>3, <2>5, <3>1, <3>2, ToAwaitPace,
                ToTargetLostPace
  <2> QED  BY <2>6, <2>7
<1>3. CASE RecvReply
  <2> DEFINE u == IF step = "target" THEN TargetAnswered(t)
                  ELSE GatewayAnswered(t)
  <2>1. ToNextProto(proto, u, wire, Tail(rx[proto])) /\ InTick
    BY <1>3 DEF RecvReply, InTick
  <2>2. u \in Track /\ Calm(u, state)
    <3>1. 0 \in 0 .. MaxFailStreak /\ Pinged(t)
      BY <1>0, <1>3, CountersAssumption DEF TickInv, Waiting, RecvReply
    <3>2. t \in Track /\ Calm(t, state)
      BY <1>0
    <3> HIDE DEF t, state
    <3>3. CASE step = "target"
      <4>1. /\ u \in Track /\ u.failStreak = 0
            /\ u.configured = t.configured
            /\ u.hasLocalAddress = t.hasLocalAddress
        BY <3>1, <3>2, <3>3 DEF TargetAnswered, Track
      <4> HIDE DEF u
      <4> QED  BY <3>1, <4>1 DEF Calm, Pinged
    <3>4. CASE step # "target"
      <4>1. /\ u \in Track /\ u.failStreak = t.failStreak
            /\ u.configured = t.configured
            /\ u.hasLocalAddress = t.hasLocalAddress
        BY <3>2, <3>4 DEF GatewayAnswered, Track
      <4> QED  BY <3>2, <4>1 DEF Calm, Pinged
    <3> QED  BY <3>3, <3>4
  <2> HIDE DEF u
  <2> QED  BY <1>0, <2>1, <2>2, ToNextProtoPace
<1>4. CASE RecvOther
  BY <1>4 DEF RecvOther, displayVars, PaceInv, Unticked
<1>5. CASE RecvTimeout
  <2>1. InTick
    BY <1>5 DEF RecvTimeout, InTick
  <2>2. CASE step = "target"
    <3>1. ToTargetLost(proto, t) /\ Pinged(t)
      BY <1>0, <1>5, <2>2 DEF RecvTimeout, TickInv, Waiting
    <3> QED  BY <1>0, <2>1, <2>2, <3>1, ToTargetLostPace
  <2>3. CASE step = "gateway"
    <3>1. ToNextProto(proto, Unreachable(t), wire, rx[proto])
      BY <1>5, <2>3 DEF RecvTimeout
    <3>2. Unreachable(t) \in Track /\ Calm(Unreachable(t), state)
      BY <1>0 DEF Unreachable, Track, Calm, Pinged
    <3> QED  BY <1>0, <2>1, <3>1, <3>2, ToNextProtoPace
  <2> QED  BY <1>5, <2>2, <2>3 DEF RecvTimeout
<1>6. CASE Render
  <2>1. track' = track /\ step' = "idle"
    BY <1>6 DEF Render, GoOn
  <2>2. DisplayFresh'
    BY NextInv DEF Inv, DisplayInv
  <2>3. icon' = IconOf(track) /\ tooltip' = statusTextFor(track)
    BY <2>1, <2>2 DEF DisplayFresh, IconOf
  <2>4. \A p \in Proto : ~Pinged(track[p]) => track[p].failStreak = 0
    BY DEF PaceInv, Calm
  <2> QED  BY <1>0, <2>1, <2>3, <2>4, DrawnPace DEF PaceInv
<1>7. CASE NetworkStep \/ WorldStep \/ UNCHANGED vars
  BY <1>7 DEF NetworkStep, WorldStep, vars, displayVars, PaceInv, Unticked
<1> QED  BY <1>1, <1>2, <1>3, <1>4, <1>5, <1>6, <1>7
         DEF Next, TrayStep, Finished

\* Before the first tick nothing is lost.
LEMMA InitPace == Init => PaceInv
<1> SUFFICES ASSUME Init PROVE PaceInv
  OBVIOUS
<1>1. track \in [Proto -> Track]
  BY InitInv DEF Inv, TickInv, TickTypeOK
<1>2. ASSUME NEW p \in Proto
      PROVE  track[p].failStreak = 0
  <2>1. ASSUME NEW configured, NEW sock, NEW override
        PROVE  applyGatewayOverride(NewTrack(configured, sock), override)
                 .failStreak = 0
    BY DEF applyGatewayOverride, NewTrack
  <2> QED  BY <2>1 DEF Init, NewTracks
<1>3. icon = IconOf(track) /\ tooltip = statusTextFor(track)
  BY DEF Init, IconOf
<1> QED  BY <1>1, <1>2, <1>3, DrawnPace DEF PaceInv

\* A drawing never turns green to red.
LEMMA NoRedAfterGreen ==
    ASSUME FailStreakForGatewayCheck > 1, Inv, PaceInv, Render,
           icon.severity = "Green"
    PROVE  icon'.severity # "Red"
<1>1. track \in [Proto -> Track]
  BY DEF Inv, TickInv, TickTypeOK
<1>2. CASE ~StateChanged
  BY <1>2 DEF Render, displayVars
<1>3. CASE StateChanged
  <2>1. icon'.severity = worstSeverityOf(track)
    BY <1>3 DEF Render, renderTray, setIcon
  <2>2. ASSUME NEW p \in Proto, tooltip[p].state # "Failing",
               stateOf(track[p]) = "Failing"
        PROVE  IsYellow(track[p])
    BY <1>1, <2>2, FailStreakForGatewayCheckAssumption
    DEF PaceInv, Calm, IsYellow, severityOf, Track
  <2>3. CASE \E p \in Proto : tooltip[p].state = "Healthy"
    <3>1. PICK p \in Proto : tooltip[p].state = "Healthy"
      BY <2>3
    <3>2. IsHealthy(track[p]) \/ IsYellow(track[p])
      BY <2>2, <3>1 DEF PaceInv, Calm, Pinged, stateOf, IsHealthy
    <3> QED  BY <2>1, <3>2 DEF worstSeverityOf
  <2>4. CASE \A p \in Proto : tooltip[p].state = "NoLocalAddress"
    BY <2>1, <2>2, <2>4 DEF worstSeverityOf
  <2> QED  BY <2>3, <2>4 DEF PaceInv, GreenTold
<1> QED  BY <1>2, <1>3

-----------------------------------------------------------------------------
(* The tray implements the abstract rounds of pings (PingRounds).          *)

\* The names that the steps of the two specifications share.
StatusBecomes(p, t) == Statuses' = [Statuses EXCEPT ![p] = StatusOf(t)]

LEMMA StatusesExcept ==
    ASSUME TickInv, NEW t, track' = [track EXCEPT ![proto] = t]
    PROVE  StatusBecomes(proto, t)
  BY DEF TickInv, TickTypeOK, Statuses, StatusBecomes

LEMMA DisplayStays ==
    ASSUME UNCHANGED displayVars
    PROVE  Display' = Display
  BY DEF displayVars, Display

\* A protocol that is done leaves the round, and its gateway is not asked.
LEMMA ToNextProtoRounds ==
    ASSUME TickInv, InTick, NEW t, NEW b, ToNextProto(proto, t, wire, b)
    PROVE  /\ StatusBecomes(proto, t)
           /\ Due' = Due \ {proto}
           /\ Asked' = {}
           /\ InRound /\ InRound'
           /\ Display' = Display
<1>1. /\ step \in {"tick", "target", "gateway"}
      /\ proto \in {"v4", "v6"}
  BY DEF InTick, TickInv, TickTypeOK, Proto
<1>2. IF proto = "v4" THEN step' = "tick" /\ proto' = "v6"
                      ELSE step' = "render" /\ proto' = "v4"
  BY DEF ToNextProto, GoOn
<1>3. Due' = Due \ {proto}
  BY <1>1, <1>2 DEF Due, Proto
<1>4. Asked' = {} /\ InRound /\ InRound'
  BY <1>1, <1>2 DEF Asked, InRound
<1>5. StatusBecomes(proto, t)
  BY StatusesExcept DEF ToNextProto
<1> QED  BY <1>3, <1>4, <1>5, DisplayStays DEF InTick

\* A protocol whose gateway is asked has had its outcome.
LEMMA ToAwaitRounds ==
    ASSUME TickInv, InTick, step # "gateway", NEW t, NEW b,
           NEW who \in Answerer, who = "target" => step = "tick",
           ToAwait(proto, t, who, b)
    PROVE  /\ StatusBecomes(proto, t)
           /\ Due' = IF who = "target" THEN Due ELSE Due \ {proto}
           /\ Asked' = IF who = "target" THEN Asked ELSE Asked \cup {proto}
           /\ InRound /\ InRound'
           /\ Display' = Display
<1>1. /\ step \in {"tick", "target"}
      /\ proto \in {"v4", "v6"}
      /\ step' = who /\ proto' = proto
      /\ who \in {"target", "gateway"}
  BY DEF InTick, TickInv, TickTypeOK, Proto, ToAwait, GoOn, Answerer
<1>2. /\ Due' = IF who = "target" THEN Due ELSE Due \ {proto}
      /\ Asked' = IF who = "target" THEN Asked ELSE Asked \cup {proto}
  BY <1>1 DEF Due, Asked, Proto
<1>3. InRound /\ InRound'
  BY <1>1 DEF InRound
<1>4. StatusBecomes(proto, t)
  BY StatusesExcept DEF ToAwait
<1> QED  BY <1>2, <1>3, <1>4, DisplayStays DEF InTick

\* The bounded count reaches the threshold when the abstract one does, and
\* wraps above it.
LEMMA OneMoreLoss ==
    ASSUME NEW n \in 0 .. MaxFailStreak
    PROVE  /\ Capped(Lost(n)) = Rounds!OneMore(Capped(n))
           /\ Lost(n) >= FailStreakForGatewayCheck =>
                Capped(Lost(n)) = FailStreakForGatewayCheck
  BY CountersAssumption, FailStreakForGatewayCheckAssumption
  DEF Lost, Capped, Rounds!OneMore

\* An address of this interface is found only where there is one.
LEMMA FoundIsAddressable ==
    ASSUME TickInv, TRUE \in ifaceHasAddress[world][proto]
    PROVE  proto \in Addressable
<1>1. proto \in Proto /\ world \in DOMAIN Worlds
  BY DEF TickInv, TickTypeOK, WorldNamed
<1>2. \E a \in Worlds[world].addrs : matchesIfaceAddress(a, proto)
  BY <1>1 DEF ifaceHasAddress
<1> QED  BY <1>1, <1>2 DEF Addressable, Addressed, matchesIfaceAddress

\* What is left to do for a loss once its gateway is asked or not.
LEMMA LossEnds ==
    ASSUME TickInv, InTick, step # "gateway",
           Pinged(track[proto]) \/ proto \in Addressable,
           NEW u \in Track, Pinged(u),
           u.failStreak = Lost(track[proto].failStreak),
           NEW b,
           \/ ToNextProto(proto, u, wire, b) /\ ~u.gatewayReachable
           \/ /\ ToAwait(proto, u, "gateway", b)
              /\ u.failStreak >= FailStreakForGatewayCheck
              /\ u.gatewayReachable = track[proto].gatewayReachable
    PROVE  Rounds!Lost(proto)
<1> DEFINE losses == Rounds!OneMore(Statuses[proto].losses)
<1>1. /\ proto \in Proto
      /\ track[proto] \in Track
      /\ Statuses[proto] = StatusOf(track[proto])
  BY DEF TickInv, TickTypeOK, Statuses
<1>2. proto \in Due
  <2>1. step \in {"tick", "target"} /\ proto \in {"v4", "v6"}
    BY <1>1 DEF InTick, Proto
  <2> QED  BY <2>1 DEF Due, Proto
<1>3. Statuses[proto].pinged \/ proto \in Addressable
  <2>1. Statuses[proto].pinged
          = (track[proto].configured /\ track[proto].hasLocalAddress)
    BY <1>1 DEF StatusOf
  <2> QED  BY <2>1, Zenon DEF Pinged
<1>4. /\ StatusOf(u) = [pinged |-> TRUE, losses |-> losses,
                        upstream |-> u.gatewayReachable]
      /\ u.failStreak >= FailStreakForGatewayCheck =>
            losses = FailStreakForGatewayCheck
  <2>1. track[proto].failStreak \in 0 .. MaxFailStreak
    BY <1>1 DEF Track
  <2>2. losses = Capped(u.failStreak)
    BY <1>1, <2>1, OneMoreLoss DEF StatusOf
  <2>3. u.failStreak >= FailStreakForGatewayCheck =>
            Capped(u.failStreak) = FailStreakForGatewayCheck
    BY <2>1, OneMoreLoss
  <2>4. (u.configured /\ u.hasLocalAddress) = TRUE
    BY DEF Pinged
  <2> HIDE DEF losses
  <2> QED  BY <2>2, <2>3, <2>4 DEF StatusOf
<1>5. /\ u.gatewayReachable \in BOOLEAN
      /\ Statuses[proto].upstream = track[proto].gatewayReachable
  BY <1>1 DEF Track, StatusOf
<1>6. CASE ToNextProto(proto, u, wire, b) /\ ~u.gatewayReachable
  <2>1. /\ Statuses' = [Statuses EXCEPT ![proto] = StatusOf(u)]
        /\ Due' = Due \ {proto}
        /\ Asked' = {}
        /\ InRound' = InRound
        /\ Display' = Display
    BY <1>6, ToNextProtoRounds DEF StatusBecomes, InRound
  <2>2. Asked = {}
    BY DEF Asked
  <2> HIDE DEF losses
  <2> QED  BY <1>2, <1>3, <1>4, <1>5, <1>6, <2>1, <2>2 DEF Rounds!Lost, losses
<1>7. CASE /\ ToAwait(proto, u, "gateway", b)
           /\ u.failStreak >= FailStreakForGatewayCheck
           /\ u.gatewayReachable = track[proto].gatewayReachable
  <2>1. /\ Statuses' = [Statuses EXCEPT ![proto] = StatusOf(u)]
        /\ Due' = Due \ {proto}
        /\ Asked' = Asked \cup {proto}
        /\ InRound' = InRound
        /\ Display' = Display
    BY <1>7, ToAwaitRounds DEF StatusBecomes, InRound, Answerer
  <2> HIDE DEF losses
  <2> QED  BY <1>2, <1>3, <1>4, <1>5, <1>7, <2>1 DEF Rounds!Lost, losses
<1> QED  BY <1>6, <1>7

\* A ping of the target that is lost, with all that follows.
LEMMA LossIsLost ==
    ASSUME TickInv, InTick, step # "gateway",
           Pinged(track[proto]) \/ proto \in Addressable,
           NEW t \in Track, Pinged(t), GatewayOK(t),
           t.failStreak = track[proto].failStreak,
           t.gatewayReachable = track[proto].gatewayReachable,
           ToTargetLost(proto, t)
    PROVE  Rounds!Lost(proto)
<1> DEFINE failed == [t EXCEPT !.failStreak = Lost(@)]
           b == IF SocketIsRecreated(failed) THEN << >> ELSE rx[proto]
           n == Lost(track[proto].failStreak)
<1>1. PICK sock \in (IF SocketIsRecreated(failed) THEN openSocket
                     ELSE {t.sock}) :
        LET reopened == [failed EXCEPT !.sock = sock] IN
        IF GatewayIsDue(failed) THEN checkGateway(proto, reopened, b)
        ELSE ToNextProto(proto, reopened, wire, b)
  BY DEF ToTargetLost
<1> DEFINE r == [failed EXCEPT !.sock = sock]
           Lossy(u) == u \in Track /\ Pinged(u) /\ u.failStreak = n
<1>2. /\ Lossy(r)
      /\ r.gatewayReachable = track[proto].gatewayReachable
      /\ GatewayIsDue(failed) <=> n >= FailStreakForGatewayCheck
      /\ r.gatewayReachable => n >= FailStreakForGatewayCheck
  <2>1. sock \in Handle
    BY <1>1, OpenSocketType DEF Track, TickInv, TickTypeOK
  <2>2. /\ n \in 1 .. MaxFailStreak
        /\ t.failStreak >= FailStreakForGatewayCheck =>
              n >= FailStreakForGatewayCheck
    BY LostBounds DEF Track
  <2>3. failed \in Track /\ failed.failStreak = n
    BY <2>2 DEF Track
  <2> HIDE DEF n
  <2> QED  BY <2>1, <2>2, <2>3
           DEF Track, Pinged, GatewayIsDue, GatewayOK
<1> HIDE DEF r
<1>3. ASSUME NEW u, Lossy(u)
      PROVE  Lossy(Unreachable(u)) /\ ~Unreachable(u).gatewayReachable
  BY <1>3 DEF Unreachable, Track, Pinged
<1> HIDE DEF n
<1>4. CASE ~GatewayIsDue(failed)
  BY <1>1, <1>2, <1>4, LossEnds DEF r, n
<1>5. CASE GatewayIsDue(failed)
  <2>1. checkGateway(proto, r, b)
    BY <1>1, <1>5 DEF r
  <2>2. CASE r.gatewayMode = "Disabled"
    BY <1>2, <1>3, <2>1, <2>2, LossEnds DEF checkGateway, n
  <2>3. CASE r.gatewayMode # "Disabled"
    <3>1. PICK gateway \in resolveGateway[world][proto] :
              \/ ToNextProto(proto, Unreachable(WithGateway(r, gateway)),
                             wire, b)
              \/ ToAwait(proto, WithGateway(r, gateway), "gateway", b)
      BY <2>1, <2>3 DEF checkGateway
    <3> DEFINE u == WithGateway(r, gateway)
    <3>2. Lossy(u) /\ u.gatewayReachable = r.gatewayReachable
      <4>1. gateway \in Ours
        BY ResolveGatewayFindsOurs DEF TickInv, TickTypeOK
      <4> QED  BY <1>2, <4>1
               DEF WithGateway, Track, GatewayIp, Ours, Pinged
    <3> HIDE DEF u
    <3>3. CASE ToNextProto(proto, Unreachable(u), wire, b)
      BY <1>3, <3>2, <3>3, LossEnds DEF n
    <3>4. CASE ToAwait(proto, u, "gateway", b)
      BY <1>2, <1>5, <3>2, <3>4, LossEnds DEF n
    <3> QED  BY <3>1, <3>3, <3>4 DEF u
  <2> QED  BY <2>2, <2>3
<1> QED  BY <1>4, <1>5

\* What is drawn from a reachable set of tracks is what the abstract
\* specification draws from their statuses.
LEMMA DrawnIsDrawing ==
    ASSUME NEW tracks \in [Proto -> Track],
           \A p \in Proto : /\ GatewayOK(tracks[p])
                            /\ ~Pinged(tracks[p]) => tracks[p].failStreak = 0
    PROVE  [colour |-> IconOf(tracks).severity,
            glyph  |-> IconOf(tracks).glyph,
            told   |-> [p \in Proto |-> ToldBy(statusTextFor(tracks)[p])]]
             = Rounds!Drawing([p \in Proto |-> StatusOf(tracks[p])])
<1> USE FailStreakForGatewayCheckAssumption
<1> DEFINE st == [p \in Proto |-> StatusOf(tracks[p])]
<1>1. ASSUME NEW p \in Proto
      PROVE  /\ st[p].pinged <=> stateOf(tracks[p]) # "NoLocalAddress"
             /\ st[p].pinged = Pinged(tracks[p])
             /\ Rounds!Up(st[p]) <=> IsHealthy(tracks[p])
             /\ st[p].upstream = tracks[p].gatewayReachable
             /\ st[p].upstream <=> IsBlue(tracks[p])
             /\ Rounds!Warned(st[p]) <=> IsYellow(tracks[p])
             /\ stateOf(tracks[p]) \in ProtoState
  <2>1. tracks[p] \in Track /\ GatewayOK(tracks[p])
        /\ (~Pinged(tracks[p]) => tracks[p].failStreak = 0)
    OBVIOUS
  <2>2. st[p] = StatusOf(tracks[p])
    OBVIOUS
  <2> HIDE DEF st
  <2> QED  BY <2>1, <2>2
           DEF StatusOf, Capped, Pinged, stateOf, severityOf, IsHealthy,
               IsBlue, IsYellow, GatewayOK, Track, Rounds!Up, Rounds!Warned,
               ProtoState
<1>2. worstSeverityOf(tracks) = Rounds!Colour(st)
  <2> HIDE DEF st
  <2>1. ASSUME NEW p \in Proto
        PROVE  stateOf(tracks[p]) = "Failing" <=>
                  st[p].pinged /\ ~Rounds!Up(st[p])
    BY <1>1 DEF IsHealthy, ProtoState
  <2>2. /\ (\E p \in Proto : IsHealthy(tracks[p])) <=>
              \E p \in Proto : Rounds!Up(st[p])
        /\ (\E p \in Proto : IsBlue(tracks[p])) <=>
              \E p \in Proto : st[p].upstream
        /\ (\E p \in Proto : IsYellow(tracks[p])) <=>
              \E p \in Proto : Rounds!Warned(st[p])
    BY <1>1
  <2>3. CASE \A p \in Proto : ~st[p].pinged
    BY <1>1, <2>1, <2>3
    DEF worstSeverityOf, Rounds!Colour, IsHealthy, IsYellow, IsBlue,
        GatewayOK, Pinged
  <2>4. CASE \E p \in Proto : st[p].pinged
    <3>1. \/ \E p \in Proto : Rounds!Up(st[p])
          \/ \E p \in Proto : stateOf(tracks[p]) = "Failing"
      BY <2>1, <2>4
    <3> QED  BY <2>2, <2>4, <3>1 DEF worstSeverityOf, Rounds!Colour
  <2> QED  BY <2>3, <2>4
<1>3. glyphFor(tracks) = {p \in Proto : Rounds!Up(st[p]) \/ st[p].upstream}
  <2> HIDE DEF st
  <2> QED  BY <1>1 DEF glyphFor
<1>4. [p \in Proto |-> ToldBy(statusTextFor(tracks)[p])] = st
  <2>1. ASSUME NEW p \in Proto
        PROVE  ToldBy(statusTextFor(tracks)[p]) = StatusOf(tracks[p])
    <3>1. tracks[p] \in Track /\ GatewayOK(tracks[p])
          /\ (~Pinged(tracks[p]) => tracks[p].failStreak = 0)
      OBVIOUS
    <3>2. ToldBy(statusTextFor(tracks)[p])
            = [pinged   |-> stateOf(tracks[p]) # "NoLocalAddress",
               losses   |-> Capped(IF stateOf(tracks[p]) = "Failing"
                                   THEN tracks[p].failStreak ELSE 0),
               upstream |-> stateOf(tracks[p]) = "Failing"
                              /\ tracks[p].gatewayReachable]
      BY DEF ToldBy, statusTextFor, protoStatusText
    <3>3. /\ (stateOf(tracks[p]) # "NoLocalAddress")
               = (tracks[p].configured /\ tracks[p].hasLocalAddress)
          /\ (IF stateOf(tracks[p]) = "Failing" THEN tracks[p].failStreak
              ELSE 0) = tracks[p].failStreak
          /\ (stateOf(tracks[p]) = "Failing" /\ tracks[p].gatewayReachable)
               = tracks[p].gatewayReachable
      BY <3>1 DEF stateOf, Pinged, GatewayOK, Track
    <3> QED  BY <3>2, <3>3 DEF StatusOf
  <2> QED  BY <2>1
<1> QED  BY <1>2, <1>3, <1>4 DEF IconOf, Rounds!Drawing

\* Rounds are drawn from what the tray starts with.
LEMMA InitRounds == Init => Rounds!Init
<1> SUFFICES ASSUME Init PROVE Rounds!Init
  OBVIOUS
<1>1. /\ track \in [Proto -> Track]
      /\ \A p \in Proto : GatewayOK(track[p])
  BY InitInv DEF Inv, TickInv, TickTypeOK
<1>2. ASSUME NEW p \in Proto
      PROVE  /\ StatusOf(track[p]) = Rounds!Unknown
             /\ track[p].failStreak = 0
  <2>1. ASSUME NEW configured, NEW sock, NEW override
        PROVE  LET t == applyGatewayOverride(NewTrack(configured, sock),
                                             override)
               IN  /\ t.failStreak = 0
                   /\ t.hasLocalAddress = FALSE
                   /\ t.gatewayReachable = FALSE
    BY DEF applyGatewayOverride, NewTrack
  <2>a. PICK configured, sock, override :
            track[p] = applyGatewayOverride(NewTrack(configured, sock), override)
    BY DEF Init, NewTracks
  <2>2. /\ track[p].failStreak = 0
        /\ track[p].hasLocalAddress = FALSE
        /\ track[p].gatewayReachable = FALSE
    BY <2>1, <2>a
  <2>3. Capped(0) = 0
    BY FailStreakForGatewayCheckAssumption DEF Capped
  <2>4. (track[p].configured /\ track[p].hasLocalAddress) = FALSE
    BY <2>2
  <2> QED  BY <2>2, <2>3, <2>4 DEF StatusOf, Rounds!Unknown
<1>3. Statuses = [p \in Proto |-> Rounds!Unknown]
  BY <1>2 DEF Statuses
<1>4. Display = Rounds!Drawing(Statuses)
  BY <1>1, <1>2, DrawnIsDrawing DEF Init, Display, IconOf, Statuses
<1>5. InRound = FALSE /\ Due = {} /\ Asked = {}
  BY DEF Init, InRound, Due, Asked
<1> QED  BY <1>3, <1>4, <1>5 DEF Rounds!Init

LEMMA UpstreamSet ==
    ASSUME NEW t, NEW u,
           u.configured = t.configured,
           u.hasLocalAddress = t.hasLocalAddress,
           u.failStreak = t.failStreak
    PROVE  StatusOf(u) = [StatusOf(t) EXCEPT !.upstream = u.gatewayReachable]
<1>1. PICK r : r = StatusOf(t)
  OBVIOUS
<1>2. PICK pinged : pinged = Pinged(t)
  OBVIOUS
<1>3. r = [pinged   |-> pinged,
           losses   |-> Capped(t.failStreak),
           upstream |-> t.gatewayReachable]
  BY <1>1, <1>2 DEF StatusOf, Pinged
<1>4. StatusOf(u) = [pinged   |-> pinged,
                     losses   |-> Capped(t.failStreak),
                     upstream |-> u.gatewayReachable]
  BY <1>2 DEF StatusOf, Pinged
<1>5. StatusOf(u) = [r EXCEPT !.upstream = u.gatewayReachable]
  BY <1>3, <1>4
<1> QED  BY <1>1, <1>5

\* Every step of the tray is a step of its rounds, or none.
LEMMA NextRounds ==
    ASSUME Inv, PaceInv, [Next]_vars
    PROVE  [Rounds!Next]_(Rounds!vars)
<1> DEFINE t == track[proto]
           Silent == /\ UNCHANGED << Statuses, Display, Due, Asked >>
                     /\ InRound' = InRound
<1>0. /\ TickInv
      /\ proto \in Proto
      /\ t \in Track
      /\ GatewayOK(t)
      /\ Statuses[proto] = StatusOf(t)
      /\ StatusOf(t).pinged = Pinged(t)
  BY DEF Inv, TickInv, TickTypeOK, Statuses, StatusOf, Pinged
<1>a. ASSUME Silent
      PROVE  [Rounds!Next]_(Rounds!vars)
  BY <1>a DEF Rounds!vars
<1>b. ASSUME NEW p \in Proto, Rounds!Outcome(p)
      PROVE  [Rounds!Next]_(Rounds!vars)
  BY <1>b DEF Rounds!Next
<1>c. step \in {"tick", "target"} => proto \in Due
  BY <1>0 DEF Due, Proto
<1>1. CASE TimerFires
  <2>1. /\ UNCHANGED << Statuses, Display, Asked >>
        /\ ~InRound /\ InRound'
        /\ Due' = Proto
    BY <1>1
    DEF TimerFires, GoOn, displayVars, Statuses, Display, InRound, Due, Asked
  <2>2. InRound' = TRUE
    BY <2>1 DEF InRound
  <2> QED  BY <2>1, <2>2 DEF Rounds!Begin, Rounds!Next
<1>2. CASE Tick
  <2>1. PICK found \in ifaceHasAddress[world][proto] :
            LET u == maybeRecheckLocalAddress(t, found) IN
            IF ~u.configured \/ ~u.hasLocalAddress
            THEN ToNextProto(proto, u, wire, rx[proto])
            ELSE \E sent \in BOOLEAN :
                    /\ MaySend(u.sock, "target", sent)
                    /\ IF sent THEN ToAwait(proto, u, "target", rx[proto])
                               ELSE ToTargetLost(proto, u)
    BY <1>2 DEF Tick
  <2> DEFINE u == maybeRecheckLocalAddress(t, found)
  <2>2. InTick /\ step = "tick"
    BY <1>2 DEF Tick, InTick
  <2>3. found \in BOOLEAN
    BY <1>0 DEF ifaceHasAddress, TickInv, TickTypeOK, WorldNamed
  <2>4. u \in Track /\ GatewayOK(u)
    BY <1>0, <2>3, RecheckInv
  <2>5. /\ u.failStreak = t.failStreak
        /\ u.gatewayReachable = t.gatewayReachable
        /\ Pinged(t) => Pinged(u)
        /\ Pinged(u) /\ ~Pinged(t) => found
    BY <1>0, <2>3 DEF maybeRecheckLocalAddress, Track, Pinged
  <2>6. StatusOf(u) = [StatusOf(t) EXCEPT !.pinged = Pinged(u)]
    BY <2>5 DEF StatusOf, Pinged
  <2>7. Pinged(t) \/ ~Pinged(u) \/ proto \in Addressable
    BY <1>0, <2>3, <2>5, FoundIsAddressable
  <2>8. Statuses' = [Statuses EXCEPT ![proto] = StatusOf(u)]
          => Statuses' = [Statuses EXCEPT ![proto].pinged = Pinged(u)]
    BY <1>0, <2>6
  <2>9. CASE ~Pinged(u)
    <3>1. ToNextProto(proto, u, wire, rx[proto])
      BY <2>1, <2>9 DEF Pinged
    <3> HIDE DEF u
    <3>2. /\ Statuses' = [Statuses EXCEPT ![proto] = StatusOf(u)]
          /\ Due' = Due \ {proto}
          /\ Asked' = {}
          /\ InRound' = InRound
          /\ Display' = Display
      BY <1>0, <2>2, <3>1, ToNextProtoRounds DEF StatusBecomes, InRound
    <3>3. ~Pinged(t) /\ ~StatusOf(t).pinged
      BY <1>0, <2>5, <2>9
    <3>4. StatusOf(u) = StatusOf(t)
      BY <2>6, <2>9, <3>3 DEF StatusOf, Pinged
    <3>5. Statuses' = Statuses
      BY <1>0, <3>2, <3>4 DEF Statuses
    <3>6. Asked = {}
      BY <2>2 DEF Asked
    <3>7. Rounds!Skip(proto)
      BY <1>0, <1>c, <2>2, <3>2, <3>3, <3>5, <3>6 DEF Rounds!Skip
    <3> QED  BY <1>0, <1>b, <3>7 DEF Rounds!Outcome
  <2>10. CASE Pinged(u) /\ ToAwait(proto, u, "target", rx[proto])
    <3> HIDE DEF u
    <3>1. /\ Statuses' = [Statuses EXCEPT ![proto] = StatusOf(u)]
          /\ Due' = Due
          /\ Asked' = Asked
          /\ InRound' = InRound
          /\ Display' = Display
      BY <1>0, <2>2, <2>10, ToAwaitRounds DEF StatusBecomes, InRound, Answerer
    <3>2. CASE Pinged(t)
      <4>1. StatusOf(u) = StatusOf(t)
        BY <2>6, <2>10, <3>2 DEF StatusOf, Pinged
      <4> QED  BY <1>0, <1>a, <3>1, <4>1 DEF Statuses
    <3>3. CASE ~Pinged(t)
      <4>1. Statuses' = [Statuses EXCEPT ![proto].pinged = TRUE]
        BY <2>8, <2>10, <3>1
      <4>2. Rounds!FindAddress(proto)
        BY <1>0, <1>c, <2>2, <2>7, <2>10, <3>1, <3>3, <4>1
        DEF Rounds!FindAddress
      <4> QED  BY <1>0, <1>b, <4>2 DEF Rounds!Outcome
    <3> QED  BY <3>2, <3>3
  <2>11. CASE Pinged(u) /\ ToTargetLost(proto, u)
    <3> HIDE DEF u
    <3>1. Rounds!Lost(proto)
      BY <1>0, <2>2, <2>4, <2>5, <2>7, <2>11, LossIsLost
    <3> QED  BY <1>0, <1>b, <3>1 DEF Rounds!Outcome
  <2> QED  BY <2>1, <2>9, <2>10, <2>11 DEF Pinged
<1>3. CASE RecvReply /\ step = "target"
  <2>1. /\ ToNextProto(proto, TargetAnswered(t), wire, Tail(rx[proto]))
        /\ InTick
        /\ Pinged(t)
    BY <1>0, <1>3 DEF RecvReply, InTick, TickInv, Waiting
  <2>2. StatusOf(TargetAnswered(t))
          = [pinged |-> TRUE, losses |-> 0, upstream |-> FALSE]
    <3>1. /\ TargetAnswered(t).failStreak = 0
          /\ TargetAnswered(t).gatewayReachable = FALSE
          /\ TargetAnswered(t).configured /\ TargetAnswered(t).hasLocalAddress
      BY <1>0, <2>1 DEF TargetAnswered, Track, Pinged
    <3>2. Capped(0) = 0
      BY FailStreakForGatewayCheckAssumption DEF Capped
    <3> QED  BY <3>1, <3>2 DEF StatusOf
  <2>3. /\ Statuses' = [Statuses EXCEPT ![proto] =
                          [pinged |-> TRUE, losses |-> 0, upstream |-> FALSE]]
        /\ Due' = Due \ {proto}
        /\ Asked' = {}
        /\ InRound' = InRound
        /\ Display' = Display
    BY <1>0, <2>1, <2>2, ToNextProtoRounds DEF StatusBecomes, InRound
  <2>4. Asked = {}
    BY <1>3 DEF Asked
  <2>5. Rounds!Answered(proto)
    BY <1>0, <1>3, <1>c, <2>1, <2>3, <2>4 DEF Rounds!Answered
  <2> QED  BY <1>0, <1>b, <2>5 DEF Rounds!Outcome
<1>4. ASSUME NEW u, NEW b, step = "gateway", UNCHANGED displayVars,
             ToNextProto(proto, u, wire, b),
             u.configured = t.configured,
             u.hasLocalAddress = t.hasLocalAddress,
             u.failStreak = t.failStreak,
             u.gatewayReachable \in BOOLEAN
      PROVE  [Rounds!Next]_(Rounds!vars)
  <2>1. /\ Statuses' = [Statuses EXCEPT ![proto] = StatusOf(u)]
        /\ Due' = Due \ {proto}
        /\ Asked' = {}
        /\ InRound' = InRound
        /\ Display' = Display
    <3>1. InTick
      BY <1>4 DEF InTick
    <3> QED  BY <1>0, <1>4, <3>1, ToNextProtoRounds DEF StatusBecomes, InRound
  <2>2. Statuses' = [Statuses EXCEPT ![proto].upstream = u.gatewayReachable]
    <3>1. StatusOf(u) = [StatusOf(t) EXCEPT !.upstream = u.gatewayReachable]
      BY <1>4, UpstreamSet
    <3>2. PICK s : s = StatusOf(u)
      OBVIOUS
    <3>3. s = [Statuses[proto] EXCEPT !.upstream = u.gatewayReachable]
      BY <1>0, <3>1, <3>2
    <3> QED  BY <2>1, <3>2, <3>3
  <2>3. Asked = {proto} /\ Due' = Due
    BY <1>0, <1>4, <2>1 DEF Asked, Due, Proto
  <2>4. Rounds!GatewayAsked(proto)
    BY <1>4, <2>1, <2>2, <2>3 DEF Rounds!GatewayAsked
  <2> QED  BY <1>0, <1>b, <2>4 DEF Rounds!Outcome
<1>5. CASE RecvReply /\ step = "gateway"
  <2>1. /\ ToNextProto(proto, GatewayAnswered(t), wire, Tail(rx[proto]))
        /\ UNCHANGED displayVars
    BY <1>5 DEF RecvReply
  <2>2. /\ GatewayAnswered(t).gatewayReachable = TRUE
        /\ GatewayAnswered(t).failStreak = t.failStreak
        /\ GatewayAnswered(t).configured = t.configured
        /\ GatewayAnswered(t).hasLocalAddress = t.hasLocalAddress
    BY <1>0 DEF GatewayAnswered, Track
  <2> QED  BY <1>4, <1>5, <2>1, <2>2
<1>6. CASE RecvOther
  BY <1>a, <1>6
  DEF RecvOther, displayVars, Statuses, Display, Due, Asked, InRound
<1>7. CASE RecvTimeout /\ step = "target"
  <2>1. InTick /\ ToTargetLost(proto, t) /\ Pinged(t)
    BY <1>0, <1>7 DEF RecvTimeout, InTick, TickInv, Waiting
  <2>2. Rounds!Lost(proto)
    BY <1>0, <1>7, <2>1, LossIsLost
  <2> QED  BY <1>0, <1>b, <2>2 DEF Rounds!Outcome
<1>8. CASE RecvTimeout /\ step = "gateway"
  <2>1. /\ ToNextProto(proto, Unreachable(t), wire, rx[proto])
        /\ UNCHANGED displayVars
    BY <1>8 DEF RecvTimeout
  <2>2. /\ Unreachable(t).gatewayReachable = FALSE
        /\ Unreachable(t).failStreak = t.failStreak
        /\ Unreachable(t).configured = t.configured
        /\ Unreachable(t).hasLocalAddress = t.hasLocalAddress
    BY <1>0 DEF Unreachable, Track
  <2> QED  BY <1>4, <1>8, <2>1, <2>2
<1>9. CASE Render
  <2>1. track' = track /\ step = "render" /\ step' = "idle"
    BY <1>9 DEF Render, GoOn
  <2>2. DisplayFresh'
    BY NextInv DEF Inv, DisplayInv
  <2>3. icon' = IconOf(track) /\ tooltip' = statusTextFor(track)
    BY <2>1, <2>2 DEF DisplayFresh, IconOf
  <2>4. /\ track \in [Proto -> Track]
        /\ \A p \in Proto : /\ GatewayOK(track[p])
                            /\ ~Pinged(track[p]) => track[p].failStreak = 0
    BY DEF Inv, TickInv, TickTypeOK, PaceInv, Calm
  <2>5. Display' = Rounds!Drawing(Statuses)
    BY <2>3, <2>4, DrawnIsDrawing DEF Display, Statuses
  <2>6. /\ Statuses' = Statuses
        /\ Due = {} /\ Due' = {}
        /\ Asked = {} /\ Asked' = {}
        /\ InRound
        /\ InRound' = FALSE
    BY <2>1 DEF Statuses, Due, Asked, InRound
  <2> QED  BY <2>5, <2>6 DEF Rounds!End, Rounds!Next
<1>10. CASE NetworkStep \/ WorldStep \/ Quit \/ UNCHANGED vars
  <2>1. UNCHANGED << track, displayVars >>
    BY <1>10 DEF NetworkStep, WorldStep, Quit, vars
  <2>2. UNCHANGED << Due, Asked >> /\ InRound' = InRound
    BY <1>10
    DEF NetworkStep, WorldStep, Quit, GoOn, vars, Due, Asked, InRound
  <2> QED  BY <1>a, <2>1, <2>2, DisplayStays DEF Statuses
<1> QED  BY <1>1, <1>2, <1>3, <1>5, <1>6, <1>7, <1>8, <1>9, <1>10
         DEF Next, TrayStep, Finished, RecvReply, RecvTimeout

\* Nothing is known of a protocol that cannot have an address.
Silent(s) == ~s.pinged /\ s.losses = 0 /\ ~s.upstream

SilentInv ==
    /\ \A p \in Asked : Statuses[p].pinged
    /\ \A p \in Proto \ Addressable :
          /\ Silent(Statuses[p])
          /\ Silent(Display.told[p])
          /\ p \notin Display.glyph

\* What is drawn keeps the silence.
LEMMA DrawingSilent ==
    ASSUME NEW st, NEW p \in Proto, Silent(st[p])
    PROVE  /\ Silent(Rounds!Drawing(st).told[p])
           /\ p \notin Rounds!Drawing(st).glyph
  BY DEF Rounds!Drawing, Rounds!Up, Silent

LEMMA InitSilent == Rounds!Init => SilentInv
<1> SUFFICES ASSUME Rounds!Init PROVE SilentInv
  OBVIOUS
<1>1. ASSUME NEW p \in Proto
      PROVE  Silent(Statuses[p])
  BY DEF Rounds!Init, Rounds!Unknown, Silent
<1>2. Display = Rounds!Drawing(Statuses) /\ Asked = {}
  BY DEF Rounds!Init
<1> QED  BY <1>1, <1>2, DrawingSilent DEF SilentInv

\* The rounds alone keep a protocol silent: only FindAddress and Lost make
\* one pinged, and both ask for an address.
LEMMA RoundsSilent ==
    ASSUME SilentInv, Statuses \in [Proto -> Rounds!Status],
           Asked \subseteq Proto,
           [Rounds!Next]_(Rounds!vars)
    PROVE  SilentInv'
<1>1. CASE UNCHANGED Rounds!vars
  BY <1>1 DEF Rounds!vars, SilentInv
<1>2. CASE Rounds!Begin
  BY <1>2 DEF Rounds!Begin, SilentInv
<1>3. CASE Rounds!End
  BY <1>3, DrawingSilent DEF Rounds!End, SilentInv
<1>4. ASSUME NEW p \in Proto, Rounds!Outcome(p)
      PROVE  SilentInv'
  <2>0. Display' = Display
    BY <1>4
    DEF Rounds!Outcome, Rounds!Skip, Rounds!FindAddress, Rounds!Answered,
        Rounds!Lost, Rounds!GatewayAsked
  <2>1. \A q \in Proto \ {p} : Statuses'[q] = Statuses[q]
    BY <1>4
    DEF Rounds!Outcome, Rounds!Skip, Rounds!FindAddress, Rounds!Answered,
        Rounds!Lost, Rounds!GatewayAsked
  <2>2. \A q \in Proto : Statuses[q].pinged => Statuses'[q].pinged
    <3>1. CASE Rounds!Skip(p)
      BY <3>1 DEF Rounds!Skip
    <3>2. CASE Rounds!FindAddress(p)
      BY <3>2 DEF Rounds!FindAddress, Rounds!Status
    <3>3. CASE Rounds!Answered(p)
      BY <3>3 DEF Rounds!Answered
    <3>4. CASE Rounds!Lost(p)
      BY <3>4 DEF Rounds!Lost
    <3>5. CASE Rounds!GatewayAsked(p)
      BY <3>5 DEF Rounds!GatewayAsked, Rounds!Status
    <3> QED  BY <1>4, <3>1, <3>2, <3>3, <3>4, <3>5 DEF Rounds!Outcome
  <2>3. Asked' \subseteq Asked \cup {p} /\ (p \in Asked' => Statuses'[p].pinged)
    <3>1. CASE Rounds!Lost(p)
      BY <3>1 DEF Rounds!Lost
    <3>2. CASE ~Rounds!Lost(p)
      <4>1. Asked' \subseteq Asked
        BY <1>4, <3>2
        DEF Rounds!Outcome, Rounds!Skip, Rounds!FindAddress, Rounds!Answered,
            Rounds!GatewayAsked
      <4> QED  BY <2>2, <4>1 DEF SilentInv
    <3> QED  BY <3>1, <3>2
  <2>4. p \notin Addressable => Silent(Statuses'[p])
    <3> SUFFICES ASSUME p \notin Addressable PROVE Silent(Statuses'[p])
      OBVIOUS
    <3>1. ~Statuses[p].pinged /\ Silent(Statuses[p]) /\ p \notin Asked
      BY DEF SilentInv, Silent
    <3>2. Statuses' = Statuses
      BY <1>4, <3>1
      DEF Rounds!Outcome, Rounds!Skip, Rounds!FindAddress, Rounds!Answered,
          Rounds!Lost, Rounds!GatewayAsked
    <3> QED  BY <3>1, <3>2
  <2> QED  BY <2>0, <2>1, <2>2, <2>3, <2>4 DEF SilentInv
<1> QED  BY <1>1, <1>2, <1>3, <1>4 DEF Rounds!Next

\* A protocol about which the rounds are silent is skipped by the tray.
LEMMA SilentIsSkipped ==
    ASSUME Inv, SilentInv
    PROVE  SkippedWithoutAddress
<1> SUFFICES ASSUME NEW p \in Proto \ Addressable
             PROVE  /\ ~(step \in {"target", "gateway"} /\ proto = p)
                    /\ track[p].failStreak = 0
                    /\ p \notin icon.glyph
                    /\ tooltip[p].state = "NoLocalAddress"
  BY DEF SkippedWithoutAddress
<1>1. /\ Statuses[p] = StatusOf(track[p])
      /\ Silent(Statuses[p])
      /\ Display.told[p] = ToldBy(tooltip[p])
      /\ Silent(Display.told[p])
      /\ p \notin Display.glyph
  BY DEF SilentInv, Statuses, Display
<1>2. ~(step \in {"target", "gateway"} /\ proto = p)
  <2>1. /\ Statuses[p].pinged = Pinged(track[p])
        /\ ~Statuses[p].pinged
    BY <1>1 DEF StatusOf, Silent, Pinged
  <2>2. ~Pinged(track[p])
    BY <2>1, Zenon
  <2> QED  BY <2>2 DEF Inv, TickInv, Waiting, Pinged
<1>3. track[p].failStreak = 0
  <2>1. track[p].failStreak \in Nat /\ Capped(track[p].failStreak) = 0
    BY <1>1 DEF Inv, TickInv, TickTypeOK, Track, StatusOf, Silent
  <2> QED  BY <2>1, FailStreakForGatewayCheckAssumption DEF Capped
<1>4. tooltip[p].state = "NoLocalAddress"
  <2>1. /\ Display.told[p].pinged = (tooltip[p].state # "NoLocalAddress")
        /\ ~Display.told[p].pinged
    BY <1>1 DEF ToldBy, Silent
  <2> QED  BY <2>1, Zenon
<1> QED  BY <1>1, <1>2, <1>3, <1>4 DEF Display

-----------------------------------------------------------------------------
(* The bound on the count of losses.                                       *)

\* m stands for n losses in a row, which the code counts without a bound.
Counts(m, n) ==
    \E k \in Nat : /\ n = m + k * FailStreakForSocketRecreate
                   /\ k > 0 => m >= FailStreakForGatewayCheck

LEMMA QuotientRest ==
    ASSUME NEW d \in Int, d > 0, NEW m \in Int, m >= 0
    PROVE  /\ m \div d \in Int
           /\ m % d \in 0 .. d - 1
           /\ m = d * (m \div d) + (m % d)
<1>1. m = d * (m \div d) + (m % d)
  BY Z3T(20)
<1>2. m \div d \in Int /\ m % d \in 0 .. d - 1
  OBVIOUS
<1> QED  BY <1>1, <1>2

LEMMA RestIsUnique ==
    ASSUME NEW d \in Nat \ {0}, NEW m \in Nat, NEW q \in Int,
           NEW r \in 0 .. d - 1, m = d * q + r
    PROVE  m % d = r
  OBVIOUS

\* Whole periods do not change the rest.
LEMMA PeriodsKeepRest ==
    ASSUME NEW d \in Nat \ {0}, NEW m \in Nat, NEW k \in Nat
    PROVE  (m + k * d) % d = m % d
<1> DEFINE q == m \div d
           r == m % d
<1>1. q \in Int /\ r \in 0 .. d - 1 /\ m = d * q + r
  BY QuotientRest
<1> HIDE DEF q, r
<1>2. m + k * d = d * (q + k) + r /\ q + k \in Int /\ m + k * d \in Nat
  BY <1>1
<1>3. (m + k * d) % d = r
  BY <1>1, <1>2, RestIsUnique
<1> QED  BY <1>3 DEF r

-----------------------------------------------------------------------------
(* The theorems.                                                           *)

\* The inductive invariant of the tray.
THEOREM Invariance == Spec => []Inv
  BY InitInv, NextInv, PTL DEF Spec

\* Type correctness of the tray.
THEOREM TypeCorrect == Spec => []TypeOK
<1>1. Inv => TypeOK
  BY DEF Inv, TickInv, TickTypeOK, DisplayInv, DisplayTypeOK, TypeOK, NetTypeOK
<1> QED  BY Invariance, <1>1, PTL

\* The icon and the status line are never stale between ticks: skipping
\* renderTray when m_lastTickState is unchanged loses nothing.
THEOREM DisplayNeverStale == Spec => []DisplayFresh
<1>1. Inv => DisplayFresh
  BY DEF Inv, DisplayInv
<1> QED  BY Invariance, <1>1, PTL

\* A gateway that is called reachable was found reachable in this outage.
THEOREM GatewayCurrent == Spec => []GatewayIsCurrent
<1>1. Inv => GatewayIsCurrent
  <2> SUFFICES ASSUME Inv, NEW p \in Proto, track[p].gatewayReachable
               PROVE  /\ stateOf(track[p]) = "Failing"
                      /\ track[p].failStreak >= FailStreakForGatewayCheck
                      /\ track[p].gatewayMode # "Disabled"
                      /\ track[p].gatewayIp # NoGateway
    BY DEF GatewayIsCurrent
  <2>1. GatewayOK(track[p]) /\ track[p] \in Track
    BY DEF Inv, TickInv, TickTypeOK
  <2> QED  BY <2>1, FailStreakForGatewayCheckAssumption
           DEF GatewayOK, stateOf, Track
<1> QED  BY Invariance, <1>1, PTL

\* The gateway a tray finds for itself is that of its own interface, in any
\* world, however the dump of the routes is cut (resolveGateway).
THEOREM GatewayOurs == Spec => []GatewayIsOurs
<1>1. Inv => GatewayIsOurs
  BY DEF Inv, TickInv, GatewayOK, OursOK, Ours, GatewayIsOurs
<1> QED  BY Invariance, <1>1, PTL

\* Icon and status line tell one story.
THEOREM IconAndTextAgree == Spec => []IconAgreesWithTooltip
<1>1. Inv => IconAgreesWithTooltip
  BY DEF Inv, DisplayInv
<1> QED  BY Invariance, <1>1, PTL

\* The icon does not fall from green to red, if it takes more than one loss to
\* ask the gateway: between two drawings a protocol loses at most one ping.
THEOREM WarnedBeforeRed ==
    ASSUME FailStreakForGatewayCheck > 1
    PROVE  Spec => RedOnlyAfterWarning
<1>1. ASSUME Inv, PaceInv, [Next]_vars
      PROVE  [icon.severity = "Green" => icon'.severity # "Red"]_vars
  <2>1. CASE Render
    BY <1>1, <2>1, NoRedAfterGreen
  <2>2. CASE UNCHANGED icon
    BY <2>2
  <2>3. Render \/ UNCHANGED icon
    BY <1>1
    DEF Next, TrayStep, NetworkStep, WorldStep, TimerFires, Tick, RecvReply,
        RecvOther, RecvTimeout, Quit, Finished, vars, displayVars
  <2> QED  BY <2>1, <2>2, <2>3
<1> QED  BY Invariance, InitPace, NextPace, <1>1, PTL
         DEF Spec, RedOnlyAfterWarning

\* The tray implements the rounds of pings: each step is one of theirs or
\* leaves them alone, whatever the network does.
THEOREM ImplementsRounds == Spec => TicksAreRounds
  BY Invariance, InitPace, NextPace, InitRounds, NextRounds, PTL
  DEF Spec, TicksAreRounds, Rounds!Spec

\* A protocol the interface never has an address of is neither pinged nor
\* counted nor shown: the rounds say so, and the tray implements them.
THEOREM SkippedProtocolsStaySilent == Spec => []SkippedWithoutAddress
<1>1. Inv => Statuses \in [Proto -> Rounds!Status]
  <2> SUFFICES ASSUME Inv, NEW p \in Proto
               PROVE  StatusOf(track[p]) \in Rounds!Status
    BY DEF Statuses
  <2>1. track[p] \in Track
    BY DEF Inv, TickInv, TickTypeOK
  <2>2. Capped(track[p].failStreak) \in 0 .. FailStreakForGatewayCheck
    BY <2>1, FailStreakForGatewayCheckAssumption DEF Track, Capped
  <2> QED  BY <2>1, <2>2 DEF StatusOf, Rounds!Status, Track
<1>2. Inv => Asked \subseteq Proto
  BY DEF Inv, TickInv, TickTypeOK, Asked
<1>3. Inv /\ PaceInv /\ SilentInv /\ [Next]_vars => SilentInv'
  BY <1>1, <1>2, NextRounds, RoundsSilent
<1>4. Init => SilentInv
  BY InitRounds, InitSilent
<1> QED  BY Invariance, InitPace, NextPace, <1>3, <1>4, SilentIsSkipped, PTL
         DEF Spec

\* MaxFailStreak, the bound of the model, loses nothing that the code's
\* unbounded failStreak decides: whether there is an outage, whether it is
\* long, and at which losses the socket is opened again.
THEOREM BoundLosesNothing ==
    ASSUME NEW n \in Nat, NEW m \in 0 .. MaxFailStreak, Counts(m, n)
    PROVE  /\ Counts(0, 0)
           /\ Counts(Lost(m), n + 1)
           /\ n = 0 <=> m = 0
           /\ n >= FailStreakForGatewayCheck <=> m >= FailStreakForGatewayCheck
           /\ n % FailStreakForSocketRecreate = m % FailStreakForSocketRecreate
<1> USE CountersAssumption, FailStreakForGatewayCheckAssumption
<1> DEFINE R == FailStreakForSocketRecreate
<1>1. PICK k \in Nat : /\ n = m + k * R
                       /\ k > 0 => m >= FailStreakForGatewayCheck
  BY DEF Counts
<1>2. Counts(0, 0)
  BY DEF Counts
<1>3. Counts(Lost(m), n + 1)
  <2>1. CASE m = MaxFailStreak
    <3>1. n + 1 = (MaxFailStreak + 1 - R) + (k + 1) * R
      BY <1>1, <2>1
    <3>2. k + 1 \in Nat /\ MaxFailStreak + 1 - R >= FailStreakForGatewayCheck
      OBVIOUS
    <3> QED  BY <2>1, <3>1, <3>2 DEF Counts, Lost
  <2>2. CASE m # MaxFailStreak
    <3>1. n + 1 = (m + 1) + k * R
      BY <1>1
    <3> QED  BY <1>1, <2>2, <3>1 DEF Counts, Lost
  <2> QED  BY <2>1, <2>2
<1>4. n % R = m % R
  <2>1. R \in Nat \ {0} /\ m \in Nat
    OBVIOUS
  <2> HIDE CountersAssumption DEF R
  <2>2. (m + k * R) % R = m % R
    BY <2>1, PeriodsKeepRest
  <2> QED  BY <1>1, <2>2, Zenon
<1>5. n >= m /\ (k = 0 => n = m)
  <2>1. k * R \in Nat /\ (k = 0 => k * R = 0)
    OBVIOUS
  <2> QED  BY <1>1, <2>1
<1>6. /\ n = 0 <=> m = 0
      /\ n >= FailStreakForGatewayCheck <=> m >= FailStreakForGatewayCheck
  <2>1. k = 0 \/ m >= FailStreakForGatewayCheck
    BY <1>1
  <2> HIDE <1>1 DEF R
  <2> QED  BY <1>5, <2>1
<1> QED  BY <1>2, <1>3, <1>4, <1>6
=============================================================================

---------------------------- MODULE PingMonitor -----------------------------
(***************************************************************************)
(* conwatch-tray: the one-second tick of PingMonitor over its two raw      *)
(* sockets, the gateway check it falls back to, and the icon and tooltip   *)
(* it keeps (ping_monitor.cpp, ping_monitor_tick.cpp, setIcon and          *)
(* applyStatus, GatewayOverride).                                          *)
(*                                                                         *)
(* The tray is one thread, and a tick blocks in recvfrom(): between a      *)
(* ping and its answer the network moves, the event loop does not.         *)
(***************************************************************************)
EXTENDS RawSocket, TraySetup

CONSTANTS FailStreakForSocketRecreate,
          LocalAddressRecheckTicks,
          MaxFailStreak,     \* bound on the count of losses: see Lost
          Targets,           \* the targets tried, as target and as target6
          GatewayOverrides   \* the values of gateway_ip_override4/6 tried

ASSUME CountersAssumption ==
    /\ FailStreakForSocketRecreate \in Nat \ {0}
    /\ LocalAddressRecheckTicks \in Nat
    /\ MaxFailStreak \in Nat
    /\ MaxFailStreak >= FailStreakForGatewayCheck + FailStreakForSocketRecreate

ASSUME InputsAssumption ==
    GatewayOverrides \subseteq {"", "none", "None", "gateway", "garbage"}

VARIABLES
    step,            \* where the thread is
    proto,           \* the protocol whose tick runs
    track,           \* m_v4 and m_v6
    lastTickState,   \* m_lastTickState
    icon,            \* m_currentSeverity and m_currentGlyph
    tooltip          \* m_currentTooltip, and the menu's status line

displayVars == << lastTickState, icon, tooltip >>

vars == << netVars, step, proto, track, displayVars >>

-----------------------------------------------------------------------------
\* "target" and "gateway": blocked in recvReply for that ping.
Steps == {"idle", "tick", "target", "gateway", "render", "exited"}

Mode == {"Auto", "Fixed", "Disabled"}

\* "garbage" is an override that inet_pton() refuses.
GatewayIp == {NoGateway, "gateway", "hop", "other", "garbage"}

Track == [configured : BOOLEAN, sock : Handle, failStreak : 0 .. MaxFailStreak,
          hasLocalAddress : BOOLEAN,
          recheckTicksLeft : 0 .. LocalAddressRecheckTicks,
          gatewayMode : Mode, gatewayIp : GatewayIp,
          gatewayResolved : BOOLEAN, gatewayReachable : BOOLEAN]

\* The part of a track m_lastTickState remembers.
TickStateOf(t) == << t.failStreak, t.hasLocalAddress, t.gatewayReachable >>

tickState(tracks) == [p \in Proto |-> TickStateOf(tracks[p])]

\* m_lastTickState before the first tick: a count of -1 that no track has.
NoTickState == [p \in Proto |-> << MaxFailStreak + 1, FALSE, FALSE >>]

Icon == [severity : Severity, glyph : SUBSET Proto]

Tooltip == [Proto -> [state : ProtoState, losses : 0 .. MaxFailStreak,
                      gatewayReachable : BOOLEAN]]

TypeOK ==
    /\ NetTypeOK
    /\ step \in Steps
    /\ proto \in Proto
    /\ track \in [Proto -> Track]
    /\ lastTickState \in
         [Proto -> (0 .. MaxFailStreak + 1) \X BOOLEAN \X BOOLEAN]
    /\ icon \in Icon
    /\ tooltip \in Tooltip

-----------------------------------------------------------------------------
(* Construction.                                                           *)

applyGatewayOverride(t, override) ==
    IF gatewayModeOf(override) = "Fixed"
    THEN [t EXCEPT !.gatewayMode = "Fixed", !.gatewayIp = override,
                   !.gatewayResolved = TRUE]
    ELSE [t EXCEPT !.gatewayMode = gatewayModeOf(override)]

NewTrack(configured, sock) ==
    [configured |-> configured, sock |-> sock, failStreak |-> 0,
     hasLocalAddress |-> FALSE, recheckTicksLeft |-> 0,
     gatewayMode |-> "Auto", gatewayIp |-> NoGateway,
     gatewayResolved |-> FALSE, gatewayReachable |-> FALSE]

Configured ==
    {DOMAIN resolveInitialTargets(dns, target, target6) :
        dns \in Resolvers, target \in Targets, target6 \in Targets \cup {""}}

NewTracks ==
    {[p \in Proto |->
         applyGatewayOverride(
             NewTrack(p \in configured,
                      IF p \in configured THEN socks[p] ELSE "closed"),
             overrides[p])] :
       configured \in Configured,
       socks \in [Proto -> openSocket],
       overrides \in [Proto -> GatewayOverrides]}

\* setupTray renders before the first tick.
Init ==
    /\ NetInit
    /\ step = "idle"
    /\ proto = "v4"
    /\ track \in NewTracks
    /\ lastTickState = NoTickState
    /\ icon = [severity |-> worstSeverityOf(track), glyph |-> glyphFor(track)]
    /\ tooltip = statusTextFor(track)

-----------------------------------------------------------------------------
(* The thread.  An operator whose name starts with To is how a step ends:  *)
(* it sets every variable but the display and the world.                   *)

GoOn(where, p) == step' = where /\ proto' = p

\* Mutant: IPv6 is pinged only as a fallback.
ToNextProto_Fallback(p, t, w, buffer) ==
    /\ track' = [track EXCEPT ![p] = t]
    /\ wire' = w
    /\ rx' = [rx EXCEPT ![p] = buffer]
    /\ IF p = "v4" /\ ~IsHealthy(t) THEN GoOn("tick", "v6")
       ELSE GoOn("render", "v4")

\* tickV4 is followed by tickV6, and that by the rest of tick.
ToNextProto(p, t, w, buffer) ==
    /\ track' = [track EXCEPT ![p] = t]
    /\ wire' = w
    /\ rx' = [rx EXCEPT ![p] = buffer]
    /\ IF p = "v4" THEN GoOn("tick", "v6") ELSE GoOn("render", "v4")

ToAwait(p, t, who, buffer) ==
    /\ track' = [track EXCEPT ![p] = t]
    /\ wire' = [wire EXCEPT ![p] = @ \cup Replies(p, t.sock, who)]
    /\ rx' = [rx EXCEPT ![p] = buffer]
    /\ GoOn(who, p)

\* Mutant: no recheck is ever due again after the first.
maybeRecheckLocalAddress_Once(t, found) ==
    IF ~t.configured \/ t.hasLocalAddress \/ t.recheckTicksLeft > 0 THEN t
    ELSE [t EXCEPT !.hasLocalAddress = found,
                   !.recheckTicksLeft = LocalAddressRecheckTicks]

\* Mutant: looks for the address first and counts down whatever is left.
maybeRecheckLocalAddress_Unguarded(t, found) ==
    IF ~t.configured \/ t.hasLocalAddress THEN t
    ELSE [t EXCEPT !.hasLocalAddress = found, !.recheckTicksLeft = @ - 1]

\* found is what ifaceHasAddress returns, if it is asked.
maybeRecheckLocalAddress(t, found) ==
    IF ~t.configured \/ t.hasLocalAddress THEN t
    ELSE IF t.recheckTicksLeft > 0 THEN [t EXCEPT !.recheckTicksLeft = @ - 1]
    ELSE [t EXCEPT !.hasLocalAddress = found,
                   !.recheckTicksLeft = LocalAddressRecheckTicks]

\* Once per process, even if there is no route yet.
WithGateway(t, gateway) ==
    IF t.gatewayResolved THEN t
    ELSE [t EXCEPT !.gatewayResolved = TRUE, !.gatewayIp = gateway]

Unreachable(t) == [t EXCEPT !.gatewayReachable = FALSE]

checkGateway(p, t, buffer) ==
    IF t.gatewayMode = "Disabled"
    THEN ToNextProto(p, Unreachable(t), wire, buffer)
    ELSE \E gateway \in resolveGateway[world][p] :
         LET resolved == WithGateway(t, gateway) IN
         IF resolved.gatewayIp = NoGateway
         THEN ToNextProto(p, Unreachable(resolved), wire, buffer)
         ELSE \E sent \in BOOLEAN :
                 /\ MaySend(t.sock, resolved.gatewayIp, sent)
                 /\ IF sent
                    THEN ToAwait(p, resolved, "gateway", buffer)
                    ELSE ToNextProto(p, Unreachable(resolved), wire, buffer)

\* failStreak + 1.  The count wraps at MaxFailStreak by one period of the
\* socket's recreation: every 10th loss stays one, and the count stays above
\* the threshold of the gateway check.
Lost(n) == IF n = MaxFailStreak
           THEN MaxFailStreak + 1 - FailStreakForSocketRecreate
           ELSE n + 1

\* Mutant: the socket is never opened again.
SocketIsRecreated_Never(t) == FALSE

SocketIsRecreated(t) == t.failStreak % FailStreakForSocketRecreate = 0

\* Mutant: one loss early.
GatewayIsDue_Early(t) == t.failStreak + 1 >= FailStreakForGatewayCheck

\* Mutant: only at the very loss that reaches the threshold.
GatewayIsDue_Once(t) == t.failStreak = FailStreakForGatewayCheck

GatewayIsDue(t) == t.failStreak >= FailStreakForGatewayCheck

\* The else branch of tickV4/6.
ToTargetLost(p, t) ==
    LET failed == [t EXCEPT !.failStreak = Lost(@)] IN
    \E sock \in IF SocketIsRecreated(failed) THEN openSocket ELSE {t.sock} :
       LET reopened == [failed EXCEPT !.sock = sock]
           buffer == IF SocketIsRecreated(failed) THEN << >> ELSE rx[p]
       IN  IF GatewayIsDue(failed)
           THEN checkGateway(p, reopened, buffer)
           ELSE ToNextProto(p, reopened, wire, buffer)

TimerFires ==
    /\ step = "idle"
    /\ GoOn("tick", "v4")
    /\ UNCHANGED << netVars, track, displayVars >>

\* tickV4 or tickV6 up to the answer of the target.
Tick ==
    /\ step = "tick"
    /\ \E found \in ifaceHasAddress[world][proto] :
       LET t == maybeRecheckLocalAddress(track[proto], found) IN
       IF ~t.configured \/ ~t.hasLocalAddress
       THEN ToNextProto(proto, t, wire, rx[proto])
       ELSE \E sent \in BOOLEAN :
               /\ MaySend(t.sock, "target", sent)
               /\ IF sent
                  THEN ToAwait(proto, t, "target", rx[proto])
                  ELSE ToTargetLost(proto, t)
    /\ UNCHANGED << world, displayVars >>

\* Mutant: the gateway's state outlives the outage.
TargetAnswered_KeepsGateway(t) == [t EXCEPT !.failStreak = 0]

TargetAnswered(t) ==
    [t EXCEPT !.failStreak = 0, !.gatewayReachable = FALSE]

GatewayAnswered(t) == [t EXCEPT !.gatewayReachable = TRUE]

\* recvReply accepts whatever echo reply carries the tray's id.
RecvReply ==
    /\ step \in {"target", "gateway"}
    /\ rx[proto] # << >>
    /\ isMatchingReply(Head(rx[proto]))
    /\ ToNextProto(proto,
                   IF step = "target" THEN TargetAnswered(track[proto])
                   ELSE GatewayAnswered(track[proto]),
                   wire, Tail(rx[proto]))
    /\ UNCHANGED << world, displayVars >>

\* Anything else is dropped, and recvfrom() called again with a new timeout.
RecvOther ==
    /\ step \in {"target", "gateway"}
    /\ rx[proto] # << >>
    /\ ~isMatchingReply(Head(rx[proto]))
    /\ rx' = [rx EXCEPT ![proto] = Tail(@)]
    /\ UNCHANGED << world, wire, step, proto, track, displayVars >>

RecvTimeout ==
    /\ step \in {"target", "gateway"}
    /\ TimesOut(proto)
    /\ IF step = "target"
       THEN ToTargetLost(proto, track[proto])
       ELSE ToNextProto(proto, Unreachable(track[proto]), wire, rx[proto])
    /\ UNCHANGED << world, displayVars >>

-----------------------------------------------------------------------------
(* The display.                                                            *)

\* An icon is as good as its key: iconFor paints one per severity and glyph.
setIcon(worst, glyph) == icon' = [severity |-> worst, glyph |-> glyph]

applyStatus(status) == tooltip' = status

renderTray ==
    /\ setIcon(worstSeverityOf(track), glyphFor(track))
    /\ applyStatus(statusTextFor(track))

\* Mutant: an address that appears is not a change.
StateChanged_IgnoresAddress ==
    \E p \in Proto : \/ tickState(track)[p][1] # lastTickState[p][1]
                     \/ tickState(track)[p][3] # lastTickState[p][3]

StateChanged == tickState(track) # lastTickState

\* The end of tick.
Render ==
    /\ step = "render"
    /\ IF StateChanged
       THEN lastTickState' = tickState(track) /\ renderTray
       ELSE UNCHANGED displayVars
    /\ GoOn("idle", "v4")
    /\ UNCHANGED << netVars, track >>

\* "Quit" of the menu, which only an idle event loop serves.
Quit ==
    /\ step = "idle"
    /\ GoOn("exited", "v4")
    /\ UNCHANGED << netVars, track, displayVars >>

-----------------------------------------------------------------------------
TrayStep ==
    TimerFires \/ Tick \/ RecvReply \/ RecvOther \/ RecvTimeout \/ Render

NetworkStep ==
    /\ step # "exited"
    /\ \E p \in Proto : \/ ReplyArrives(p, track[p].sock)
                        \/ ForeignArrives(p, track[p].sock)
    /\ UNCHANGED << step, proto, track, displayVars >>

WorldStep ==
    /\ step # "exited"
    /\ WorldChanges
    /\ UNCHANGED << step, proto, track, displayVars >>

Finished == step = "exited" /\ UNCHANGED vars

Next == TrayStep \/ NetworkStep \/ WorldStep \/ Quit \/ Finished

Spec == Init /\ [][Next]_vars

-----------------------------------------------------------------------------
(* Safety.                                                                 *)

\* The protocols that have an address to ping from in world w.
Addressed(w) ==
    {p \in Proto : \E a \in Worlds[w].addrs :
        a.iface = "this" /\ a.family = p /\ ~(p = "v6" /\ a.linkLocal)}

\* Those it has an address of in some world.
Addressable == {p \in Proto : \E w \in DOMAIN Worlds : p \in Addressed(w)}

\* The tray never shows a stale state: between ticks, icon and status line
\* are what the two tracks call for, although tick skips renderTray when
\* m_lastTickState says that nothing changed.
DisplayFresh ==
    step = "idle" =>
        /\ icon = [severity |-> worstSeverityOf(track),
                   glyph    |-> glyphFor(track)]
        /\ tooltip = statusTextFor(track)

\* gatewayReachable speaks of the outage at hand: it is set only past the
\* threshold, on a protocol that is pinged, whose gateway check is enabled
\* and has found a gateway (tickV4/6 and checkGateway4/6).
GatewayIsCurrent ==
    \A p \in Proto : track[p].gatewayReachable =>
        /\ stateOf(track[p]) = "Failing"
        /\ track[p].failStreak >= FailStreakForGatewayCheck
        /\ track[p].gatewayMode # "Disabled"
        /\ track[p].gatewayIp # NoGateway

\* The gateway a tray found for itself is the next hop of a default route over
\* its own interface, whatever else the dump holds and wherever it is cut
\* (parseDefaultRouteGateway, scanBatch, drain): blue never tells of another
\* interface's gateway.
GatewayIsOurs ==
    \A p \in Proto :
        track[p].gatewayMode = "Auto" =>
            track[p].gatewayIp \in {NoGateway, "gateway"}

\* A protocol the interface never has a global address of is neither pinged
\* nor counted nor shown, whatever addresses it or other interfaces have
\* besides (ifaceHasAddress, README.md:36-38).
SkippedWithoutAddress ==
    \A p \in Proto \ Addressable :
        /\ ~(step \in {"target", "gateway"} /\ proto = p)
        /\ track[p].failStreak = 0
        /\ p \notin icon.glyph
        /\ tooltip[p].state = "NoLocalAddress"

\* Icon and status line, which are updated each on its own, tell one story:
\* no glyph for a protocol that is skipped; red only when every protocol shown
\* has lost at least FailStreakForGatewayCheck pings and no gateway answers,
\* and then without a glyph; a gateway that answers is never shown yellow or
\* red.
IconAgreesWithTooltip ==
    /\ \A p \in icon.glyph : tooltip[p].state # "NoLocalAddress"
    /\ icon.severity = "Red" =>
         /\ icon.glyph = {}
         /\ \A p \in Proto : tooltip[p].state # "NoLocalAddress" =>
               /\ tooltip[p].losses >= FailStreakForGatewayCheck
               /\ ~tooltip[p].gatewayReachable
    /\ (\E p \in Proto : tooltip[p].gatewayReachable) =>
         icon.severity \in {"Green", "Blue"}

\* The tray does not fall from green to red: losses of the last protocol to
\* fail are shown first (worstSeverityOf, and a threshold above one).
RedOnlyAfterWarning ==
    [][icon.severity = "Green" => icon'.severity # "Red"]_vars

-----------------------------------------------------------------------------
(* The tray implements the abstract rounds of pings.                       *)

InRound == step \in {"tick", "target", "gateway", "render"}

Due ==
    IF step \in {"tick", "target"}
    THEN IF proto = "v4" THEN Proto ELSE {"v6"}
    ELSE IF step = "gateway" /\ proto = "v4" THEN {"v6"}
    ELSE {}

Asked == IF step = "gateway" THEN {proto} ELSE {}

\* How far beyond the threshold a count is does not matter.
Capped(n) ==
    IF n < FailStreakForGatewayCheck THEN n ELSE FailStreakForGatewayCheck

StatusOf(t) ==
    [pinged   |-> t.configured /\ t.hasLocalAddress,
     losses   |-> Capped(t.failStreak),
     upstream |-> t.gatewayReachable]

\* What a status text tells.
ToldBy(text) ==
    [pinged   |-> text.state # "NoLocalAddress",
     losses   |-> Capped(text.losses),
     upstream |-> text.gatewayReachable]

Statuses == [p \in Proto |-> StatusOf(track[p])]

Display == [colour |-> icon.severity,
            glyph  |-> icon.glyph,
            told   |-> [p \in Proto |-> ToldBy(tooltip[p])]]

Rounds == INSTANCE PingRounds
    WITH Threshold <- FailStreakForGatewayCheck,
         status <- Statuses, shown <- Display,
         round <- InRound, due <- Due, asked <- Asked

\* Whatever the network does and however long a tick blocks: in each tick both
\* protocols have exactly one outcome; a loss counts once, an answer ends the
\* outage and what was known of its gateway; the gateway is asked after a loss
\* and from the threshold on; the display changes between two ticks only, and
\* shows all outcomes so far (tick, tickV4/6, checkGateway4/6, renderTray).
TicksAreRounds == Rounds!Spec

-----------------------------------------------------------------------------
(* What README.md and the comments say, and the code does not do.          *)

IsActive(t) == stateOf(t) # "NoLocalAddress"

DocumentedColour ==
    IF \E p \in Proto : IsHealthy(track[p]) THEN "Green"
    ELSE IF \E p \in Proto : IsYellow(track[p]) THEN "Yellow"
    ELSE IF \E p \in Proto : IsBlue(track[p]) THEN "Blue"
    ELSE "Red"

\* README.md:14-29: the colour rules, checked in order.
ColourAsDocumented ==
    step = "idle" /\ (\E p \in Proto : IsActive(track[p])) =>
        icon.severity = DocumentedColour

\* README.md:14: a protocol turns green because the target answered.
AnswerIsTheTargets ==
    [][RecvReply /\ step = "target" => Head(rx[proto]) = "target"]_vars

\* ping_monitor_socket4.cpp:26, README.md:4: a receive ends by its timeout
\* at the latest, so that a tick ends and the event loop runs again.
TickEnds == step = "tick" ~> step \in {"idle", "exited"}

-----------------------------------------------------------------------------
(* Fairness and liveness.                                                  *)

\* QTimer fires again and again, recvfrom() returns, and what is under way
\* on the network arrives.
FairSpec ==
    /\ Spec
    /\ WF_vars(TrayStep)
    /\ \A p \in Proto : WF_vars(/\ step # "exited"
                                /\ ReplyArrives(p, track[p].sock)
                                /\ UNCHANGED << step, proto, track,
                                                displayVars >>)

Settles(w) == <>[](world = w)

\* After any sequence of renumberings, outages and late addresses: once the
\* interface is there for good with an address, and the target answers over
\* it, the protocol becomes healthy for good (the recheck of the address, the
\* recreation of the socket every FailStreakForSocketRecreate losses).
Recovers ==
    \A w \in DOMAIN Worlds : \A p \in Proto :
        (/\ Worlds[w].ifindex # None
         /\ p \in Addressed(w)
         /\ <<p, "target">> \in Worlds[w].answering
         /\ Settles(w))
            => <>[](\/ step = "exited"
                    \/ ~track[p].configured
                    \/ IsHealthy(track[p]))

\* Once the gateway answers and the target does not, the outage ends up shown
\* as upstream: the losses hand over to the gateway check and stay there,
\* unless the tray has cached another gateway, or none, in an earlier outage.
UpstreamOutageShown ==
    \A w \in DOMAIN Worlds : \A p \in Proto :
        (/\ Worlds[w].ifindex # None
         /\ p \in Addressed(w)
         /\ <<p, "gateway">> \in Worlds[w].answering
         /\ <<p, "target">> \notin Worlds[w].answering
         /\ Settles(w))
            => <>[](\/ step = "exited"
                    \/ ~track[p].configured
                    \/ track[p].gatewayIp # "gateway"
                    \/ p \in icon.glyph /\ tooltip[p].gatewayReachable)

\* Once nobody answers any more, the tray ends up red, if it pings anything.
OutageShown ==
    \A w \in DOMAIN Worlds :
        (/\ Worlds[w].answering = {}
         /\ ~Worlds[w].elsewhere
         /\ Settles(w))
            => <>[](\/ step = "exited"
                    \/ \A p \in Addressed(w) : ~track[p].configured
                    \/ icon.severity = "Red")
=============================================================================

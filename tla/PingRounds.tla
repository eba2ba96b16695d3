----------------------------- MODULE PingRounds ------------------------------
(***************************************************************************)
(* What a tray promises, without sockets, replies, timeouts and worlds: it *)
(* works in rounds.  In a round each protocol has one outcome, the gateway *)
(* is asked after a loss and only in a long outage, and what is shown is   *)
(* drawn at the end of the round, from the outcomes so far.                *)
(***************************************************************************)
EXTENDS Naturals

CONSTANTS Proto,        \* the protocols
          Addressable,  \* those the interface may have an address of
          Threshold     \* losses in a row that make a long outage

VARIABLES
    status,  \* what is known of each protocol
    shown,   \* what the user sees
    round,   \* a round is under way
    due,     \* the protocols that have not had their outcome in it
    asked    \* the protocols whose gateway has not yet answered in it

vars == << status, shown, round, due, asked >>

\* losses is the number of losses in a row; Threshold stands for that many or
\* more.  upstream tells that the gateway answers while the target does not.
Status == [pinged : BOOLEAN, losses : 0 .. Threshold, upstream : BOOLEAN]

Unknown == [pinged |-> FALSE, losses |-> 0, upstream |-> FALSE]

Up(s) == s.pinged /\ s.losses = 0

Warned(s) == s.losses \in 1 .. Threshold - 1

Colour(st) ==
    IF \/ \E p \in Proto : Up(st[p])
       \/ \A p \in Proto : ~st[p].pinged
    THEN "Green"
    ELSE IF \E p \in Proto : st[p].upstream THEN "Blue"
    ELSE IF \E p \in Proto : Warned(st[p]) THEN "Yellow"
    ELSE "Red"

Drawing(st) ==
    [colour |-> Colour(st),
     glyph  |-> {p \in Proto : Up(st[p]) \/ st[p].upstream},
     told   |-> st]

Init ==
    /\ status = [p \in Proto |-> Unknown]
    /\ shown = Drawing(status)
    /\ round = FALSE
    /\ due = {}
    /\ asked = {}

Begin ==
    /\ ~round
    /\ round' = TRUE
    /\ due' = Proto
    /\ UNCHANGED << status, shown, asked >>

\* A protocol without an address is left out of the round.
Skip(p) ==
    /\ p \in due
    /\ ~status[p].pinged
    /\ due' = due \ {p}
    /\ UNCHANGED << status, shown, round, asked >>

\* From then on the protocol is never left out again.
FindAddress(p) ==
    /\ p \in due \cap Addressable
    /\ ~status[p].pinged
    /\ status' = [status EXCEPT ![p].pinged = TRUE]
    /\ UNCHANGED << shown, round, due, asked >>

Answered(p) ==
    /\ p \in due
    /\ status[p].pinged
    /\ due' = due \ {p}
    /\ status' = [status EXCEPT ![p] =
                    [pinged |-> TRUE, losses |-> 0, upstream |-> FALSE]]
    /\ UNCHANGED << shown, round, asked >>

OneMore(n) == IF n < Threshold THEN n + 1 ELSE Threshold

\* The gateway's last answer counts until the next one.
Lost(p) ==
    /\ p \in due
    /\ status[p].pinged \/ p \in Addressable
    /\ due' = due \ {p}
    /\ LET losses == OneMore(status[p].losses) IN
       \E upstream \in BOOLEAN :
          /\ status' = [status EXCEPT ![p] =
                          [pinged |-> TRUE, losses |-> losses,
                           upstream |-> upstream]]
          /\ \/ ~upstream /\ UNCHANGED asked
             \/ /\ losses = Threshold
                /\ upstream = status[p].upstream
                /\ asked' = asked \cup {p}
    /\ UNCHANGED << shown, round >>

GatewayAsked(p) ==
    /\ p \in asked
    /\ asked' = asked \ {p}
    /\ \E answers \in BOOLEAN :
          status' = [status EXCEPT ![p].upstream = answers]
    /\ UNCHANGED << shown, round, due >>

End ==
    /\ round
    /\ due = {}
    /\ asked = {}
    /\ shown' = Drawing(status)
    /\ round' = FALSE
    /\ UNCHANGED << status, due, asked >>

Outcome(p) ==
    Skip(p) \/ FindAddress(p) \/ Answered(p) \/ Lost(p) \/ GatewayAsked(p)

Next == Begin \/ End \/ \E p \in Proto : Outcome(p)

Spec == Init /\ [][Next]_vars
=============================================================================

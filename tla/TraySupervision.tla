-------------------------- MODULE TraySupervision ---------------------------
(***************************************************************************)
(* What the watcher promises, without sockets, processes and signals: it   *)
(* hears of the links through reports that come in order and that may be   *)
(* lost, and has for each link at most one tray, which it starts only when *)
(* a report tells it something new.                                        *)
(***************************************************************************)
EXTENDS Naturals, Sequences

CONSTANTS Ifindex,   \* interface indexes
          Name,      \* interface names
          Eligible,  \* the names, among Name, that are to have trays
          None       \* absence of a link, of a tray, of a subject

VARIABLES
    links,   \* the links as they are
    news,    \* reports under way: what became of which link, oldest first
    known,   \* the links as the watcher knows them
    tray     \* the name a link's tray was started with, or None

vars == << links, news, known, tray >>

State == [name : Name, wasUp : BOOLEAN] \cup {None}

Report == [about : Ifindex \cup {None}, state : State]

Init ==
    /\ links \in [Ifindex -> State]
    /\ news = << >>
    /\ known = [i \in Ifindex |-> None]
    /\ tray = [i \in Ifindex |-> None]

\* A link changes or stays as it is, and is reported or not.
Move(i) ==
    /\ \E state \in State :
          /\ links' = [links EXCEPT ![i] = state]
          /\ news' \in {news, Append(news, [about |-> i, state |-> state])}
    /\ UNCHANGED << known, tray >>

\* A report about no link.
Remark ==
    /\ news' = Append(news, [about |-> None, state |-> None])
    /\ UNCHANGED << links, known, tray >>

Wanted(state) == state # None /\ state.wasUp /\ state.name \in Eligible

\* The trays link i may have once the watcher has learned its state: none
\* that is not wanted, the one it has when it learns nothing new, and
\* otherwise a new one, which may fail to start.
TraysAfter(i, state) ==
    IF ~Wanted(state) THEN {None}
    ELSE IF state = known[i] THEN {tray[i]}
    ELSE {None, state.name}

Learn(i, state) ==
    /\ known' = [known EXCEPT ![i] = state]
    /\ \E name \in TraysAfter(i, state) : tray' = [tray EXCEPT ![i] = name]

\* The watcher takes the oldest report.
Hear ==
    /\ news # << >>
    /\ news' = Tail(news)
    /\ \/ Head(news).about = None /\ UNCHANGED << known, tray >>
       \/ Head(news).about # None /\ Learn(Head(news).about, Head(news).state)
    /\ UNCHANGED links

TrayEnds(i) ==
    /\ tray' = [tray EXCEPT ![i] = None]
    /\ UNCHANGED << links, news, known >>

Next == Remark \/ Hear \/ \E i \in Ifindex : Move(i) \/ TrayEnds(i)

Spec == Init /\ [][Next]_vars
=============================================================================

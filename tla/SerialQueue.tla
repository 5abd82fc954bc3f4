---------------------------- MODULE SerialQueue ----------------------------
(***************************************************************************)
(* What one conversation promises its users: messages are served one at a  *)
(* time, in the order in which they were sent, each at most once; one that *)
(* still waits may be withdrawn (stopped, or dropped because the message   *)
(* it replies to failed).                                                  *)
(***************************************************************************)
EXTENDS QueueFilter

CONSTANTS Message, Nobody

VARIABLES
    submitted,   \* messages accepted so far
    waiting,     \* messages not served yet, oldest first
    active       \* the message being served, or Nobody

vars == <<submitted, waiting, active>>

\* A conversation just opened by its first message, or one reloaded from disk.
Init ==
    \E m \in Message :
        /\ submitted = {m}
        /\ waiting \in {<< >>, <<m>>}
        /\ active = Nobody

Submit(m) ==
    /\ m \notin submitted
    /\ submitted' = submitted \cup {m}
    /\ waiting' = Append(waiting, m)
    /\ UNCHANGED active

Begin ==
    /\ active = Nobody
    /\ waiting # << >>
    /\ active' = Head(waiting)
    /\ waiting' = Tail(waiting)
    /\ UNCHANGED submitted

Withdraw(m) ==
    /\ \E i \in DOMAIN waiting : waiting[i] = m
    /\ waiting' \in Without(waiting, {m})
    /\ UNCHANGED <<submitted, active>>

End ==
    /\ active # Nobody
    /\ active' = Nobody
    /\ UNCHANGED <<submitted, waiting>>

Next ==
    \/ Begin \/ End
    \/ \E m \in Message : Submit(m) \/ Withdraw(m)

Spec == Init /\ [][Next]_vars
=============================================================================

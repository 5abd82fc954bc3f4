---------------------------- MODULE SlidingWindow ----------------------------
(***************************************************************************)
(* core/rate_limit.py: the deque of StrictSlidingWindowLimiter.  A time in *)
(* _times is kept as its age in ticks, so that time itself needs no bound; *)
(* ages stop at Window, where acquire() drops them.                        *)
(***************************************************************************)
EXTENDS Naturals, Sequences, FiniteSets

CONSTANTS
    RateLimit,  \* _rate_limit
    Window      \* _rate_window, in ticks

ASSUME WindowAssumption == RateLimit \in Nat \ {0} /\ Window \in Nat \ {0}

\* A tick makes every acquisition older.
Aged(times) == [i \in 1..Len(times) |-> IF times[i] < Window THEN times[i] + 1 ELSE Window]

\* A slip: times are dropped a tick before they are a window old.
ExpiredShort(times) == Cardinality({i \in 1..Len(times) : \A j \in 1..i : times[j] + 1 >= Window})

\* How many times acquire() pops from the left: it stops at the first within the window.
Expired(times) == Cardinality({i \in 1..Len(times) : \A j \in 1..i : times[j] >= Window})

\* What acquire() leaves of _times before it counts them.
Unexpired(times) == SubSeq(times, Expired(times) + 1, Len(times))

\* acquire() returns at once; otherwise it sleeps until the oldest time expires.
HasRoom(times) == Len(Unexpired(times)) < RateLimit

Acquired(times) == Append(Unexpired(times), 0)

\* What the limiter promises is about: of acquisitions in their order, given as ages,
\* those in the last Window ticks.
Recent(ages) == SubSeq(ages, Cardinality({i \in 1..Len(ages) : ages[i] >= Window}) + 1, Len(ages))

=============================================================================

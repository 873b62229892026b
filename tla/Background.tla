------------------------------ MODULE Background ------------------------------
(***************************************************************************)
(* What internal/background.Supervisor promises its process: tasks run     *)
(* until they end, one failure is published, and a stop either joins every *)
(* task it ever accepted or reports that it abandoned them.  Supervisor    *)
(* implements it, and the process lifecycles are written on top of it.     *)
(***************************************************************************)

CONSTANTS
    Tasks,   \* the tasks handed to Go
    NoErr    \* no failure

VARIABLES
    live,     \* accepted tasks whose goroutine is not over
    failure,  \* the failure that readiness and the lifecycle owner see
    stop      \* how far Shutdown is

bgVars == <<live, failure, stop>>

BackgroundInit ==
    /\ live = {}
    /\ failure = NoErr
    /\ stop = "no"

\* Go before Shutdown.
Accept(t) ==
    /\ stop = "no"
    /\ live' = live \cup {t}
    /\ UNCHANGED <<failure, stop>>

\* A task's failure is published, once per process.  The task may already have
\* been ending when a stop began.
Publish(t) ==
    /\ failure = NoErr
    /\ failure' = t
    /\ UNCHANGED <<live, stop>>

End(t) ==
    /\ t \in live
    /\ live' = live \ {t}
    /\ UNCHANGED <<failure, stop>>

\* Shutdown: no task is accepted any more, those that run are told to stop, and
\* the answer is a join or the report that the budget was spent.
BeginStop ==
    /\ stop = "no"
    /\ stop' = "begun"
    /\ UNCHANGED <<live, failure>>

Join ==
    /\ stop = "begun"
    /\ live = {}
    /\ stop' = "joined"
    /\ UNCHANGED <<live, failure>>

Abandon ==
    /\ stop = "begun"
    /\ stop' = "abandoned"
    /\ UNCHANGED <<live, failure>>

BackgroundNext ==
    \/ \E t \in Tasks : Accept(t) \/ Publish(t) \/ End(t)
    \/ BeginStop \/ Join \/ Abandon

BackgroundSpec == BackgroundInit /\ [][BackgroundNext]_bgVars
=============================================================================

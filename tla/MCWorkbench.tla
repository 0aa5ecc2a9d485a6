----------------------------- MODULE MCWorkbench -----------------------------
(* TLC instance of Workbench.  Each behaviour is about one part of it: the  *)
(* launch of the service, the trust of two tabs, or a tab that follows.     *)
EXTENDS Workbench, TLC

CONSTANTS a, b, x, y

Launch == [agents |-> {a, b}, faults |-> 2, stops |-> 2, visits |-> 0, slips |-> 0,
           asks |-> <<0, 0>>, follows |-> {}, events |-> 0]
Trust  == [agents |-> {}, faults |-> 1, stops |-> 0, visits |-> 2, slips |-> 1,
           asks |-> <<2, 1>>, follows |-> {}, events |-> 0]
Watch  == [agents |-> {}, faults |-> 0, stops |-> 0, visits |-> 1, slips |-> 1,
           asks |-> <<2, 0>>, follows |-> {x}, events |-> 3]
End    == [agents |-> {}, faults |-> 0, stops |-> 1, visits |-> 1, slips |-> 0,
           asks |-> <<1, 0>>, follows |-> {x}, events |-> 1]

ScopedInit ==
    /\ Init
    /\ \E scope \in {Launch, Trust, Watch, End} :
         /\ agents = scope.agents
         /\ faults = scope.faults
         /\ stops = scope.stops
         /\ asks = (x :> scope.asks[1] @@ y :> scope.asks[2])
         /\ visits = scope.visits
         /\ slips = scope.slips
         /\ follows = scope.follows
         /\ events = scope.events

MCSpec == ScopedInit /\ [][Next]_vars /\ Fairness
=============================================================================

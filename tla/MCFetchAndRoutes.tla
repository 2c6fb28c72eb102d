-------------------------- MODULE MCFetchAndRoutes --------------------------
(***************************************************************************)
(* Two parts that share no row: the coalesced fetch of a public page and    *)
(* the pool of AI routes.  Init chooses the part that runs; the fetch stays *)
(* as it starts and the pool is Off while the other runs.                   *)
(***************************************************************************)
EXTENDS SharedFetch, TLC

CONSTANTS
    Routes, Models, Cooldown,
    MaxClock      \* bound of the pool's clock

\* generate falls back to at least one other model, whatever the policy names.
ASSUME PoolConstants ==
    /\ Routes \in Nat \ {0} /\ Models \in Nat \ {0, 1} /\ Cooldown \in Nat
    /\ MaxClock \in Nat \ {0}

VARIABLES
    part,
    enabled, until, clock, own, call, free     \* AiRoutes

R == INSTANCE AiRoutes WITH MaxTime <- MaxClock

pool == <<enabled, until, clock, own, call, free>>

Off == "off"

FetchAndRoutesInit ==
    /\ Init
    /\ \/ part = "routes" /\ R!Init
       \/ /\ part = "fetch"
          /\ enabled = Off /\ until = Off /\ clock = Off /\ own = Off /\ call = Off /\ free = Off

FetchAndRoutesNext ==
    \/ part = "fetch" /\ Next /\ UNCHANGED <<part, pool>>
    \/ part = "routes" /\ R!Next /\ UNCHANGED <<part, vars>>

FetchAndRoutes == FetchAndRoutesInit /\ [][FetchAndRoutesNext]_<<part, vars, pool>>

Symmetry == Permutations(Run) \cup Permutations(Worker)

-----------------------------------------------------------------------------
(* Properties; those of SharedFetch keep their names *)

\* Type correctness of both parts.
TypesOK == TypeOK /\ (part = "routes" => R!TypeOK)

\* AiRoutes: the pool gives up after every enabled route that stayed out of cooldown was
\* called, never before.
NoFalseOutage == part = "routes" => R!NoFalseOutage
=============================================================================

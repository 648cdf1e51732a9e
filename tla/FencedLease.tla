------------------------------ MODULE FencedLease ------------------------------
(***************************************************************************)
(* What the write-lease of an agent promises, without sockets, handlers or *)
(* loops: generations of ownership that only grow, at most one owner per   *)
(* generation, and a freshness that only the owner of the current          *)
(* generation can renew.  AgentLease is shown to implement it.             *)
(***************************************************************************)
EXTENDS Integers

CONSTANTS Conns, NoConn, StaleAfter

VARIABLES
    gen,     \* the current generation
    owner,   \* who may renew it, or NoConn
    token,   \* the generation each connection was granted, 0 for none
    up,      \* somebody is said to be connected
    age      \* time since the lease was last renewed, up to StaleAfter + 1

leaseVars == <<gen, owner, token, up, age>>

LeaseInit ==
    /\ gen = 0
    /\ owner = NoConn
    /\ token = [c \in Conns |-> 0]
    /\ up = FALSE
    /\ age = StaleAfter + 1

\* A connection is granted the next generation; the previous owner is fenced.
Grant(c) ==
    /\ token[c] = 0
    /\ gen' = gen + 1
    /\ token' = [token EXCEPT ![c] = gen + 1]
    /\ owner' = c
    /\ up' = TRUE
    /\ age' = 0

\* The owner, and nobody else, keeps the lease fresh; it cannot bring up an
\* agent that is down.
Refresh ==
    /\ owner # NoConn
    /\ age' = 0
    /\ UNCHANGED <<gen, owner, token, up>>

\* Somebody departs: the agent is down, and stays so until the next grant.
Depart ==
    /\ up' = FALSE
    /\ age' = 0
    /\ UNCHANGED <<gen, owner, token>>

\* An expired generation is closed without naming a successor.
Expire ==
    /\ up
    /\ age > StaleAfter
    /\ gen' = gen + 1
    /\ owner' = NoConn
    /\ up' = FALSE
    /\ UNCHANGED <<token, age>>

Elapse ==
    /\ age <= StaleAfter
    /\ age' = age + 1
    /\ UNCHANGED <<gen, owner, token, up>>

LeaseNext ==
    \/ \E c \in Conns : Grant(c)
    \/ Refresh \/ Depart \/ Expire \/ Elapse

LeaseSpec == LeaseInit /\ [][LeaseNext]_leaseVars
=============================================================================

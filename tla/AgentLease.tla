------------------------------ MODULE AgentLease ------------------------------
(***************************************************************************)
(* The write-lease of one agent and the websocket connections that compete *)
(* for it: facade/persist_backend.py (claim, renew, release, revoke),      *)
(* facade/consumers/agent_protocol.py (registration, heartbeat loop,       *)
(* stop_executing, shutdown), facade/consumers/async_consumer.py           *)
(* (displacement, disconnect) and facade/liveness.py.                      *)
(*                                                                         *)
(* One agent is modelled: every write below addresses a single Agent row,  *)
(* and no two rows share state.  A connection id is a uuid4 drawn for one  *)
(* socket, so a member of Conns connects at most once; a process that      *)
(* reconnects is another member.  Channels runs the handlers of one        *)
(* connection one after the other (pc is where the running one stands),    *)
(* while its listen loop (draining) and its heartbeat loop (beat) run      *)
(* beside them.  A step of the model is the code between two awaits or one *)
(* database transaction.                                                   *)
(***************************************************************************)
EXTENDS Integers, FiniteSets

CONSTANTS
    Conns,        \* connection ids, one per socket
    NoConn,       \* active_connection_id IS NULL
    StaleAfter,   \* AGENT_STALE_AFTER, in clock ticks
    MaxInbox      \* how many client frames a socket may have queued

ASSUME ConnsAssumption == NoConn \notin Conns
ASSUME StaleAssumption == StaleAfter \in Nat \ {0}
ASSUME InboxAssumption == MaxInbox \in Nat \ {0}

VARIABLES
    connected,    \* the row: Agent.connected
    age,          \* the row: now - Agent.last_seen, see Ages
    lease_epoch,  \* the row: Agent.lease_epoch
    active_connection_id,
    pc,           \* the handler a connection is running, see Handlers
    held,         \* RegisteredSession.lease_epoch, 0 before a claim
    displaced,    \* LeaseClaim.displaced_incumbent of a pending registration
    closeSent,    \* the server has sent the close frame
    draining,     \* listen_for_tasks is running
    beat,         \* the heartbeat loop: off, sleeping or waiting for an answer
    inbox,        \* heartbeat frames of the client not yet dispatched
    displace      \* an agent.displace event is queued for the connection

row   == <<connected, age, lease_epoch, active_connection_id>>
loops == <<draining, beat>>
mail  == <<inbox, displace>>
vars  == <<row, pc, held, displaced, closeSent, loops, mail>>

(***************************************************************************)
(* Only the distance between now and last_seen is ever compared, and only  *)
(* with StaleAfter, so the clock is kept as an age that stops growing one  *)
(* tick past the window.  A NULL last_seen behaves like that oldest age in *)
(* both predicates.                                                        *)
(***************************************************************************)
Ages     == 0 .. StaleAfter + 1
Handlers == {"idle", "open", "registering", "claimed", "serving", "renewing",
             "fenced", "rejected", "releasing", "gone"}
Loop     == {"off", "sleeping", "waiting"}

TypeOK ==
    /\ connected \in BOOLEAN
    /\ age \in Ages
    /\ lease_epoch \in Nat
    /\ active_connection_id \in Conns \cup {NoConn}
    /\ pc \in [Conns -> Handlers]
    /\ held \in [Conns -> Nat]
    /\ displaced \in [Conns -> BOOLEAN]
    /\ closeSent \in [Conns -> BOOLEAN]
    /\ draining \in [Conns -> BOOLEAN]
    /\ beat \in [Conns -> Loop]
    /\ inbox \in [Conns -> 0 .. MaxInbox]
    /\ displace \in [Conns -> BOOLEAN]

Init ==
    /\ connected = FALSE
    /\ age = StaleAfter + 1
    /\ lease_epoch = 0
    /\ active_connection_id = NoConn
    /\ pc = [c \in Conns |-> "idle"]
    /\ held = [c \in Conns |-> 0]
    /\ displaced = [c \in Conns |-> FALSE]
    /\ closeSent = [c \in Conns |-> FALSE]
    /\ draining = [c \in Conns |-> FALSE]
    /\ beat = [c \in Conns |-> "off"]
    /\ inbox = [c \in Conns |-> 0]
    /\ displace = [c \in Conns |-> FALSE]

\* liveness.agent_is_live: last_seen > now - stale.
Live  == connected /\ age < StaleAfter
\* liveness.agent_is_stale: last_seen < now - stale.  At the very boundary an
\* agent is neither live nor stale.
Stale == connected /\ age > StaleAfter

\* A handler of the connection is between two events and may take the next one.
Ready(c)      == pc[c] \in {"open", "serving", "rejected"}
\* on_register built a RegisteredSession.
HasSession(c) == pc[c] \in {"serving", "renewing", "fenced", "releasing"}
\* Members of the agent's connection group that a displacement still affects.
Group         == {c \in Conns : pc[c] \in {"registering", "claimed", "serving", "renewing", "fenced"}}
\* The connection whose token is the current one.
Owns(c)       == held[c] # 0 /\ held[c] = lease_epoch

-----------------------------------------------------------------------------
(* Opening a socket and registering.                                        *)

Connect(c) ==
    /\ pc[c] = "idle"
    /\ pc' = [pc EXCEPT ![c] = "open"]
    /\ UNCHANGED <<row, held, displaced, closeSent, loops, mail>>

\* A frame that is not JSON, does not match the schema, is not a Register
\* although it is the first, or whose handler raised: the server closes, and
\* nothing stops the loops.
BadFrame(c) ==
    /\ pc[c] \in {"open", "serving"}
    /\ closeSent' = [closeSent EXCEPT ![c] = TRUE]
    /\ UNCHANGED <<row, pc, held, displaced, loops, mail>>

\* The Register authenticates, the agent is not blocked, and the connection
\* joins its caller group and its connection group.
Register(c) ==
    /\ pc[c] = "open"
    /\ pc' = [pc EXCEPT ![c] = "registering"]
    /\ UNCHANGED <<row, held, displaced, closeSent, loops, mail>>

\* The token is refused or the agent is blocked.
RefuseRegister(c) ==
    /\ pc[c] = "open"
    /\ pc' = [pc EXCEPT ![c] = "rejected"]
    /\ closeSent' = [closeSent EXCEPT ![c] = TRUE]
    /\ UNCHANGED <<row, held, displaced, loops, mail>>

\* A mutant of Claim: the fencing token is handed out without being bumped.
ClaimSameEpoch(c, force) ==
    /\ pc[c] = "registering"
    /\ ~Live \/ force
    /\ lease_epoch' = IF lease_epoch = 0 THEN 1 ELSE lease_epoch
    /\ connected' = TRUE
    /\ age' = 0
    /\ active_connection_id' = c
    /\ held' = [held EXCEPT ![c] = lease_epoch']
    /\ displaced' = [displaced EXCEPT ![c] = connected]
    /\ pc' = [pc EXCEPT ![c] = "claimed"]
    /\ UNCHANGED <<closeSent, loops, mail>>

\* _claim_lease_sync, one transaction under the row lock: the gate and the
\* write together.
Claim(c, force) ==
    /\ pc[c] = "registering"
    /\ ~Live \/ force
    /\ lease_epoch' = lease_epoch + 1
    /\ connected' = TRUE
    /\ age' = 0
    /\ active_connection_id' = c
    /\ held' = [held EXCEPT ![c] = lease_epoch + 1]
    /\ displaced' = [displaced EXCEPT ![c] = connected]
    /\ pc' = [pc EXCEPT ![c] = "claimed"]
    /\ UNCHANGED <<closeSent, loops, mail>>

\* The gate of _claim_lease_sync rejects: a provably live incumbent, no force.
ClaimRejected(c) ==
    /\ pc[c] = "registering"
    /\ Live
    /\ pc' = [pc EXCEPT ![c] = "rejected"]
    /\ closeSent' = [closeSent EXCEPT ![c] = TRUE]
    /\ UNCHANGED <<row, held, displaced, loops, mail>>

\* The rest of on_register: displace the others (a best-effort group_send, so
\* any subset of the group may receive it), build the session, send Init and
\* spawn the two loops.
Activate(c) ==
    /\ pc[c] = "claimed"
    /\ \E reached \in SUBSET (Group \ {c}) :
          /\ ~displaced[c] => reached = {}
          /\ displace' = [d \in Conns |-> displace[d] \/ d \in reached]
    /\ pc' = [pc EXCEPT ![c] = "serving"]
    /\ draining' = [draining EXCEPT ![c] = TRUE]
    /\ beat' = [beat EXCEPT ![c] = "sleeping"]
    /\ displaced' = [displaced EXCEPT ![c] = FALSE]
    /\ UNCHANGED <<row, held, closeSent, inbox>>

\* on_register raises after the claim committed.  Before the session is built
\* (the cascade or the group_send failed) nothing will ever release the lease;
\* after it (sending Init failed) the session exists without its loops.
AbortRegister(c) ==
    /\ pc[c] = "claimed"
    /\ \E next \in {"rejected", "serving"} : pc' = [pc EXCEPT ![c] = next]
    /\ closeSent' = [closeSent EXCEPT ![c] = TRUE]
    /\ displaced' = [displaced EXCEPT ![c] = FALSE]
    /\ UNCHANGED <<row, held, loops, mail>>

-----------------------------------------------------------------------------
(* Heartbeats.                                                              *)

\* The client sends a HeartbeatEvent, in answer to a ping or not.
ClientBeat(c) ==
    /\ HasSession(c)
    /\ ~closeSent[c]
    /\ inbox[c] < MaxInbox
    /\ inbox' = [inbox EXCEPT ![c] = @ + 1]
    /\ UNCHANGED <<row, pc, held, displaced, closeSent, loops, displace>>

\* The loop wakes up, arms its future and pings.
Ping(c) ==
    /\ beat[c] = "sleeping"
    /\ beat' = [beat EXCEPT ![c] = "waiting"]
    /\ UNCHANGED <<row, pc, held, displaced, closeSent, draining, mail>>

\* A mutant of PingTimeout: the loop closes without stop_executing.
PingTimeoutKeepsDraining(c) ==
    /\ beat[c] = "waiting"
    /\ beat' = [beat EXCEPT ![c] = "off"]
    /\ closeSent' = [closeSent EXCEPT ![c] = TRUE]
    /\ UNCHANGED <<row, pc, held, displaced, draining, mail>>

\* wait_for times out: stop_executing, close, and the loop is over.
PingTimeout(c) ==
    /\ beat[c] = "waiting"
    /\ beat' = [beat EXCEPT ![c] = "off"]
    /\ draining' = [draining EXCEPT ![c] = FALSE]
    /\ closeSent' = [closeSent EXCEPT ![c] = TRUE]
    /\ UNCHANGED <<row, pc, held, displaced, mail>>

\* on_agent_heartbeat up to its await: the future is resolved first.
BeginBeat(c) ==
    /\ pc[c] = "serving"
    /\ inbox[c] > 0
    /\ inbox' = [inbox EXCEPT ![c] = @ - 1]
    /\ beat' = [beat EXCEPT ![c] = IF @ = "waiting" THEN "sleeping" ELSE @]
    /\ pc' = [pc EXCEPT ![c] = "renewing"]
    /\ UNCHANGED <<row, held, displaced, closeSent, draining, displace>>

\* A mutant of Renew: every beat also writes connected back.
RenewReasserts(c) ==
    /\ pc[c] = "renewing"
    /\ age' = 0
    /\ connected' = TRUE
    /\ pc' = [pc EXCEPT ![c] = "serving"]
    /\ UNCHANGED <<lease_epoch, active_connection_id, held, displaced, closeSent, loops, mail>>

\* renew_agent_lease: a compare-and-set on the epoch that writes last_seen only.
Renew(c) ==
    /\ pc[c] = "renewing"
    /\ age' = IF held[c] = lease_epoch THEN 0 ELSE age
    /\ pc' = [pc EXCEPT ![c] = IF held[c] = lease_epoch THEN "serving" ELSE "fenced"]
    /\ UNCHANGED <<connected, lease_epoch, active_connection_id, held, displaced,
                   closeSent, loops, mail>>

\* The compare-and-set matched no row: stop_executing, then close.
StopFenced(c) ==
    /\ pc[c] = "fenced"
    /\ pc' = [pc EXCEPT ![c] = "serving"]
    /\ draining' = [draining EXCEPT ![c] = FALSE]
    /\ closeSent' = [closeSent EXCEPT ![c] = TRUE]
    /\ UNCHANGED <<row, held, displaced, beat, mail>>

\* agent_displace: a close frame, and nothing else.
AgentDisplace(c) ==
    /\ displace[c]
    /\ Ready(c)
    /\ displace' = [displace EXCEPT ![c] = FALSE]
    /\ closeSent' = [closeSent EXCEPT ![c] = TRUE]
    /\ UNCHANGED <<row, pc, held, displaced, loops, inbox>>

-----------------------------------------------------------------------------
(* Losing a socket.                                                         *)

\* The loops are cancelled and the events still queued for c are dropped.
Teardown(c) ==
    /\ draining' = [draining EXCEPT ![c] = FALSE]
    /\ beat' = [beat EXCEPT ![c] = "off"]
    /\ inbox' = [inbox EXCEPT ![c] = 0]
    /\ displace' = [displace EXCEPT ![c] = FALSE]
    /\ displaced' = [displaced EXCEPT ![c] = FALSE]
    /\ closeSent' = [closeSent EXCEPT ![c] = FALSE]

\* disconnect: leave the groups, cancel the loops and, with a session, read the
\* row in on_agent_disconnected and test the generation guard.  The write is a
\* later step: nothing locks the row in between.
Disconnect(c) ==
    /\ Ready(c)
    /\ pc' = [pc EXCEPT ![c] = IF HasSession(c) /\ active_connection_id = c
                               THEN "releasing" ELSE "gone"]
    /\ Teardown(c)
    /\ UNCHANGED <<row, held>>

\* agent.asave(update_fields=["connected", "last_seen"]).
ReleaseWrite(c) ==
    /\ pc[c] = "releasing"
    /\ connected' = FALSE
    /\ age' = 0
    /\ pc' = [pc EXCEPT ![c] = "gone"]
    /\ UNCHANGED <<lease_epoch, active_connection_id, held, displaced, closeSent, loops, mail>>

\* The worker process dies, or its server gives up on the handler: no
\* disconnect runs and the loops are gone.
Crash(c) ==
    /\ pc[c] \notin {"idle", "gone"}
    /\ pc' = [pc EXCEPT ![c] = "gone"]
    /\ Teardown(c)
    /\ UNCHANGED <<row, held>>

\* A mutant of Revoke: connected is cleared but the epoch is not bumped.
RevokeWithoutFence ==
    /\ Stale
    /\ connected' = FALSE
    /\ UNCHANGED <<age, lease_epoch, active_connection_id, pc, held, displaced, closeSent, loops, mail>>

\* A mutant of Revoke: the re-check under the row lock has its sense reversed.
RevokeLive ==
    /\ Live
    /\ connected' = FALSE
    /\ lease_epoch' = lease_epoch + 1
    /\ UNCHANGED <<age, active_connection_id, pc, held, displaced, closeSent, loops, mail>>

\* _revoke_lease_sync: the sweep of any worker, staleness re-checked under the
\* row lock; last_seen and active_connection_id stay.
Revoke ==
    /\ Stale
    /\ connected' = FALSE
    /\ lease_epoch' = lease_epoch + 1
    /\ UNCHANGED <<age, active_connection_id, pc, held, displaced, closeSent, loops, mail>>

\* Time passes.
Tick ==
    /\ age <= StaleAfter
    /\ age' = age + 1
    /\ UNCHANGED <<connected, lease_epoch, active_connection_id, pc, held, displaced,
                   closeSent, loops, mail>>

-----------------------------------------------------------------------------
Next ==
    \/ \E c \in Conns :
          \/ Connect(c) \/ BadFrame(c) \/ Register(c) \/ RefuseRegister(c)
          \/ \E force \in BOOLEAN : Claim(c, force)
          \/ ClaimRejected(c) \/ Activate(c) \/ AbortRegister(c)
          \/ ClientBeat(c) \/ Ping(c) \/ PingTimeout(c)
          \/ BeginBeat(c) \/ Renew(c) \/ StopFenced(c) \/ AgentDisplace(c)
          \/ Disconnect(c) \/ ReleaseWrite(c) \/ Crash(c)
    \/ Revoke
    \/ Tick

Spec == Init /\ [][Next]_vars

(***************************************************************************)
(* What a running worker guarantees: a handler that began goes on, a       *)
(* queued frame is dispatched, the heartbeat loop wakes up and its         *)
(* wait_for ends, a reaper keeps sweeping, and time passes.  Nothing is    *)
(* assumed of clients, and Disconnect is never assumed to come.            *)
(***************************************************************************)
Fairness ==
    /\ \A c \in Conns :
          /\ WF_vars(Activate(c) \/ AbortRegister(c))
          /\ WF_vars(BeginBeat(c))
          /\ WF_vars(Renew(c))
          /\ WF_vars(StopFenced(c))
          /\ WF_vars(Ping(c))
          /\ WF_vars(PingTimeout(c))
          /\ WF_vars(ReleaseWrite(c))
    /\ WF_vars(Revoke)
    /\ WF_vars(Tick)

FairSpec == Spec /\ Fairness

-----------------------------------------------------------------------------
(* Properties.                                                              *)

(***************************************************************************)
(* The singleton rule of _claim_lease_sync and renew_agent_lease: no two   *)
(* connections ever hold the same fencing token, none holds a token that   *)
(* was not issued yet, and the one that holds the current token is the one *)
(* active_connection_id names, so the compare-and-set of the heartbeat and *)
(* the generation guard of the disconnect can never disagree about who     *)
(* owns the agent.                                                         *)
(***************************************************************************)
TokensFence ==
    /\ \A c, d \in Conns : held[c] = held[d] /\ held[c] # 0 => c = d
    /\ \A c \in Conns : held[c] <= lease_epoch
    /\ \A c \in Conns : Owns(c) => active_connection_id = c

(***************************************************************************)
(* A revoke sticks (_revoke_lease_sync, on_agent_heartbeat): an agent that *)
(* is not connected becomes connected only by a claim, which issues a new  *)
(* token, and the epoch never goes back.  A late heartbeat of a resumed    *)
(* worker, in whatever order it arrives, cannot resurrect the agent.       *)
(***************************************************************************)
NoResurrection ==
    [][/\ lease_epoch' >= lease_epoch
       /\ connected' /\ ~connected => lease_epoch' = lease_epoch + 1]_vars

(***************************************************************************)
(* Only the owner keeps the agent alive (renew_agent_lease): without a     *)
(* claim, last_seen of a connected agent moves forward only on behalf of   *)
(* the connection that holds the current token and whose session is up.    *)
(***************************************************************************)
OnlyOwnerRenews ==
    [][connected' /\ age' < age /\ lease_epoch' = lease_epoch =>
          \E c \in Conns : /\ held[c] = lease_epoch
                           /\ active_connection_id = c
                           /\ HasSession(c)]_vars

(***************************************************************************)
(* A fenced connection terminates itself (on_agent_heartbeat, heartbeat):  *)
(* whoever drains the executor queue with a superseded token stops, even   *)
(* if the displacement message is lost and the client never disconnects.   *)
(***************************************************************************)
FencedStopsDraining ==
    \A c \in Conns : (draining[c] /\ held[c] < lease_epoch) ~> ~draining[c]

(***************************************************************************)
(* A connection the server has closed stops draining, whichever path sent  *)
(* the close frame (agent_displace and receive do not stop the loop).      *)
(***************************************************************************)
ClosedStopsDraining ==
    \A c \in Conns : closeSent[c] ~> ~draining[c]

(***************************************************************************)
(* No agent stays stuck connected (reconcile_stale_agents): when nobody    *)
(* who could renew or release the lease is left, the agent is revoked or   *)
(* claimed again.                                                          *)
(***************************************************************************)
Abandoned == connected /\ \A c \in Conns : Owns(c) => pc[c] \in {"rejected", "gone"}

AbandonedIsHealed == Abandoned ~> ~Abandoned

(***************************************************************************)
(* AgentLease implements the abstract lease: the owner is the connection   *)
(* active_connection_id names, as long as its token is the current one, so *)
(* every row write of persist_backend is a grant, a refresh by the owner,  *)
(* a departure, an expiry or no step at all.                               *)
(***************************************************************************)
LeaseOwner ==
    IF active_connection_id # NoConn
    THEN IF held[active_connection_id] = lease_epoch THEN active_connection_id ELSE NoConn
    ELSE NoConn

Lease == INSTANCE FencedLease WITH
            gen <- lease_epoch, owner <- LeaseOwner, token <- held, up <- connected

ImplementsFencedLease == Lease!LeaseSpec

(***************************************************************************)
(* liveness.py line 15 and docs/design/agent-protocol.md line 173: the     *)
(* release takes the row lock, so a departing connection cannot clobber    *)
(* the live one's state.  The owner, up and draining, is connected.        *)
(***************************************************************************)
OwnerStaysConnected ==
    \A c \in Conns : Owns(c) /\ HasSession(c) /\ draining[c] => connected
=============================================================================

----------------------------- MODULE AgentRowSave -----------------------------
(***************************************************************************)
(* The GraphQL mutations that write a whole Agent row next to the lease    *)
(* protocol: block and unblock (facade/backend.py), pin_agent and          *)
(* update_agent (facade/mutations/agent.py).  Each reads the row, changes  *)
(* one field that the lease does not use, and calls save() without         *)
(* update_fields, so every column goes back as it was read.  No lock and   *)
(* no transaction spans the two.                                           *)
(***************************************************************************)
EXTENDS AgentLease

CONSTANTS MaxSaves    \* how many such mutations a behaviour may contain

ASSUME SavesAssumption == MaxSaves \in Nat

VARIABLES
    blocked,   \* the row: Agent.blocked
    draft,     \* the model instance a mutation is holding, or NoDraft
    saves      \* mutations begun so far

saveVars == <<vars, blocked, draft, saves>>

NoDraft == [held |-> FALSE]

Drafts == [connected : BOOLEAN, age : Ages, lease_epoch : Nat,
           active : Conns \cup {NoConn}, blocked : BOOLEAN]

SaveTypeOK ==
    /\ TypeOK
    /\ blocked \in BOOLEAN
    /\ draft \in Drafts \cup {NoDraft}
    /\ saves \in 0 .. MaxSaves

SaveInit ==
    /\ Init
    /\ blocked = FALSE
    /\ draft = NoDraft
    /\ saves = 0

\* models.Agent.objects.get(id=...).
ReadRow ==
    /\ draft = NoDraft
    /\ saves < MaxSaves
    /\ draft' = [connected |-> connected, age |-> age,
                 lease_epoch |-> lease_epoch, active |-> active_connection_id,
                 blocked |-> blocked]
    /\ saves' = saves + 1
    /\ UNCHANGED <<vars, blocked>>

\* A mutant of SaveRow: save(update_fields=[...]) that lists connected but
\* leaves the fencing token out.
SaveRowWithoutEpoch ==
    /\ draft # NoDraft
    /\ connected' = draft.connected
    /\ age' = draft.age
    /\ blocked' \in {draft.blocked, TRUE, FALSE}
    /\ draft' = NoDraft
    /\ UNCHANGED <<lease_epoch, active_connection_id, pc, held, displaced, closeSent, loops, mail, saves>>

\* agent.save(): the whole row as it was read.  block then pushes a Kick into
\* the agent's queue, which the drain delivers like any other message.
SaveRow ==
    /\ draft # NoDraft
    /\ connected' = draft.connected
    /\ age' = draft.age
    /\ lease_epoch' = draft.lease_epoch
    /\ active_connection_id' = draft.active
    /\ \/ blocked' = TRUE             \* block
       \/ blocked' = FALSE            \* unblock
       \/ blocked' = draft.blocked    \* pin_agent, update_agent
    /\ draft' = NoDraft
    /\ UNCHANGED <<pc, held, displaced, closeSent, loops, mail, saves>>

\* The last_seen a mutation holds grows old with the clock.
TickDraft ==
    /\ Tick
    /\ draft' = IF draft = NoDraft \/ draft.age > StaleAfter
                THEN draft ELSE [draft EXCEPT !.age = @ + 1]
    /\ UNCHANGED <<blocked, saves>>

\* The blocked gate of on_register, on the instance the authenticator loaded.
GatedRegister(c) == (Register(c) /\ ~blocked) \/ RefuseRegister(c)

ConnStep(c) ==
    \/ Connect(c) \/ BadFrame(c) \/ GatedRegister(c)
    \/ \E force \in BOOLEAN : Claim(c, force)
    \/ ClaimRejected(c) \/ Activate(c) \/ AbortRegister(c)
    \/ ClientBeat(c) \/ Ping(c) \/ PingTimeout(c)
    \/ BeginBeat(c) \/ Renew(c) \/ StopFenced(c) \/ AgentDisplace(c)
    \/ Disconnect(c) \/ ReleaseWrite(c) \/ Crash(c)

SaveNext ==
    \/ (Revoke \/ \E c \in Conns : ConnStep(c)) /\ UNCHANGED <<blocked, draft, saves>>
    \/ TickDraft
    \/ ReadRow
    \/ SaveRow

SaveFairness ==
    /\ \A c \in Conns :
          /\ WF_vars(Activate(c) \/ AbortRegister(c))
          /\ WF_vars(BeginBeat(c))
          /\ WF_vars(Renew(c))
          /\ WF_vars(StopFenced(c))
          /\ WF_vars(Ping(c))
          /\ WF_vars(PingTimeout(c))
          /\ WF_vars(ReleaseWrite(c))
    /\ WF_vars(Revoke)
    /\ WF_saveVars(TickDraft)
    /\ WF_saveVars(SaveRow)

SaveSpec     == SaveInit /\ [][SaveNext]_saveVars
FairSaveSpec == SaveSpec /\ SaveFairness

-----------------------------------------------------------------------------
(* Properties.                                                              *)

(***************************************************************************)
(* Even a row that a mutation rolled back to a connection long gone is     *)
(* healed by the stale sweep (reconcile_stale_agents): connected never     *)
(* stays on with nobody left to renew or to release it.                    *)
(***************************************************************************)
RolledBackIsHealed == Abandoned ~> ~Abandoned

(***************************************************************************)
(* A connection whose token a rollback took away, in either direction,     *)
(* stops draining at a heartbeat (on_agent_heartbeat compares for          *)
(* equality) unless the row names its epoch again.                         *)
(***************************************************************************)
MismatchStopsDraining ==
    \A c \in Conns : (draining[c] /\ held[c] # lease_epoch) ~>
                     (~draining[c] \/ held[c] = lease_epoch)

(***************************************************************************)
(* However late it comes, a whole-row save (backend.block, update_agent)   *)
(* writes a row that was once current: connected and lease_epoch go back   *)
(* together, so a connected row always names an epoch that some connection *)
(* claimed and the heartbeat compare-and-set can still match or fence it.  *)
(***************************************************************************)
ConnectedHasClaimant ==
    connected => \E c \in Conns : held[c] = lease_epoch
=============================================================================

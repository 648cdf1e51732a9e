------------------------------ MODULE AgentProofs ------------------------------
(***************************************************************************)
(* Proofs about AgentLease, for any set of connections, any stale window   *)
(* and any inbox size; about AgentRowSave: what stays true of that lease   *)
(* when whole-row saves roll the row back; and about AgentQueue, for any   *)
(* messages and any number of competing listen loops.                      *)
(***************************************************************************)
EXTENDS AgentRowSave, AgentQueue, SequenceTheorems, FiniteSetTheorems, TLAPS
-----------------------------------------------------------------------------
(* The lease.                                                                *)


\* The handlers that run before, and those that run after, the claim of a
\* connection committed.
BeforeClaim == {"idle", "open", "registering"}
AfterClaim  == {"claimed", "serving", "renewing", "fenced", "releasing"}

\* A token is held exactly from the claim on.
TokenFollowsHandler ==
    \A c \in Conns : /\ pc[c] \in BeforeClaim => held[c] = 0
                     /\ pc[c] \in AfterClaim => held[c] # 0

\* The inductive invariant.
LeaseInv == TypeOK /\ TokensFence /\ TokenFollowsHandler

(***************************************************************************)
(* The steps that leave the row and the tokens alone; each of them moves   *)
(* at most one handler, and never from one side of its claim to the other. *)
(***************************************************************************)
QuietStep(c) ==
    \/ Connect(c) \/ BadFrame(c) \/ Register(c) \/ RefuseRegister(c)
    \/ ClaimRejected(c) \/ Activate(c) \/ AbortRegister(c)
    \/ ClientBeat(c) \/ Ping(c) \/ PingTimeout(c)
    \/ BeginBeat(c) \/ StopFenced(c) \/ AgentDisplace(c)
    \/ Disconnect(c) \/ Crash(c)

\* Every handler of a connection except the claim, the renewal and the release
\* leaves the Agent row and all tokens unchanged, keeps the types, and keeps
\* the connection on its side of the claim (agent_protocol.py, async_consumer.py).
LEMMA QuietStepFacts ==
    ASSUME TypeOK, TokenFollowsHandler, NEW c \in Conns, QuietStep(c)
    PROVE  TypeOK' /\ UNCHANGED <<row, held>> /\ TokenFollowsHandler'
<1> USE ConnsAssumption, StaleAssumption, InboxAssumption
<1>1. UNCHANGED <<row, held>>
  BY DEF QuietStep, Connect, BadFrame, Register, RefuseRegister, ClaimRejected,
         Activate, AbortRegister, ClientBeat, Ping, PingTimeout, BeginBeat,
         StopFenced, AgentDisplace, Disconnect, Crash, row
<1>2. TypeOK'
  <2>1. CASE Connect(c) \/ BadFrame(c) \/ Register(c) \/ RefuseRegister(c)
    BY <2>1 DEF Connect, BadFrame, Register, RefuseRegister, TypeOK, Handlers, row, loops, mail
  <2>2. CASE ClaimRejected(c) \/ AbortRegister(c)
    BY <2>2 DEF ClaimRejected, AbortRegister, TypeOK, Handlers, row, loops, mail
  <2>3. CASE Activate(c)
    BY <2>3 DEF Activate, TypeOK, Handlers, Loop, row
  <2>4. CASE ClientBeat(c)
    BY <2>4 DEF ClientBeat, TypeOK, row, loops
  <2>5. CASE Ping(c) \/ PingTimeout(c)
    BY <2>5 DEF Ping, PingTimeout, TypeOK, Loop, row, mail
  <2>6. CASE BeginBeat(c)
    BY <2>6 DEF BeginBeat, TypeOK, Handlers, Loop, row
  <2>7. CASE StopFenced(c) \/ AgentDisplace(c)
    BY <2>7 DEF StopFenced, AgentDisplace, TypeOK, Handlers, row, loops, mail
  <2>8. CASE Disconnect(c) \/ Crash(c)
    <3>1. pc' \in [Conns -> Handlers]
      BY <2>8 DEF Disconnect, Crash, HasSession, TypeOK, Handlers
    <3>2. Teardown(c)
      BY <2>8 DEF Disconnect, Crash
    <3>3. /\ beat' \in [Conns -> Loop]
          /\ inbox' \in [Conns -> 0 .. MaxInbox]
      BY <3>2 DEF Teardown, TypeOK, Loop
    <3>4. /\ draining' \in [Conns -> BOOLEAN]
          /\ displace' \in [Conns -> BOOLEAN]
          /\ displaced' \in [Conns -> BOOLEAN]
          /\ closeSent' \in [Conns -> BOOLEAN]
      BY <3>2 DEF Teardown, TypeOK
    <3>5. QED
      BY <1>1, <3>1, <3>3, <3>4 DEF TypeOK, row
  <2>9. QED
    BY <2>1, <2>2, <2>3, <2>4, <2>5, <2>6, <2>7, <2>8 DEF QuietStep
<1>3. TokenFollowsHandler'
  BY <1>1 DEF QuietStep, Connect, BadFrame, Register, RefuseRegister, ClaimRejected,
         Activate, AbortRegister, ClientBeat, Ping, PingTimeout, BeginBeat, StopFenced,
         AgentDisplace, Disconnect, Crash, Ready, HasSession, TokenFollowsHandler,
         BeforeClaim, AfterClaim, TypeOK, Handlers
<1>4. QED
  BY <1>1, <1>2, <1>3

\* TokensFence speaks of the tokens, the epoch and active_connection_id only.
LEMMA TokensFenceStable ==
    ASSUME TokensFence, UNCHANGED <<held, lease_epoch, active_connection_id>>
    PROVE  TokensFence'
BY DEF TokensFence, Owns

\* The invariant holds of a fresh row with no connection open (models/agent.py).
LEMMA LeaseInvInit == Init => LeaseInv
<1> SUFFICES ASSUME Init
             PROVE  LeaseInv
  OBVIOUS
<1> USE ConnsAssumption, StaleAssumption, InboxAssumption
<1>1. /\ age \in Ages
      /\ lease_epoch \in Nat
      /\ held \in [Conns -> Nat]
      /\ inbox \in [Conns -> 0 .. MaxInbox]
  BY DEF Init, Ages
<1>2. /\ pc \in [Conns -> Handlers]
      /\ beat \in [Conns -> Loop]
      /\ active_connection_id \in Conns \cup {NoConn}
  BY DEF Init, Handlers, Loop
<1>3. /\ connected \in BOOLEAN
      /\ displaced \in [Conns -> BOOLEAN]
      /\ closeSent \in [Conns -> BOOLEAN]
      /\ draining \in [Conns -> BOOLEAN]
      /\ displace \in [Conns -> BOOLEAN]
  BY DEF Init
<1>4. TokensFence /\ TokenFollowsHandler
  BY DEF Init, TokensFence, TokenFollowsHandler, Owns, BeforeClaim, AfterClaim
<1>5. QED
  BY <1>1, <1>2, <1>3, <1>4 DEF LeaseInv, TypeOK

\* Every step of the lease protocol of persist_backend.py preserves the invariant.
LEMMA LeaseInvNext == LeaseInv /\ [Next]_vars => LeaseInv'
<1> SUFFICES ASSUME LeaseInv, [Next]_vars
             PROVE  LeaseInv'
  OBVIOUS
<1> USE ConnsAssumption, StaleAssumption, InboxAssumption
<1>1. ASSUME NEW c \in Conns, QuietStep(c)
      PROVE  LeaseInv'
  BY <1>1, QuietStepFacts, TokensFenceStable DEF LeaseInv, row
<1>2. ASSUME NEW c \in Conns, NEW force \in BOOLEAN, Claim(c, force)
      PROVE  LeaseInv'
  <2>1. TypeOK'
    BY <1>2 DEF Claim, LeaseInv, TypeOK, Handlers, Ages, loops, mail
  <2>2. TokensFence'
    <3>1. /\ held' = [held EXCEPT ![c] = lease_epoch + 1]
          /\ lease_epoch' = lease_epoch + 1
          /\ active_connection_id' = c
      BY <1>2 DEF Claim
    <3>2. \A d \in Conns : held[d] \in Nat /\ held[d] <= lease_epoch
      BY DEF LeaseInv, TypeOK, TokensFence
    <3>3. lease_epoch \in Nat /\ held \in [Conns -> Nat]
      BY DEF LeaseInv, TypeOK
    <3>4. QED
      BY <3>1, <3>2, <3>3 DEF TokensFence, LeaseInv, Owns
  <2>3. TokenFollowsHandler'
    BY <1>2 DEF Claim, LeaseInv, TypeOK, TokenFollowsHandler, BeforeClaim, AfterClaim, Handlers
  <2>4. QED
    BY <2>1, <2>2, <2>3 DEF LeaseInv
<1>3. ASSUME NEW c \in Conns, Renew(c)
      PROVE  LeaseInv'
  <2>1. TypeOK'
    BY <1>3 DEF Renew, LeaseInv, TypeOK, Handlers, Ages, loops, mail
  <2>2. TokensFence'
    BY <1>3, TokensFenceStable DEF Renew, LeaseInv
  <2>3. TokenFollowsHandler'
    BY <1>3 DEF Renew, LeaseInv, TypeOK, TokenFollowsHandler, BeforeClaim, AfterClaim, Handlers
  <2>4. QED
    BY <2>1, <2>2, <2>3 DEF LeaseInv
<1>4. ASSUME NEW c \in Conns, ReleaseWrite(c)
      PROVE  LeaseInv'
  <2>1. TypeOK'
    <3>1. connected' \in BOOLEAN
      BY <1>4 DEF ReleaseWrite
    <3>2. QED
      BY <1>4, <3>1 DEF ReleaseWrite, LeaseInv, TypeOK, Handlers, Ages, loops, mail
  <2>2. TokensFence'
    BY <1>4, TokensFenceStable DEF ReleaseWrite, LeaseInv
  <2>3. TokenFollowsHandler'
    BY <1>4 DEF ReleaseWrite, LeaseInv, TypeOK, TokenFollowsHandler, BeforeClaim, AfterClaim, Handlers
  <2>4. QED
    BY <2>1, <2>2, <2>3 DEF LeaseInv
<1>5. CASE Revoke
  <2>1. TypeOK'
    <3>1. connected' \in BOOLEAN
      BY <1>5 DEF Revoke
    <3>2. QED
      BY <1>5, <3>1 DEF Revoke, LeaseInv, TypeOK, loops, mail
  <2>2. TokensFence'
    BY <1>5 DEF Revoke, LeaseInv, TypeOK, TokensFence, Owns
  <2>3. TokenFollowsHandler'
    BY <1>5 DEF Revoke, LeaseInv, TokenFollowsHandler
  <2>4. QED
    BY <2>1, <2>2, <2>3 DEF LeaseInv
<1>6. CASE Tick
  <2>1. TypeOK'
    BY <1>6 DEF Tick, LeaseInv, TypeOK, Ages, loops, mail
  <2>2. TokensFence'
    BY <1>6, TokensFenceStable DEF Tick, LeaseInv
  <2>3. TokenFollowsHandler'
    BY <1>6 DEF Tick, LeaseInv, TokenFollowsHandler
  <2>4. QED
    BY <2>1, <2>2, <2>3 DEF LeaseInv
<1>7. CASE UNCHANGED vars
  BY <1>7 DEF vars, row, loops, mail, LeaseInv, TypeOK, TokensFence, TokenFollowsHandler, Owns
<1>8. QED
  BY <1>1, <1>2, <1>3, <1>4, <1>5, <1>6, <1>7 DEF Next, QuietStep

\* Every reachable state satisfies the inductive invariant.
THEOREM LeaseInvariant == Spec => []LeaseInv
<1>1. QED
  BY LeaseInvInit, LeaseInvNext, PTL DEF Spec

\* The row and the connections keep their types, whatever the interleaving.
THEOREM LeaseTypes == Spec => []TypeOK
<1>1. LeaseInv => TypeOK
  BY DEF LeaseInv
<1>2. QED
  BY <1>1, LeaseInvariant, PTL

\* The fencing tokens of _claim_lease_sync are unique and the current one
\* belongs to the active connection, for any number of competing sockets.
THEOREM TokensAlwaysFence == Spec => []TokensFence
<1>1. LeaseInv => TokensFence
  BY DEF LeaseInv
<1>2. QED
  BY <1>1, LeaseInvariant, PTL

\* A revoked or released agent comes back only through a claim and the epoch
\* never goes back (_revoke_lease_sync, renew_agent_lease).
THEOREM RevokeSticks == Spec => NoResurrection
<1>1. LeaseInv /\ [Next]_vars =>
        [/\ lease_epoch' >= lease_epoch
         /\ connected' /\ ~connected => lease_epoch' = lease_epoch + 1]_vars
  <2> SUFFICES ASSUME LeaseInv, Next
               PROVE  /\ lease_epoch' >= lease_epoch
                      /\ connected' /\ ~connected => lease_epoch' = lease_epoch + 1
    OBVIOUS
  <2>1. lease_epoch \in Nat
    BY DEF LeaseInv, TypeOK
  <2>2. CASE \E c \in Conns : QuietStep(c)
    BY <2>1, <2>2, QuietStepFacts DEF LeaseInv, row
  <2>3. CASE \E c \in Conns, force \in BOOLEAN : Claim(c, force)
    BY <2>1, <2>3 DEF Claim
  <2>4. CASE \E c \in Conns : Renew(c) \/ ReleaseWrite(c)
    BY <2>1, <2>4 DEF Renew, ReleaseWrite
  <2>5. CASE Revoke \/ Tick
    BY <2>1, <2>5 DEF Revoke, Tick
  <2>6. QED
    BY <2>2, <2>3, <2>4, <2>5 DEF Next, QuietStep
<1>2. QED
  BY <1>1, LeaseInvariant, PTL DEF Spec, NoResurrection

\* Between two claims only the holder of the current token, the active
\* connection, moves last_seen of a connected agent forward (renew_agent_lease).
THEOREM RenewalIsOwners == Spec => OnlyOwnerRenews
<1> DEFINE OwnerIsUp == \E c \in Conns : /\ held[c] = lease_epoch
                                         /\ active_connection_id = c
                                         /\ HasSession(c)
<1>1. LeaseInv /\ [Next]_vars =>
        [connected' /\ age' < age /\ lease_epoch' = lease_epoch => OwnerIsUp]_vars
  <2> SUFFICES ASSUME LeaseInv, Next, connected', age' < age, lease_epoch' = lease_epoch
               PROVE  OwnerIsUp
    OBVIOUS
  <2>1. lease_epoch \in Nat /\ age \in Nat
    BY StaleAssumption DEF LeaseInv, TypeOK, Ages
  <2>2. CASE \E c \in Conns : QuietStep(c)
    <3>1. age' = age
      BY <2>2, QuietStepFacts DEF LeaseInv, row
    <3>2. QED
      BY <2>1, <3>1
  <2>3. CASE \E c \in Conns, force \in BOOLEAN : Claim(c, force)
    BY <2>1, <2>3 DEF Claim
  <2>4. ASSUME NEW c \in Conns, Renew(c)
        PROVE  OwnerIsUp
    <3>1. held[c] = lease_epoch /\ pc[c] = "renewing"
      BY <2>1, <2>4 DEF Renew
    <3>2. held[c] # 0
      BY <3>1 DEF LeaseInv, TokenFollowsHandler, AfterClaim
    <3>3. active_connection_id = c
      BY <3>1, <3>2 DEF LeaseInv, TokensFence, Owns
    <3>4. QED
      BY <3>1, <3>3 DEF HasSession
  <2>5. CASE \E c \in Conns : ReleaseWrite(c)
    BY <2>5 DEF ReleaseWrite
  <2>6. CASE Revoke \/ Tick
    BY <2>1, <2>6 DEF Revoke, Tick
  <2>7. QED
    BY <2>2, <2>3, <2>4, <2>5, <2>6 DEF Next, QuietStep
<1>2. QED
  BY <1>1, LeaseInvariant, PTL DEF Spec, OnlyOwnerRenews

(***************************************************************************)
(* AgentLease implements FencedLease: the row writes of persist_backend    *)
(* are grants, refreshes by the owner, departures and expiries of the      *)
(* abstract lease, and every other step of a connection is invisible.      *)
(***************************************************************************)
THEOREM LeaseRefinement == Spec => ImplementsFencedLease
<1> USE ConnsAssumption, StaleAssumption
<1>1. Init => Lease!LeaseInit
  BY DEF Init, Lease!LeaseInit, LeaseOwner
<1>2. LeaseInv /\ [Next]_vars => [Lease!LeaseNext]_(Lease!leaseVars)
  <2> SUFFICES ASSUME LeaseInv, [Next]_vars
               PROVE  [Lease!LeaseNext]_(Lease!leaseVars)
    OBVIOUS
  <2>1. /\ lease_epoch \in Nat
        /\ held \in [Conns -> Nat]
        /\ active_connection_id \in Conns \cup {NoConn}
        /\ \A c \in Conns : held[c] <= lease_epoch
    BY DEF LeaseInv, TypeOK, TokensFence
  <2>2. ASSUME UNCHANGED <<row, held>>
        PROVE  UNCHANGED Lease!leaseVars
    BY <2>2 DEF row, Lease!leaseVars, LeaseOwner
  <2>3. ASSUME NEW c \in Conns, QuietStep(c)
        PROVE  UNCHANGED Lease!leaseVars
    BY <2>2, <2>3, QuietStepFacts DEF LeaseInv
  <2>4. ASSUME NEW c \in Conns, NEW force \in BOOLEAN, Claim(c, force)
        PROVE  Lease!Grant(c)
    <3>1. held[c] = 0
      BY <2>4 DEF Claim, LeaseInv, TokenFollowsHandler, BeforeClaim
    <3>2. LeaseOwner' = c
      BY <2>1, <2>4 DEF Claim, LeaseOwner
    <3>3. QED
      BY <2>4, <3>1, <3>2 DEF Claim, Lease!Grant
  <2>5. ASSUME NEW c \in Conns, Renew(c)
        PROVE  Lease!Refresh \/ UNCHANGED Lease!leaseVars
    <3>1. UNCHANGED <<connected, lease_epoch, active_connection_id, held>>
      BY <2>5 DEF Renew
    <3>2. LeaseOwner' = LeaseOwner
      BY <3>1 DEF LeaseOwner
    <3>3. CASE held[c] = lease_epoch
      <4>1. held[c] # 0
        BY <2>5 DEF Renew, LeaseInv, TokenFollowsHandler, AfterClaim
      <4>2. LeaseOwner = c
        BY <3>3, <4>1 DEF LeaseInv, TokensFence, Owns, LeaseOwner
      <4>3. QED
        BY <2>5, <3>1, <3>2, <3>3, <4>2 DEF Renew, Lease!Refresh
    <3>4. CASE held[c] # lease_epoch
      BY <2>5, <3>1, <3>2, <3>4 DEF Renew, Lease!leaseVars
    <3>5. QED
      BY <3>3, <3>4
  <2>6. ASSUME NEW c \in Conns, ReleaseWrite(c)
        PROVE  Lease!Depart
    BY <2>6 DEF ReleaseWrite, Lease!Depart, LeaseOwner
  <2>7. CASE Revoke
    <3>1. LeaseOwner' = NoConn
      BY <2>1, <2>7 DEF Revoke, LeaseOwner
    <3>2. QED
      BY <2>7, <3>1 DEF Revoke, Stale, Lease!LeaseNext, Lease!Expire
  <2>8. CASE Tick
    BY <2>8 DEF Tick, LeaseOwner, Lease!LeaseNext, Lease!Elapse
  <2>9. CASE UNCHANGED vars
    BY <2>2, <2>9 DEF vars
  <2>10. QED
    BY <2>3, <2>4, <2>5, <2>6, <2>7, <2>8, <2>9 DEF Next, QuietStep, Lease!LeaseNext
<1>3. QED
  BY <1>1, <1>2, LeaseInvariant, PTL DEF Spec, ImplementsFencedLease, Lease!LeaseSpec
-----------------------------------------------------------------------------
(* The lease under whole-row saves.                                          *)


\* The epoch of a row that is connected, read or in place, was claimed.
Claimed(epoch) == \E c \in Conns : held[c] # 0 /\ held[c] = epoch

\* The inductive invariant.  Of LeaseInv only the types and the tokens before a
\* claim survive a rollback; a token once handed out is never taken back.
RowSaveInv ==
    /\ SaveTypeOK
    /\ TokenFollowsHandler
    /\ connected => Claimed(lease_epoch)
    /\ draft # NoDraft => (draft.connected => Claimed(draft.lease_epoch))

\* Nobody is connected and no mutation runs.
LEMMA RowSaveInvInit == SaveInit => RowSaveInv
<1> SUFFICES ASSUME SaveInit
             PROVE  RowSaveInv
  OBVIOUS
<1>1. TypeOK /\ TokenFollowsHandler
  BY LeaseInvInit DEF SaveInit, LeaseInv
<1>2. SaveTypeOK
  <2>1. blocked \in BOOLEAN
    BY DEF SaveInit
  <2>2. saves \in 0 .. MaxSaves /\ draft \in Drafts \cup {NoDraft}
    BY SavesAssumption DEF SaveInit
  <2>3. QED
    BY <1>1, <2>1, <2>2 DEF SaveTypeOK
<1>3. ~connected /\ draft = NoDraft
  BY DEF SaveInit, Init
<1>4. QED
  BY <1>1, <1>2, <1>3 DEF RowSaveInv

\* A claim hands a token to a connection that had none, so that the tokens in the
\* row and in a draft are still somebody's (_claim_lease_sync).
LEMMA ClaimKeepsClaimed ==
    ASSUME TypeOK, TokenFollowsHandler, NEW c \in Conns, NEW force \in BOOLEAN, Claim(c, force)
    PROVE  /\ TypeOK' /\ TokenFollowsHandler'
           /\ \A epoch : Claimed(epoch) => Claimed(epoch)'
           /\ Claimed(lease_epoch)'
<1> USE ConnsAssumption, StaleAssumption, InboxAssumption
<1>1. /\ held' = [held EXCEPT ![c] = lease_epoch + 1]
      /\ pc' = [pc EXCEPT ![c] = "claimed"]
      /\ lease_epoch' = lease_epoch + 1
      /\ held[c] = 0
  BY DEF Claim, TokenFollowsHandler, BeforeClaim
<1>2. lease_epoch \in Nat /\ held \in [Conns -> Nat] /\ pc \in [Conns -> Handlers]
  BY DEF TypeOK
<1>3. TypeOK'
  <2>1. lease_epoch' \in Nat /\ held' \in [Conns -> Nat] /\ pc' \in [Conns -> Handlers]
    BY <1>1, <1>2 DEF Handlers
  <2>2. connected' \in BOOLEAN /\ age' \in Ages /\ active_connection_id' \in Conns \cup {NoConn}
    BY DEF Claim, Ages
  <2>3. displaced' \in [Conns -> BOOLEAN]
    BY DEF Claim, TypeOK
  <2>4. QED
    BY <2>1, <2>2, <2>3 DEF Claim, TypeOK, loops, mail
<1>4. TokenFollowsHandler'
  BY <1>1, <1>2 DEF TokenFollowsHandler, BeforeClaim, AfterClaim
<1>5. \A epoch : Claimed(epoch) => Claimed(epoch)'
  BY <1>1, <1>2 DEF Claimed
<1>6. Claimed(lease_epoch)'
  BY <1>1, <1>2 DEF Claimed
<1>7. QED
  BY <1>3, <1>4, <1>5, <1>6

\* Every other step of the lease protocol connects no row, and leaves the tokens
\* and the epoch of a connected row alone.
LEMMA OthersKeepClaimed ==
    ASSUME TypeOK, TokenFollowsHandler,
           \/ \E c \in Conns : QuietStep(c) \/ Renew(c) \/ ReleaseWrite(c)
           \/ Revoke \/ Tick
    PROVE  /\ TypeOK' /\ TokenFollowsHandler' /\ held' = held
           /\ connected' => connected /\ lease_epoch' = lease_epoch
<1> USE ConnsAssumption, StaleAssumption, InboxAssumption
<1>1. CASE \E c \in Conns : QuietStep(c)
  BY <1>1, QuietStepFacts DEF row
<1>2. ASSUME NEW c \in Conns, Renew(c) \/ ReleaseWrite(c)
      PROVE  TypeOK' /\ TokenFollowsHandler'
  <2>1. connected' \in BOOLEAN
    BY <1>2 DEF Renew, ReleaseWrite, TypeOK
  <2>2. age' \in Ages /\ pc' \in [Conns -> Handlers]
    BY <1>2 DEF Renew, ReleaseWrite, TypeOK, Ages, Handlers
  <2>3. TypeOK'
    BY <1>2, <2>1, <2>2 DEF Renew, ReleaseWrite, TypeOK, loops, mail
  <2>4. TokenFollowsHandler'
    BY <1>2 DEF Renew, ReleaseWrite, TypeOK, TokenFollowsHandler, BeforeClaim, AfterClaim
  <2>5. QED
    BY <2>3, <2>4
<1>3. CASE \E c \in Conns : Renew(c) \/ ReleaseWrite(c)
  <2>1. TypeOK' /\ TokenFollowsHandler'
    BY <1>2, <1>3
  <2>2. UNCHANGED <<held, lease_epoch>> /\ (connected' => connected)
    BY <1>3 DEF Renew, ReleaseWrite
  <2>3. QED
    BY <2>1, <2>2
<1>4. CASE Revoke \/ Tick
  <2>1. connected' \in BOOLEAN
    BY <1>4 DEF Revoke, Tick, TypeOK
  <2>2. age' \in Ages /\ lease_epoch' \in Nat
    BY <1>4 DEF Revoke, Tick, TypeOK, Ages
  <2>3. TypeOK'
    BY <1>4, <2>1, <2>2 DEF Revoke, Tick, TypeOK, loops, mail
  <2>4. TokenFollowsHandler' /\ held' = held
    BY <1>4 DEF Revoke, Tick, TokenFollowsHandler
  <2>5. connected' => connected /\ lease_epoch' = lease_epoch
    BY <1>4 DEF Revoke, Tick
  <2>6. QED
    BY <2>3, <2>4, <2>5
<1>5. QED
  BY <1>1, <1>3, <1>4

\* Whatever the lease protocol and the mutations do, in any order.
LEMMA RowSaveInvNext == RowSaveInv /\ [SaveNext]_saveVars => RowSaveInv'
<1> SUFFICES ASSUME RowSaveInv, [SaveNext]_saveVars
             PROVE  RowSaveInv'
  OBVIOUS
<1>1. /\ TypeOK /\ TokenFollowsHandler
      /\ blocked \in BOOLEAN /\ saves \in 0 .. MaxSaves
      /\ draft \in Drafts \cup {NoDraft}
  BY DEF RowSaveInv, SaveTypeOK
<1>2. ASSUME NEW c \in Conns, NEW force \in BOOLEAN, Claim(c, force),
             UNCHANGED <<blocked, draft, saves>>
      PROVE  RowSaveInv'
  BY <1>1, <1>2, ClaimKeepsClaimed DEF RowSaveInv, SaveTypeOK
<1>3. ASSUME Revoke \/ \E c \in Conns : QuietStep(c) \/ Renew(c) \/ ReleaseWrite(c),
             UNCHANGED <<blocked, draft, saves>>
      PROVE  RowSaveInv'
  <2>1. /\ TypeOK' /\ TokenFollowsHandler' /\ held' = held
        /\ connected' => connected /\ lease_epoch' = lease_epoch
    BY <1>1, <1>3, OthersKeepClaimed
  <2>2. QED
    BY <1>1, <1>3, <2>1 DEF RowSaveInv, SaveTypeOK, Claimed
<1>4. CASE TickDraft
  <2>1. TypeOK' /\ TokenFollowsHandler'
    BY <1>1, <1>4, OthersKeepClaimed DEF TickDraft
  <2>2. UNCHANGED <<connected, lease_epoch, held, blocked, saves>>
    BY <1>4 DEF TickDraft, Tick
  <2>3. /\ draft' \in Drafts \cup {NoDraft}
        /\ draft' # NoDraft => /\ draft # NoDraft
                               /\ draft'.connected = draft.connected
                               /\ draft'.lease_epoch = draft.lease_epoch
    <3>1. CASE draft = NoDraft \/ draft.age > StaleAfter
      BY <1>1, <1>4, <3>1 DEF TickDraft
    <3>2. CASE ~(draft = NoDraft \/ draft.age > StaleAfter)
      <4>1. draft \in Drafts /\ draft.age \in Ages /\ draft.age + 1 \in Ages
        BY <1>1, <3>2, StaleAssumption DEF Drafts, Ages
      <4>2. draft' = [draft EXCEPT !.age = draft.age + 1]
        BY <1>4, <3>2 DEF TickDraft
      <4>3. QED
        BY <3>2, <4>1, <4>2 DEF Drafts
    <3>3. QED
      BY <3>1, <3>2
  <2>4. QED
    BY <1>1, <2>1, <2>2, <2>3 DEF RowSaveInv, SaveTypeOK, Claimed
<1>5. CASE ReadRow
  <2>1. draft' = [connected |-> connected, age |-> age, lease_epoch |-> lease_epoch,
                  active |-> active_connection_id, blocked |-> blocked]
    BY <1>5 DEF ReadRow
  <2>2. draft' \in Drafts /\ draft'.connected = connected /\ draft'.lease_epoch = lease_epoch
    BY <1>1, <2>1 DEF Drafts, TypeOK
  <2>3. saves' \in 0 .. MaxSaves /\ UNCHANGED <<vars, blocked>>
    BY <1>1, <1>5, SavesAssumption DEF ReadRow
  <2>4. TypeOK' /\ TokenFollowsHandler' /\ UNCHANGED <<connected, lease_epoch, held>>
    BY <1>1, <2>3 DEF vars, row, loops, mail, TypeOK, TokenFollowsHandler
  <2>5. QED
    BY <1>1, <2>2, <2>3, <2>4 DEF RowSaveInv, SaveTypeOK, Claimed
<1>6. CASE SaveRow
  <2>1. /\ draft \in Drafts /\ draft' = NoDraft
        /\ connected' = draft.connected /\ lease_epoch' = draft.lease_epoch
        /\ age' = draft.age /\ active_connection_id' = draft.active
        /\ UNCHANGED <<pc, held, displaced, closeSent, loops, mail, saves>>
    BY <1>1, <1>6 DEF SaveRow
  <2>2. blocked' \in BOOLEAN
    BY <1>6, <2>1 DEF SaveRow, Drafts
  <2>3. TypeOK' /\ TokenFollowsHandler'
    <3>1. connected' \in BOOLEAN
      BY <2>1 DEF Drafts
    <3>2. age' \in Ages /\ lease_epoch' \in Nat /\ active_connection_id' \in Conns \cup {NoConn}
      BY <2>1 DEF Drafts
    <3>3. TypeOK'
      BY <1>1, <2>1, <3>1, <3>2 DEF TypeOK, loops, mail
    <3>4. TokenFollowsHandler'
      BY <1>1, <2>1 DEF TokenFollowsHandler
    <3>5. QED
      BY <3>3, <3>4
  <2>4. connected' => Claimed(lease_epoch)'
    BY <1>6, <2>1 DEF SaveRow, RowSaveInv, Claimed
  <2>5. QED
    BY <1>1, <2>1, <2>2, <2>3, <2>4 DEF RowSaveInv, SaveTypeOK
<1>7. CASE UNCHANGED saveVars
  BY <1>7 DEF saveVars, vars, row, loops, mail, RowSaveInv, SaveTypeOK, TypeOK,
              TokenFollowsHandler, Claimed
<1>8. QED
  <2>1. CASE \E c \in Conns : ConnStep(c) /\ UNCHANGED <<blocked, draft, saves>>
    BY <1>2, <1>3, <2>1 DEF ConnStep, GatedRegister, QuietStep
  <2>2. QED
    BY <1>3, <1>4, <1>5, <1>6, <1>7, <2>1 DEF SaveNext

\* The row, the drafts and the connections keep their types.
THEOREM RowSaveTypes == SaveSpec => []SaveTypeOK
<1>1. RowSaveInv => SaveTypeOK
  BY DEF RowSaveInv
<1>2. QED
  BY <1>1, RowSaveInvInit, RowSaveInvNext, PTL DEF SaveSpec

\* However late a mutation writes the row back, a row that says connected names
\* an epoch that some connection claimed (backend.block, update_agent).
THEOREM RollbacksNameAClaimant == SaveSpec => []ConnectedHasClaimant
<1>1. RowSaveInv => ConnectedHasClaimant
  BY DEF RowSaveInv, Claimed, ConnectedHasClaimant
<1>2. QED
  BY <1>1, RowSaveInvInit, RowSaveInvNext, PTL DEF SaveSpec
-----------------------------------------------------------------------------
(* The queue. *)

\* What has left the queue: the messages pushed before those that wait.
Popped == {order[i] : i \in 1 .. Len(order) - Len(queue)}

\* The queue is what was pushed last, and nothing is pushed twice.
QueueIsTail ==
    /\ Len(queue) <= Len(order)
    /\ \A i \in 1 .. Len(queue) : queue[i] = order[Len(order) - Len(queue) + i]
    /\ \A i, j \in 1 .. Len(order) : order[i] = order[j] => i = j

\* A loop holds one message between its pop and its ack, none otherwise, and
\* nobody else has that message in hand.
HoldersDiffer ==
    /\ \A c \in Loops : loop[c] \in {"sending", "acking"} => \E m \in Messages : holding[c] = {m}
    /\ \A c \in Loops : loop[c] \notin {"sending", "acking"} => holding[c] = {}
    /\ \A c, d \in Loops : c # d => holding[c] \cap holding[d] = {}
    /\ \A c \in Loops : holding[c] \subseteq Popped \cap processing

\* What a loop is about to send was received by nobody, and its client received
\* everything else earlier.
SendIsNew ==
    /\ \A c, d \in Loops : \A m \in holding[c] :
          c # d \/ loop[c] = "sending" => \A i \in 1 .. Len(received[d]) : received[d][i] # m
    /\ \A c \in Loops : loop[c] = "sending" =>
          \A m \in holding[c], i \in 1 .. Len(received[c]) : Before(received[c][i], m)

\* Only popped messages were received.
ReceivedWasPopped ==
    \A c \in Loops : \A i \in 1 .. Len(received[c]) : received[c][i] \in Popped

\* AtMostOnce, by position.
EachReceivedOnce ==
    \A c, d \in Loops : \A i \in 1 .. Len(received[c]), j \in 1 .. Len(received[d]) :
        received[c][i] = received[d][j] => c = d /\ i = j

\* ArrivesInOrder, by position.
EachReceivedInOrder ==
    \A c \in Loops : \A i, j \in 1 .. Len(received[c]) :
        i < j => Before(received[c][i], received[c][j])

\* The inductive invariant.
QueueInv ==
    /\ QueueTypeOK
    /\ QueueIsTail
    /\ HoldersDiffer
    /\ SendIsNew
    /\ ReceivedWasPopped
    /\ EachReceivedOnce
    /\ EachReceivedInOrder

-----------------------------------------------------------------------------
(* Lemmas about the operators. *)

\* The frames that carry the one message in hand are that message (Send).
LEMMA SetToSeqOfOne == ASSUME NEW m PROVE SetToSeq({m}) = <<m>>
<1>1. Cardinality({m}) = 1
  BY FS_Singleton
<1>2. <<m>> \in [1 .. 1 -> {m}] /\ IsInjective(<<m>>)
  BY DEF IsInjective
<1>3. \A f \in [1 .. 1 -> {m}] : f = <<m>>
  OBVIOUS
<1>4. QED
  BY <1>1, <1>2, <1>3 DEF SetToSeq

\* A pop takes the oldest message that waits, and every message popped earlier
\* was pushed before it (blmove).
LEMMA HeadIsNext ==
    ASSUME QueueTypeOK, QueueIsTail, queue # <<>>, queue' = Tail(queue), UNCHANGED order
    PROVE  /\ QueueIsTail'
           /\ queue' \in Seq(Messages)
           /\ Head(queue) \in Messages
           /\ Head(queue) \notin Popped
           /\ Popped' = Popped \cup {Head(queue)}
           /\ \A m \in Popped : Before(m, Head(queue))
<1> DEFINE n == Len(order) - Len(queue)
<1>1. /\ queue \in Seq(Messages) /\ order \in Seq(Messages)
      /\ Len(queue) \in Nat /\ Len(order) \in Nat
      /\ DOMAIN order = 1 .. Len(order)
  BY LenProperties DEF QueueTypeOK
<1>2. /\ Head(queue) \in Messages
      /\ Tail(queue) \in Seq(Messages)
      /\ Len(Tail(queue)) = Len(queue) - 1
      /\ \A i \in 1 .. Len(Tail(queue)) : Tail(queue)[i] = queue[i + 1]
  BY <1>1, HeadTailProperties
<1>3. Len(queue) > 0 /\ Head(queue) = queue[1]
  BY <1>1, EmptySeq
<1>4. n \in Nat /\ n + 1 \in 1 .. Len(order) /\ Head(queue) = order[n + 1]
  BY <1>1, <1>3 DEF QueueIsTail
<1>5. QueueIsTail'
  <2>1. Len(queue') <= Len(order')
    BY <1>1, <1>2 DEF QueueIsTail
  <2>2. ASSUME NEW i \in 1 .. Len(Tail(queue))
        PROVE  Tail(queue)[i] = order[Len(order) - Len(Tail(queue)) + i]
    <3>1. i + 1 \in 1 .. Len(queue)
      BY <1>1, <1>2
    <3>2. queue[i + 1] = order[Len(order) - Len(queue) + (i + 1)]
      BY <3>1 DEF QueueIsTail
    <3>3. Len(order) - Len(queue) + (i + 1) = Len(order) - Len(Tail(queue)) + i
      BY <1>1, <1>2
    <3>4. QED
      BY <1>2, <3>2, <3>3
  <2>3. QED
    BY <2>1, <2>2 DEF QueueIsTail
<1>6. Popped' = {order[i] : i \in 1 .. n + 1}
  BY <1>1, <1>2 DEF Popped
<1>7. Popped' = Popped \cup {Head(queue)}
  <2>1. 1 .. n + 1 = (1 .. n) \cup {n + 1}
    BY <1>4
  <2>2. QED
    BY <1>4, <1>6, <2>1 DEF Popped
<1>8. Head(queue) \notin Popped
  BY <1>1, <1>4 DEF Popped, QueueIsTail
<1>9. ASSUME NEW m \in Popped
      PROVE  Before(m, Head(queue))
  <2>1. PICK i \in 1 .. n : m = order[i]
    BY DEF Popped
  <2>2. i \in DOMAIN order /\ n + 1 \in DOMAIN order /\ i < n + 1
    BY <1>1, <1>4
  <2>3. QED
    BY <1>4, <2>1, <2>2 DEF Before
<1>10. QED
  BY <1>2, <1>5, <1>7, <1>8, <1>9

\* A push neither pops anything nor changes who was pushed before whom (lpush).
LEMMA PushIsLast ==
    ASSUME QueueTypeOK, QueueIsTail, NEW m \in Messages, Push(m)
    PROVE  /\ queue' \in Seq(Messages) /\ order' \in Seq(Messages)
           /\ QueueIsTail'
           /\ Popped' = Popped
           /\ \A a, b : Before(a, b) => Before(a, b)'
<1>1. /\ queue \in Seq(Messages) /\ order \in Seq(Messages)
      /\ Len(queue) \in Nat /\ Len(order) \in Nat
      /\ DOMAIN order = 1 .. Len(order)
  BY LenProperties DEF QueueTypeOK
<1>2. /\ queue' = Append(queue, m) /\ order' = Append(order, m)
      /\ \A i \in 1 .. Len(order) : order[i] # m
  BY <1>1 DEF Push, Range
<1>3. /\ queue' \in Seq(Messages) /\ Len(queue') = Len(queue) + 1
      /\ \A i \in 1 .. Len(queue) : queue'[i] = queue[i]
      /\ queue'[Len(queue) + 1] = m
  BY <1>1, <1>2, AppendProperties
<1>4. /\ order' \in Seq(Messages) /\ Len(order') = Len(order) + 1
      /\ \A i \in 1 .. Len(order) : order'[i] = order[i]
      /\ order'[Len(order) + 1] = m
      /\ DOMAIN order' = 1 .. Len(order) + 1
  BY <1>1, <1>2, AppendProperties, LenProperties
<1>5. Len(order') - Len(queue') = Len(order) - Len(queue)
  BY <1>1, <1>3, <1>4
<1>6. QueueIsTail'
  <2>1. Len(queue') <= Len(order')
    BY <1>1, <1>3, <1>4 DEF QueueIsTail
  <2>2. ASSUME NEW i \in 1 .. Len(queue')
        PROVE  queue'[i] = order'[Len(order') - Len(queue') + i]
    <3>1. CASE i = Len(queue) + 1
      <4>1. Len(order') - Len(queue') + i = Len(order) + 1
        BY <1>1, <1>5, <3>1
      <4>2. QED
        BY <1>3, <1>4, <3>1, <4>1
    <3>2. CASE i # Len(queue) + 1
      <4>1. i \in 1 .. Len(queue)
        BY <1>1, <1>3, <3>2
      <4>2. Len(order) - Len(queue) + i \in 1 .. Len(order)
        BY <1>1, <4>1 DEF QueueIsTail
      <4>3. queue[i] = order[Len(order) - Len(queue) + i]
        BY <4>1 DEF QueueIsTail
      <4>4. QED
        BY <1>3, <1>4, <1>5, <4>1, <4>2, <4>3
    <3>3. QED
      BY <3>1, <3>2
  <2>3. ASSUME NEW i \in 1 .. Len(order'), NEW j \in 1 .. Len(order'), order'[i] = order'[j]
        PROVE  i = j
    BY <1>1, <1>2, <1>4, <2>3 DEF QueueIsTail
  <2>4. QED
    BY <2>1, <2>2, <2>3 DEF QueueIsTail
<1>7. Popped' = Popped
  <2>1. \A i \in 1 .. Len(order) - Len(queue) : order'[i] = order[i]
    BY <1>1, <1>4
  <2>2. QED
    BY <1>5, <2>1 DEF Popped
<1>8. ASSUME NEW a, NEW b, Before(a, b)
      PROVE  Before(a, b)'
  BY <1>1, <1>4, <1>8 DEF Before
<1>9. QED
  BY <1>3, <1>4, <1>6, <1>7, <1>8

-----------------------------------------------------------------------------
(* The steps. *)

\* Nothing was pushed and nobody listens.
LEMMA QueueInvInit == QueueInit => QueueInv
<1> SUFFICES ASSUME QueueInit
             PROVE  QueueInv
  OBVIOUS
<1>1. QueueTypeOK
  BY EmptySeq DEF QueueInit, QueueTypeOK, LoopStates
<1>2. Len(<<>>) = 0
  OBVIOUS
<1>3. QueueIsTail /\ HoldersDiffer /\ SendIsNew
  BY <1>2 DEF QueueInit, QueueIsTail, HoldersDiffer, SendIsNew
<1>4. ReceivedWasPopped /\ EachReceivedOnce /\ EachReceivedInOrder
  BY <1>2 DEF QueueInit, ReceivedWasPopped, EachReceivedOnce, EachReceivedInOrder
<1>5. QED
  BY <1>1, <1>3, <1>4 DEF QueueInv

\* A push disturbs no loop and no client.
LEMMA PushKeeps ==
    ASSUME QueueInv, NEW m \in Messages, Push(m)
    PROVE  QueueInv'
<1>1. QueueTypeOK' /\ QueueIsTail'
  BY PushIsLast DEF QueueInv, Push, QueueTypeOK
<1>2. Popped' = Popped /\ \A a, b : Before(a, b) => Before(a, b)'
  BY PushIsLast DEF QueueInv
<1>3. HoldersDiffer' /\ ReceivedWasPopped' /\ EachReceivedOnce'
  BY <1>2 DEF QueueInv, Push, HoldersDiffer, ReceivedWasPopped, EachReceivedOnce
<1>4. SendIsNew' /\ EachReceivedInOrder'
  BY <1>2 DEF QueueInv, Push, SendIsNew, EachReceivedInOrder
<1>5. QED
  BY <1>1, <1>3, <1>4 DEF QueueInv

\* A loop that pops gets a message nobody has, or ever had, in hand.
LEMMA PopKeeps ==
    ASSUME QueueInv, NEW c \in Loops, Pop(c)
    PROVE  QueueInv'
<1> DEFINE m == Head(queue)
<1>1. /\ loop[c] = "popping" /\ queue # <<>>
      /\ holding' = [holding EXCEPT ![c] = {m}]
      /\ processing' = processing \cup {m}
      /\ queue' = Tail(queue)
      /\ loop' = [loop EXCEPT ![c] = "sending"]
      /\ UNCHANGED <<order, peer, received, acked>>
  BY DEF Pop
<1>2. /\ QueueIsTail'
      /\ queue' \in Seq(Messages)
      /\ m \in Messages /\ m \notin Popped
      /\ Popped' = Popped \cup {m}
      /\ \A p \in Popped : Before(p, m)
  BY <1>1, HeadIsNext DEF QueueInv
<1> HIDE DEF m
<1>3. QueueTypeOK'
  BY <1>1, <1>2 DEF QueueInv, QueueTypeOK, LoopStates
<1>4. \A d \in Loops : m \notin holding[d]
  BY <1>2 DEF QueueInv, HoldersDiffer
<1>5. HoldersDiffer'
  <2>1. holding'[c] = {m} /\ \A d \in Loops \ {c} : holding'[d] = holding[d]
    BY <1>1 DEF QueueInv, QueueTypeOK
  <2>2. loop'[c] = "sending" /\ \A d \in Loops \ {c} : loop'[d] = loop[d]
    BY <1>1 DEF QueueInv, QueueTypeOK
  <2>3. ASSUME NEW d \in Loops
        PROVE  /\ loop'[d] \in {"sending", "acking"} => \E x \in Messages : holding'[d] = {x}
               /\ loop'[d] \notin {"sending", "acking"} => holding'[d] = {}
               /\ holding'[d] \subseteq Popped' \cap processing'
    BY <1>1, <1>2, <2>1, <2>2 DEF QueueInv, HoldersDiffer
  <2>4. ASSUME NEW d \in Loops, NEW e \in Loops, d # e
        PROVE  holding'[d] \cap holding'[e] = {}
    BY <1>4, <2>1, <2>4 DEF QueueInv, HoldersDiffer
  <2>5. QED
    BY <2>3, <2>4 DEF HoldersDiffer
<1>6. \A d \in Loops : \A i \in 1 .. Len(received[d]) : received[d][i] \in Popped
  BY DEF QueueInv, ReceivedWasPopped
<1>7. \A a, b : Before(a, b) <=> Before(a, b)'
  BY <1>1 DEF Before
<1>8. SendIsNew'
  <2>1. ASSUME NEW e \in Loops, NEW d \in Loops, NEW x \in holding'[e],
               e # d \/ loop'[e] = "sending", NEW i \in 1 .. Len(received[d])
        PROVE  received[d][i] # x
    <3>1. CASE e = c
      BY <1>1, <1>2, <1>6, <2>1, <3>1 DEF QueueInv, QueueTypeOK
    <3>2. CASE e # c
      BY <1>1, <2>1, <3>2 DEF QueueInv, QueueTypeOK, SendIsNew
    <3>3. QED
      BY <3>1, <3>2
  <2>2. ASSUME NEW e \in Loops, loop'[e] = "sending", NEW x \in holding'[e],
               NEW i \in 1 .. Len(received[e])
        PROVE  Before(received[e][i], x)
    <3>1. CASE e = c
      BY <1>1, <1>2, <1>6, <2>2, <3>1 DEF QueueInv, QueueTypeOK
    <3>2. CASE e # c
      BY <1>1, <2>2, <3>2 DEF QueueInv, QueueTypeOK, SendIsNew
    <3>3. QED
      BY <3>1, <3>2
  <2>3. QED
    BY <1>1, <1>7, <2>1, <2>2 DEF SendIsNew
<1>9. ReceivedWasPopped' /\ EachReceivedOnce' /\ EachReceivedInOrder'
  BY <1>1, <1>2, <1>7 DEF QueueInv, ReceivedWasPopped, EachReceivedOnce, EachReceivedInOrder
<1>10. QED
  BY <1>2, <1>3, <1>5, <1>8, <1>9 DEF QueueInv

\* A client receives the frame last of all, and nobody received it before.
LEMMA SendKeeps ==
    ASSUME QueueInv, NEW c \in Loops, Send(c)
    PROVE  QueueInv'
<1>1. PICK m \in Messages : holding[c] = {m}
  BY DEF QueueInv, HoldersDiffer, Send
<1>2. /\ loop[c] = "sending"
      /\ loop' = [loop EXCEPT ![c] = "acking"]
      /\ UNCHANGED <<queue, processing, order, holding, peer, acked>>
      /\ received' = [received EXCEPT ![c] = IF peer[c] THEN received[c] \o <<m>> ELSE received[c]]
  BY <1>1, SetToSeqOfOne DEF Send
<1>3. \A d \in Loops : received[d] \in Seq(Messages) /\ Len(received[d]) \in Nat
  BY LenProperties DEF QueueInv, QueueTypeOK
<1>4. Popped' = Popped /\ QueueIsTail' /\ \A a, b : Before(a, b) <=> Before(a, b)'
  BY <1>2 DEF QueueInv, QueueIsTail, Popped, Before
<1>5. HoldersDiffer'
  BY <1>2, <1>4 DEF QueueInv, QueueTypeOK, HoldersDiffer
<1>6. CASE ~peer[c]
  <2>1. received' = received
    BY <1>2, <1>6 DEF QueueInv, QueueTypeOK
  <2>2. QueueTypeOK'
    BY <1>2, <2>1 DEF QueueInv, QueueTypeOK, LoopStates
  <2>3. SendIsNew'
    BY <1>2, <1>4, <2>1 DEF QueueInv, QueueTypeOK, SendIsNew
  <2>4. ReceivedWasPopped' /\ EachReceivedOnce' /\ EachReceivedInOrder'
    BY <1>4, <2>1 DEF QueueInv, ReceivedWasPopped, EachReceivedOnce, EachReceivedInOrder
  <2>5. QED
    BY <1>4, <1>5, <2>2, <2>3, <2>4 DEF QueueInv
<1>7. CASE peer[c]
  <2> DEFINE n == Len(received[c])
  <2>1. /\ received'[c] = received[c] \o <<m>>
        /\ \A d \in Loops \ {c} : received'[d] = received[d]
    BY <1>2, <1>7 DEF QueueInv, QueueTypeOK
  <2>2. /\ received'[c] \in Seq(Messages)
        /\ Len(received'[c]) = n + 1
        /\ \A i \in 1 .. n : received'[c][i] = received[c][i]
        /\ received'[c][n + 1] = m
    <3>1. <<m>> \in Seq(Messages) /\ Len(<<m>>) = 1 /\ <<m>>[1] = m
      OBVIOUS
    <3>2. QED
      BY <1>3, <2>1, <3>1, ConcatProperties
  <2>3. n \in Nat
    BY <1>3
  <2>4. QueueTypeOK'
    <3>1. received' \in [Loops -> Seq(Messages)]
      BY <1>2, <1>3, <2>1, <2>2 DEF QueueInv, QueueTypeOK
    <3>2. QED
      BY <1>2, <3>1 DEF QueueInv, QueueTypeOK, LoopStates
  <2>5. /\ \A d \in Loops : \A i \in 1 .. Len(received[d]) : received[d][i] # m
        /\ \A i \in 1 .. n : Before(received[c][i], m)
    BY <1>1, <1>2 DEF QueueInv, SendIsNew
  <2>6. \A d \in Loops : d # c => holding[d] \cap {m} = {}
    BY <1>1 DEF QueueInv, HoldersDiffer
  <2> HIDE DEF n
  <2>7. SendIsNew'
    <3>1. ASSUME NEW e \in Loops, NEW d \in Loops, NEW x \in holding[e],
                 e # d \/ loop'[e] = "sending", NEW i \in 1 .. Len(received'[d])
          PROVE  received'[d][i] # x
      <4>1. e # d \/ loop[e] = "sending"
        BY <1>2, <3>1 DEF QueueInv, QueueTypeOK
      <4>2. CASE d # c
        BY <2>1, <3>1, <4>1, <4>2 DEF QueueInv, SendIsNew
      <4>3. CASE d = c
        <5>1. e # c
          BY <1>2, <3>1, <4>3 DEF QueueInv, QueueTypeOK
        <5>2. x # m
          BY <2>6, <5>1
        <5>3. \A j \in 1 .. n : received[c][j] # x
          BY <5>1 DEF QueueInv, SendIsNew, n
        <5>4. i \in 1 .. n \/ i = n + 1
          BY <2>2, <2>3, <4>3
        <5>5. QED
          BY <2>2, <4>3, <5>2, <5>3, <5>4
      <4>4. QED
        BY <4>2, <4>3
    <3>2. ASSUME NEW e \in Loops, loop'[e] = "sending", NEW x \in holding[e],
                 NEW i \in 1 .. Len(received'[e])
          PROVE  Before(received'[e][i], x)
      BY <1>2, <2>1, <3>2 DEF QueueInv, QueueTypeOK, SendIsNew
    <3>3. QED
      BY <1>2, <1>4, <3>1, <3>2 DEF SendIsNew
  <2>8. ReceivedWasPopped'
    <3>1. m \in Popped
      BY <1>1 DEF QueueInv, HoldersDiffer
    <3>2. ASSUME NEW d \in Loops, NEW i \in 1 .. Len(received'[d])
          PROVE  received'[d][i] \in Popped
      <4>1. CASE d # c
        BY <2>1, <4>1 DEF QueueInv, ReceivedWasPopped
      <4>2. CASE d = c
        <5>1. i \in 1 .. n \/ i = n + 1
          BY <2>2, <2>3, <4>2
        <5>2. \A j \in 1 .. n : received[c][j] \in Popped
          BY DEF QueueInv, ReceivedWasPopped, n
        <5>3. QED
          BY <2>2, <3>1, <4>2, <5>1, <5>2
      <4>3. QED
        BY <4>1, <4>2
    <3>3. QED
      BY <1>4, <3>2 DEF ReceivedWasPopped
  <2>9. EachReceivedOnce'
    <3>1. ASSUME NEW d \in Loops, NEW e \in Loops, NEW i \in 1 .. Len(received'[d]),
                 NEW j \in 1 .. Len(received'[e]), received'[d][i] = received'[e][j]
          PROVE  d = e /\ i = j
      <4>1. (d # c \/ i \in 1 .. n) => received'[d][i] = received[d][i] /\ i \in 1 .. Len(received[d])
        BY <2>1, <2>2 DEF n
      <4>2. (e # c \/ j \in 1 .. n) => received'[e][j] = received[e][j] /\ j \in 1 .. Len(received[e])
        BY <2>1, <2>2 DEF n
      <4>3. /\ i \in 1 .. n \/ d # c \/ i = n + 1
            /\ j \in 1 .. n \/ e # c \/ j = n + 1
        BY <2>2, <2>3
      <4>4. QED
        BY <2>2, <2>5, <3>1, <4>1, <4>2, <4>3 DEF QueueInv, EachReceivedOnce
    <3>2. QED
      BY <3>1 DEF EachReceivedOnce
  <2>10. EachReceivedInOrder'
    <3>1. ASSUME NEW d \in Loops, NEW i \in 1 .. Len(received'[d]), NEW j \in 1 .. Len(received'[d]),
                 i < j
          PROVE  Before(received'[d][i], received'[d][j])
      <4>1. CASE d # c
        BY <2>1, <3>1, <4>1 DEF QueueInv, EachReceivedInOrder
      <4>2. CASE d = c /\ j = n + 1
        <5>1. i \in 1 .. n
          BY <2>2, <2>3, <3>1, <4>2
        <5>2. QED
          BY <2>2, <2>5, <4>2, <5>1
      <4>3. CASE d = c /\ j # n + 1
        <5>1. i \in 1 .. n /\ j \in 1 .. n
          BY <2>2, <2>3, <3>1, <4>3
        <5>2. Before(received[c][i], received[c][j])
          BY <3>1, <5>1 DEF QueueInv, EachReceivedInOrder, n
        <5>3. QED
          BY <2>2, <4>3, <5>1, <5>2
      <4>4. QED
        BY <4>1, <4>2, <4>3
    <3>2. QED
      BY <1>4, <3>1 DEF EachReceivedInOrder
  <2>11. QED
    BY <1>4, <1>5, <2>4, <2>7, <2>8, <2>9, <2>10 DEF QueueInv
<1>8. QED
  BY <1>6, <1>7

\* A loop that lets go of its message, acked or not, leaves those of the others
\* where they are.
LEMMA ReleaseKeeps ==
    ASSUME QueueInv, NEW c \in Loops, Ack(c) \/ Stop(c)
    PROVE  QueueInv'
<1>1. /\ holding' = [holding EXCEPT ![c] = {}]
      /\ \E l \in LoopStates \ {"sending", "acking"} : loop' = [loop EXCEPT ![c] = l]
      /\ processing' \in {processing, processing \ holding[c]}
      /\ acked' \in {acked, acked \cup holding[c]}
      /\ UNCHANGED <<queue, order, peer, received>>
  BY DEF Ack, Stop, LoopStates
<1>2. Popped' = Popped /\ QueueIsTail' /\ \A a, b : Before(a, b) <=> Before(a, b)'
  BY <1>1 DEF QueueInv, QueueIsTail, Popped, Before
<1>3. QueueTypeOK'
  BY <1>1 DEF QueueInv, QueueTypeOK
<1>4. /\ holding'[c] = {} /\ loop'[c] \notin {"sending", "acking"}
      /\ \A d \in Loops \ {c} : holding'[d] = holding[d] /\ loop'[d] = loop[d]
  BY <1>1 DEF QueueInv, QueueTypeOK
<1>5. HoldersDiffer'
  <2>1. ASSUME NEW d \in Loops
        PROVE  holding'[d] \subseteq Popped \cap processing'
    BY <1>1, <1>4 DEF QueueInv, HoldersDiffer
  <2>2. ASSUME NEW d \in Loops, NEW e \in Loops, d # e
        PROVE  holding'[d] \cap holding'[e] = {}
    BY <1>4, <2>2 DEF QueueInv, HoldersDiffer
  <2>3. QED
    BY <1>2, <1>4, <2>1, <2>2 DEF QueueInv, HoldersDiffer
<1>6. SendIsNew'
  BY <1>1, <1>2, <1>4 DEF QueueInv, SendIsNew
<1>7. ReceivedWasPopped' /\ EachReceivedOnce' /\ EachReceivedInOrder'
  BY <1>1, <1>2 DEF QueueInv, ReceivedWasPopped, EachReceivedOnce, EachReceivedInOrder
<1>8. QED
  BY <1>2, <1>3, <1>5, <1>6, <1>7 DEF QueueInv

\* A message whose reply a cancelled pop never sees is popped all the same.
LEMMA StopInPopKeeps ==
    ASSUME QueueInv, NEW c \in Loops, StopInPop(c)
    PROVE  QueueInv'
<1>1. /\ loop[c] = "popping" /\ queue # <<>>
      /\ processing' = processing \cup {Head(queue)}
      /\ queue' = Tail(queue)
      /\ loop' = [loop EXCEPT ![c] = "stopped"]
      /\ UNCHANGED <<order, holding, peer, received, acked>>
  BY DEF StopInPop
<1>2. /\ QueueIsTail'
      /\ queue' \in Seq(Messages) /\ Head(queue) \in Messages
      /\ Popped' = Popped \cup {Head(queue)}
  BY <1>1, HeadIsNext DEF QueueInv
<1>3. \A a, b : Before(a, b) <=> Before(a, b)'
  BY <1>1 DEF Before
<1>4. QueueTypeOK'
  BY <1>1, <1>2 DEF QueueInv, QueueTypeOK, LoopStates
<1>5. HoldersDiffer' /\ SendIsNew'
  BY <1>1, <1>2, <1>3 DEF QueueInv, QueueTypeOK, HoldersDiffer, SendIsNew
<1>6. ReceivedWasPopped' /\ EachReceivedOnce' /\ EachReceivedInOrder'
  BY <1>1, <1>2, <1>3 DEF QueueInv, ReceivedWasPopped, EachReceivedOnce, EachReceivedInOrder
<1>7. QED
  BY <1>2, <1>4, <1>5, <1>6 DEF QueueInv

\* A loop that starts, and a client that vanishes, touch no message.
LEMMA QuietKeeps ==
    ASSUME QueueInv, NEW c \in Loops, Start(c) \/ PeerVanishes(c)
    PROVE  QueueInv'
<1>1. /\ UNCHANGED <<queue, processing, order, holding, received, acked>>
      /\ loop' = loop \/ (loop[c] = "new" /\ loop' = [loop EXCEPT ![c] = "popping"])
      /\ peer' \in [Loops -> BOOLEAN]
  BY DEF Start, PeerVanishes, QueueInv, QueueTypeOK
<1>2. QueueTypeOK'
  BY <1>1 DEF QueueInv, QueueTypeOK, LoopStates
<1>3. Popped' = Popped /\ QueueIsTail' /\ \A a, b : Before(a, b) <=> Before(a, b)'
  BY <1>1 DEF QueueInv, QueueIsTail, Popped, Before
<1>4. HoldersDiffer' /\ SendIsNew'
  <2>1. \A d \in Loops : loop'[d] = loop[d] \/ {loop[d], loop'[d]} = {"new", "popping"}
    BY <1>1 DEF QueueInv, QueueTypeOK
  <2>2. \A d \in Loops : \A l \in {"sending", "acking"} : loop'[d] = l <=> loop[d] = l
    BY <2>1
  <2>3. HoldersDiffer'
    BY <1>1, <1>3, <2>2 DEF QueueInv, HoldersDiffer
  <2>4. SendIsNew'
    BY <1>1, <1>3, <2>2 DEF QueueInv, SendIsNew
  <2>5. QED
    BY <2>3, <2>4
<1>5. ReceivedWasPopped' /\ EachReceivedOnce' /\ EachReceivedInOrder'
  BY <1>1, <1>3 DEF QueueInv, ReceivedWasPopped, EachReceivedOnce, EachReceivedInOrder
<1>6. QED
  BY <1>2, <1>3, <1>4, <1>5 DEF QueueInv

\* Every step of the producers, the loops and the clients keeps the invariant.
LEMMA QueueInvNext == QueueInv /\ [QueueNext]_queueVars => QueueInv'
<1> SUFFICES ASSUME QueueInv, [QueueNext]_queueVars
             PROVE  QueueInv'
  OBVIOUS
<1>1. CASE \E m \in Messages : Push(m)
  BY <1>1, PushKeeps
<1>2. ASSUME NEW c \in Loops, Start(c) \/ PeerVanishes(c)
      PROVE  QueueInv'
  BY <1>2, QuietKeeps
<1>3. ASSUME NEW c \in Loops, Pop(c)
      PROVE  QueueInv'
  BY <1>3, PopKeeps
<1>4. ASSUME NEW c \in Loops, Send(c)
      PROVE  QueueInv'
  BY <1>4, SendKeeps
<1>5. ASSUME NEW c \in Loops, Ack(c) \/ Stop(c)
      PROVE  QueueInv'
  BY <1>5, ReleaseKeeps
<1>6. ASSUME NEW c \in Loops, StopInPop(c)
      PROVE  QueueInv'
  BY <1>6, StopInPopKeeps
<1>7. CASE UNCHANGED queueVars
  <2>1. Popped' = Popped /\ \A a, b : Before(a, b) <=> Before(a, b)'
    BY <1>7 DEF queueVars, Popped, Before
  <2>2. QueueTypeOK' /\ QueueIsTail' /\ HoldersDiffer' /\ SendIsNew'
    BY <1>7, <2>1 DEF queueVars, QueueInv, QueueTypeOK, QueueIsTail, HoldersDiffer, SendIsNew
  <2>3. ReceivedWasPopped' /\ EachReceivedOnce' /\ EachReceivedInOrder'
    BY <1>7, <2>1 DEF queueVars, QueueInv, ReceivedWasPopped, EachReceivedOnce, EachReceivedInOrder
  <2>4. QED
    BY <2>2, <2>3 DEF QueueInv
<1>8. QED
  BY <1>1, <1>2, <1>3, <1>4, <1>5, <1>6, <1>7 DEF QueueNext

-----------------------------------------------------------------------------
(* The theorems. *)

\* The inductive invariant holds throughout.
LEMMA QueueInvAlways == QueueSpec => []QueueInv
<1>1. QED
  BY QueueInvInit, QueueInvNext, PTL DEF QueueSpec

\* The queue, the lists and the loops keep their types.
THEOREM QueueTypeCorrect == QueueSpec => []QueueTypeOK
<1>1. QueueInv => QueueTypeOK
  BY DEF QueueInv
<1>2. QED
  BY <1>1, QueueInvAlways, PTL

\* No message is handed out twice, on one connection or on two, however many
\* fenced loops drain the queue beside the current one (blmove).
THEOREM DeliveredAtMostOnce == QueueSpec => []AtMostOnce
<1>1. QueueInv => AtMostOnce
  <2> SUFFICES ASSUME QueueInv
               PROVE  AtMostOnce
    OBVIOUS
  <2>1. \A c \in Loops : DOMAIN received[c] = 1 .. Len(received[c])
    BY LenProperties DEF QueueInv, QueueTypeOK
  <2>2. \A c \in Loops : IsInjective(received[c])
    BY <2>1 DEF QueueInv, EachReceivedOnce, IsInjective
  <2>3. \A c, d \in Loops : Range(received[c]) \cap Range(received[d]) # {} => c = d
    BY <2>1 DEF QueueInv, EachReceivedOnce, Range
  <2>4. QED
    BY <2>2, <2>3 DEF AtMostOnce
<1>2. QED
  BY <1>1, QueueInvAlways, PTL

\* Each client receives a part of what was pushed in the order of the pushes, so
\* that no Cancel overtakes its Assign on a connection (lpush, blmove).
THEOREM ArrivalsFollowPushes == QueueSpec => []ArrivesInOrder
<1>1. QueueInv => ArrivesInOrder
  <2> SUFFICES ASSUME QueueInv
               PROVE  ArrivesInOrder
    OBVIOUS
  <2>1. \A c \in Loops : DOMAIN received[c] = 1 .. Len(received[c])
    BY LenProperties DEF QueueInv, QueueTypeOK
  <2>2. QED
    BY <2>1 DEF QueueInv, EachReceivedInOrder, ArrivesInOrder
<1>2. QED
  BY <1>1, QueueInvAlways, PTL

\* The ack of one loop never removes what another loop still has to send from the
\* processing list they share (lrem by value).
THEOREM HeldStaysRecorded == QueueSpec => []HeldIsRecorded
<1>1. QueueInv => HeldIsRecorded
  <2> SUFFICES ASSUME QueueInv, NEW c \in Loops, NEW m \in holding[c]
               PROVE  m \in processing /\ m \notin Range(queue)
    BY DEF HeldIsRecorded
  <2>1. /\ Len(queue) \in Nat /\ Len(order) \in Nat
        /\ DOMAIN queue = 1 .. Len(queue)
    BY LenProperties DEF QueueInv, QueueTypeOK
  <2>2. m \in processing /\ m \in Popped
    BY DEF QueueInv, HoldersDiffer
  <2>3. PICK i \in 1 .. Len(order) - Len(queue) : m = order[i]
    BY <2>2 DEF Popped
  <2>4. ASSUME NEW j \in 1 .. Len(queue)
        PROVE  queue[j] # m
    <3>1. /\ Len(order) - Len(queue) + j \in 1 .. Len(order)
          /\ i \in 1 .. Len(order)
          /\ i # Len(order) - Len(queue) + j
      BY <2>1 DEF QueueInv, QueueIsTail
    <3>2. queue[j] = order[Len(order) - Len(queue) + j]
      BY DEF QueueInv, QueueIsTail
    <3>3. QED
      BY <2>3, <3>1, <3>2 DEF QueueInv, QueueIsTail
  <2>5. QED
    BY <2>1, <2>2, <2>4 DEF Range
<1>2. QED
  BY <1>1, QueueInvAlways, PTL
=============================================================================

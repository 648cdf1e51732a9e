------------------------------- MODULE StateLog -------------------------------
(***************************************************************************)
(* The history of an agent's states: the session, snapshot and patch rows  *)
(* that facade/persist_backend.py writes for the processes of one agent,   *)
(* get_latest_state (facade/logic.py), which replays them for checkout and *)
(* checkout_agent (facade/queries/state.py), and the watch subscriptions   *)
(* (facade/subscriptions/state.py).                                        *)
(*                                                                         *)
(* A process draws a session id when it starts and sends its frames on one *)
(* socket, whose handlers run one after the other; a process that was      *)
(* replaced may still have frames on the way.  A timestamp is the position *)
(* of a row in the log.  A value is the sequence of patches applied to the *)
(* initial value.                                                          *)
(***************************************************************************)
EXTENDS Integers, Sequences, FiniteSets

CONSTANTS
    Sessions,       \* agent processes
    States, NoState,
    Readers,        \* queries and subscriptions, each used once
    MaxRev,         \* how many patches a process sends at most
    MaxSnapshots    \* how many StateSnapshots a process sends at most

ASSUME StatesAssumption == NoState \notin States
ASSUME BoundsAssumption == MaxRev \in Nat /\ MaxSnapshots \in Nat

VARIABLES
    log,        \* Session, Snapshot and Patch rows in the order of their timestamps
    rev,        \* the global_rev of each process
    value,      \* the states of each process
    todo,       \* snapshot rows a running handler has yet to write
    snapshots,  \* StateSnapshots sent so far
    alive,      \* the process is there
    pc,         \* where a reader stands
    sess,       \* the session it replays
    bound,      \* its global_revision; MaxRev + 1 if it asked for none
    scope,      \* the states it was asked for
    left,       \* those it has not read yet
    cursor,     \* the state it is reading
    base,       \* the position of the snapshot it starts from
    result,     \* what it has read, and, of a watcher, what it has been sent
    revision,   \* the global_revision it reports
    began       \* history: the length of the log when it began

agentVars  == <<rev, value, todo, snapshots, alive>>
readerVars == <<pc, sess, bound, scope, left, cursor, base, result, revision, began>>
vars       == <<log, agentVars, readerVars>>

Unbounded == MaxRev + 1

\* The elements of seq that are in set, in their order.  (SelectSeq, as a function that
\* proofs can unfold.)
Select(seq, set) ==
    LET upTo[n \in Nat] ==
            IF n = 0 THEN <<>>
            ELSE IF seq[n] \in set THEN Append(upTo[n - 1], seq[n]) ELSE upTo[n - 1]
    IN  upTo[Len(seq)]

TypeOK ==
    /\ rev \in [Sessions -> 0 .. MaxRev]
    /\ todo \in [Sessions -> SUBSET States]
    /\ snapshots \in [Sessions -> 0 .. MaxSnapshots]
    /\ alive \subseteq Sessions
    /\ pc \in [Readers -> {"idle", "reading", "over", "failed", "watching"}]
    /\ \A q \in Readers :
          /\ bound[q] \in 0 .. Unbounded
          /\ left[q] \subseteq scope[q]
          /\ cursor[q] \in left[q] \cup {NoState}
          /\ cursor[q] # NoState => /\ base[q] \in DOMAIN log
                                    /\ log[base[q]].kind = "snapshot"
                                    /\ log[base[q]].state = cursor[q]

Init ==
    /\ log = <<>>
    /\ rev = [s \in Sessions |-> 0]
    /\ value = [s \in Sessions |-> [x \in States |-> <<>>]]
    /\ todo = [s \in Sessions |-> {}]
    /\ snapshots = [s \in Sessions |-> 0]
    /\ alive = Sessions
    /\ pc = [q \in Readers |-> "idle"]
    /\ sess \in [Readers -> Sessions]
    /\ bound = [q \in Readers |-> Unbounded]
    /\ scope = [q \in Readers |-> {}]
    /\ left = [q \in Readers |-> {}]
    /\ cursor = [q \in Readers |-> NoState]
    /\ base = [q \in Readers |-> 0]
    /\ result = [q \in Readers |-> [x \in States |-> <<>>]]
    /\ revision = [q \in Readers |-> 0]
    /\ began = [q \in Readers |-> 0]

\* The rows that the frames of a process become: a SessionInit, one state of a
\* snapshot, and a patch.
SessionRow(s)     == [kind |-> "session", session |-> s]
SnapshotRow(s, x) == [kind |-> "snapshot", session |-> s, state |-> x,
                      rev |-> rev[s], value |-> value[s][x]]
PatchRow(s, x)    == [kind |-> "patch", session |-> s, state |-> x, rev |-> rev[s] + 1]

\* The patches of some sessions to state x, up to a global_rev.
Patches(ss, x, r) == [kind : {"patch"}, session : ss, state : {x}, rev : 1 .. r]

Started == {log[n].session : n \in {m \in DOMAIN log : log[m].kind = "session"}}

-----------------------------------------------------------------------------
(* What agents send.                                                        *)

\* on_agent_session_init: the Session row; the snapshots of all states follow,
\* at global_rev 0.
SessionInit(s) ==
    /\ s \in alive \ Started
    /\ log' = Append(log, SessionRow(s))
    /\ todo' = [todo EXCEPT ![s] = States]
    /\ UNCHANGED <<rev, value, snapshots, alive, readerVars>>

\* on_agent_state_snapshot up to its loop.
StateSnapshot(s) ==
    /\ s \in alive \cap Started
    /\ todo[s] = {}
    /\ snapshots[s] < MaxSnapshots
    /\ snapshots' = [snapshots EXCEPT ![s] = @ + 1]
    /\ todo' = [todo EXCEPT ![s] = States]
    /\ UNCHANGED <<log, rev, value, alive, readerVars>>

\* One turn of either loop.
WriteSnapshot(s, x) ==
    /\ x \in todo[s]
    /\ log' = Append(log, SnapshotRow(s, x))
    /\ todo' = [todo EXCEPT ![s] = @ \ {x}]
    /\ UNCHANGED <<rev, value, snapshots, alive, readerVars>>

\* A mutant of StatePatch: patch_post_save sends the patch to both of its topics
\* although a watcher of the agent has joined both.
StatePatchTwice(s, x) ==
    LET patch == PatchRow(s, x) IN
    /\ s \in alive \cap Started
    /\ todo[s] = {}
    /\ rev[s] < MaxRev
    /\ rev' = [rev EXCEPT ![s] = @ + 1]
    /\ value' = [value EXCEPT ![s][x] = Append(@, patch)]
    /\ log' = Append(log, patch)
    /\ result' = [q \in Readers |->
          IF pc[q] = "watching" /\ x \in scope[q]
          THEN [result[q] EXCEPT ![x] = @ \o <<patch, patch>>] ELSE result[q]]
    /\ UNCHANGED <<todo, snapshots, alive, pc, sess, bound, scope, left, cursor, base,
                   revision, began>>

\* on_agent_state_patch, and patch_post_save, which sends it to the watchers.
StatePatch(s, x) ==
    LET patch == PatchRow(s, x) IN
    /\ s \in alive \cap Started
    /\ todo[s] = {}
    /\ rev[s] < MaxRev
    /\ rev' = [rev EXCEPT ![s] = @ + 1]
    /\ value' = [value EXCEPT ![s][x] = Append(@, patch)]
    /\ log' = Append(log, patch)
    /\ result' = [q \in Readers |->
          IF pc[q] = "watching" /\ x \in scope[q]
          THEN [result[q] EXCEPT ![x] = Append(@, patch)] ELSE result[q]]
    /\ UNCHANGED <<todo, snapshots, alive, pc, sess, bound, scope, left, cursor, base,
                   revision, began>>

\* The process or its worker dies in the middle of a loop.  (Dying between two
\* frames is sending nothing more, which a process is always free to do.)
Die(s) ==
    /\ todo[s] # {}
    /\ alive' = alive \ {s}
    /\ todo' = [todo EXCEPT ![s] = {}]
    /\ UNCHANGED <<log, rev, value, snapshots, readerVars>>

-----------------------------------------------------------------------------
(* get_latest_state: one query after the other, each on its own snapshot of *)
(* the database.                                                            *)

\* The session: the newest one, or the one the query names.  A query for a
\* session that does not exist raises.
BeginRead(q, s, r, xs) ==
    /\ pc[q] = "idle"
    /\ s \in Started
    /\ pc' = [pc EXCEPT ![q] = "reading"]
    /\ sess' = [sess EXCEPT ![q] = s]
    /\ bound' = [bound EXCEPT ![q] = r]
    /\ scope' = [scope EXCEPT ![q] = xs]
    /\ left' = [left EXCEPT ![q] = xs]
    /\ began' = [began EXCEPT ![q] = Len(log)]
    /\ UNCHANGED <<log, agentVars, cursor, base, result, revision>>

\* Snapshots of the session within the bound; without one the newest is taken,
\* with one any of those with the greatest global_rev.
Candidates(q, x) ==
    {n \in DOMAIN log : /\ log[n].kind = "snapshot"
                        /\ log[n].session = sess[q] /\ log[n].state = x
                        /\ log[n].rev <= bound[q]}

Anchors(q, x) ==
    {n \in Candidates(q, x) : \A m \in Candidates(q, x) :
        IF bound[q] = Unbounded THEN m <= n ELSE log[m].rev <= log[n].rev}

ReadSnapshot(q, x) ==
    /\ pc[q] = "reading" /\ cursor[q] = NoState
    /\ x \in left[q]
    /\ \E n \in Anchors(q, x) : base' = [base EXCEPT ![q] = n]
    /\ cursor' = [cursor EXCEPT ![q] = x]
    /\ UNCHANGED <<log, agentVars, pc, sess, bound, scope, left, result, revision, began>>

\* No snapshot: the query raises.
FailRead(q, x) ==
    /\ pc[q] = "reading" /\ cursor[q] = NoState
    /\ x \in left[q]
    /\ Anchors(q, x) = {}
    /\ pc' = [pc EXCEPT ![q] = "failed"]
    /\ UNCHANGED <<log, agentVars, sess, bound, scope, left, cursor, base, result,
                   revision, began>>

\* The patches after position n that are replayed for state x, of any session.
Replayed(q, x, n) ==
    Select(SubSeq(log, n + 1, Len(log)), Patches(Sessions, x, bound[q]))

\* The next state is read from patches, on top of the value before.
Replay(q, before, patches, from) ==
    LET reached == IF patches = <<>> THEN from ELSE patches[Len(patches)].rev IN
    /\ pc[q] = "reading" /\ cursor[q] # NoState
    /\ result' = [result EXCEPT ![q][cursor[q]] = before \o patches]
    /\ revision' = [revision EXCEPT ![q] = IF reached > @ THEN reached ELSE @]
    /\ left' = [left EXCEPT ![q] = @ \ {cursor[q]}]
    /\ cursor' = [cursor EXCEPT ![q] = NoState]
    /\ pc' = [pc EXCEPT ![q] = IF left[q] = {cursor[q]} THEN "over" ELSE "reading"]
    /\ UNCHANGED <<log, agentVars, sess, bound, scope, base, began>>

\* A mutant of ReadPatches: patches are selected by their revision alone, and
\* the one the snapshot already has comes again.
ReadPatchesByRevision(q) ==
    LET at == log[base[q]]
        old == Patches(Sessions, cursor[q], at.rev - 1)
    IN  Replay(q, at.value, Select(log, Patches(Sessions, cursor[q], bound[q]) \ old), at.rev)

ReadPatches(q) ==
    LET at == log[base[q]] IN
    Replay(q, at.value, Replayed(q, cursor[q], base[q]), at.rev)

\* The newest session among the first n rows.
LatestAt(n) ==
    CHOOSE s \in Sessions : \E m \in 1 .. n :
        log[m] = SessionRow(s) /\ \A later \in m + 1 .. n : log[later].kind # "session"

\* watch_state, watch_agent: they replay the newest session without a bound,
\* yield the snapshot and join the channel.
Listen(q) ==
    /\ pc[q] = "over"
    /\ bound[q] = Unbounded /\ sess[q] = LatestAt(began[q])
    /\ pc' = [pc EXCEPT ![q] = "watching"]
    /\ UNCHANGED <<log, agentVars, sess, bound, scope, left, cursor, base, result,
                   revision, began>>

Scopes == {{x} : x \in States} \cup {States}

Next ==
    \/ \E s \in Sessions :
          \/ SessionInit(s) \/ StateSnapshot(s) \/ Die(s)
          \/ \E x \in States : WriteSnapshot(s, x) \/ StatePatch(s, x)
    \/ \E q \in Readers :
          \/ \E s \in Sessions, r \in 0 .. Unbounded, xs \in Scopes : BeginRead(q, s, r, xs)
          \/ \E x \in States : ReadSnapshot(q, x) \/ FailRead(q, x)
          \/ ReadPatches(q) \/ Listen(q)

Spec == Init /\ [][Next]_vars

-----------------------------------------------------------------------------
(* Properties.                                                              *)

\* The patches of session s to state x, up to global_rev r, that were in the log at
\* position n, and those of a session among what a reader has.
PatchesAt(n, s, x, r) == Select(SubSeq(log, 1, n), Patches({s}, x, r))
Own(q, x)             == Select(result[q][x], Patches({sess[q]}, x, Unbounded))

(***************************************************************************)
(* A replay loses, repeats and reorders nothing of its own session         *)
(* (get_latest_state reads a snapshot, then patches, and agents write in   *)
(* between): of the session it replays, every state it returns has exactly *)
(* the patches, within the bound, of one moment while the query ran.       *)
(***************************************************************************)
ReplayIsOfOneMoment ==
    \A q \in Readers : pc[q] = "over" =>
        \A x \in scope[q] : \E n \in began[q] .. Len(log) :
            Own(q, x) = PatchesAt(n, sess[q], x, bound[q])

(***************************************************************************)
(* What a watcher misses is one stretch (watch_state and watch_agent read, *)
(* then listen): of each state it has the patches of one moment and, in    *)
(* order and once, every patch since a later one, so that a hole in the    *)
(* sequence of revisions is all a client has to look for.                  *)
(***************************************************************************)
WatchMissesOneStretch ==
    \A q \in Readers : pc[q] = "watching" =>
        \A x \in scope[q] :
            LET all == PatchesAt(Len(log), sess[q], x, Unbounded) IN
            \E n \in 0 .. Len(all), m \in 1 .. Len(all) + 1 :
                n < m /\ Own(q, x) = SubSeq(all, 1, n) \o SubSeq(all, m, Len(all))
=============================================================================

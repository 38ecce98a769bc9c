----------------------------- MODULE FetchAgent -----------------------------
(***************************************************************************)
(* The EC2 fetch agent: the singleton that polls pending/, fetches each    *)
(* manifest of the listing, lands the payload and moves the manifest to    *)
(* done/ or failed/.  A move is a put followed by a delete.  While the     *)
(* gateway is down the agent leaves its listing alone, so that case is a   *)
(* poll that has not happened yet.                                         *)
(***************************************************************************)
EXTENDS ControlPlane

CONSTANTS
    MaxAttempts,  \* TA_MAX_ATTEMPTS
    ListLimit     \* list_pending's MaxKeys

ASSUME AgentAssumption == MaxAttempts \in Nat \ {0} /\ ListLimit \in Nat \ {0}

VARIABLE agent  \* the poll cycle in progress

AgentPhases == {"idle", "ready", "fetch", "put_done", "delete_done",
                "put_failed", "delete_failed"}

\* todo: the keys of the listing not yet handled.  key: the manifest in
\* hand, one of them (a set of at most one).
AgentState == [phase : AgentPhases, todo : SUBSET Keys, key : SUBSET Keys,
               attempt : 0 .. MaxAttempts]

IdleAgent == [phase |-> "idle", todo |-> {}, key |-> {}, attempt |-> 0]

\* The order of object keys: batch (a timestamp), symbol, seq.  The symbols
\* of the instruments are not compared, which leaves their order open.
KeyBefore(k, l) ==
    \/ KeyBatch(k) < KeyBatch(l)
    \/ KeyBatch(k) = KeyBatch(l) /\ KeyInstrument(k) = KeyInstrument(l) /\ KeySeq(k) < KeySeq(l)

ClosedBefore(ks, all) == \A k \in ks, l \in all : KeyBefore(l, k) => l \in ks

\* list_pending: the first ListLimit keys.  The listing is worked off
\* whatever happens to the prefix.
AgentPoll ==
    /\ agent.phase = "idle" /\ pending # {}
    /\ \E listing \in SUBSET pending :
         /\ ClosedBefore(listing, pending)
         /\ Cardinality(listing) = Earlier(ListLimit, Cardinality(pending))
         /\ agent' = [IdleAgent EXCEPT !.phase = "ready", !.todo = listing]
    /\ UNCHANGED shared

\* read_manifest and dispatch; a version or task type the agent does not
\* know goes straight to failed/.
AgentTake(k) ==
    /\ agent.phase = "ready" /\ k \in agent.todo /\ ClosedBefore({k}, agent.todo)
    /\ \/ agent' = [agent EXCEPT !.phase = "fetch", !.key = {k}, !.attempt = 1]
       \/ /\ "contract" \in Faults
          /\ agent' = [agent EXCEPT !.phase = "put_failed", !.key = {k}]
    /\ UNCHANGED shared

\* gw.fetch_ohlcv and land_raw: the payload key is the request key.
AgentLand ==
    /\ agent.phase = "fetch"
    /\ raw' = raw \cup agent.key
    /\ agent' = [agent EXCEPT !.phase = "put_done"]
    /\ UNCHANGED <<delta, pending, done, failed, clock>>

AgentPutDone ==
    /\ agent.phase = "put_done"
    /\ done' = done \cup agent.key
    /\ agent' = [agent EXCEPT !.phase = "delete_done"]
    /\ UNCHANGED <<delta, pending, failed, raw, clock>>

\* Mutant of AgentAttemptFails: the attempts are not counted against the limit.
RetriesForEver ==
    /\ agent.phase \in {"fetch", "put_done", "delete_done"}
    /\ agent' = [agent EXCEPT !.phase = "fetch", !.attempt = agent.attempt + 1]
    /\ UNCHANGED shared

\* Any exception inside the try: another attempt, or give up.  The reply to
\* a delete that did take effect may be what was lost (for the puts that is
\* the same as failing one step later).
AgentAttemptFails ==
    /\ agent.phase \in {"fetch", "put_done", "delete_done"}
    /\ agent' = IF agent.attempt < MaxAttempts
                THEN [agent EXCEPT !.phase = "fetch", !.attempt = agent.attempt + 1]
                ELSE [agent EXCEPT !.phase = "put_failed"]
    /\ \/ UNCHANGED pending
       \/ /\ "lost_reply" \in Faults /\ agent.phase = "delete_done"
          /\ pending' = pending \ agent.key
    /\ UNCHANGED <<delta, done, failed, raw, clock>>

AgentPutFailed ==
    /\ agent.phase = "put_failed"
    /\ failed' = failed \cup agent.key
    /\ agent' = [agent EXCEPT !.phase = "delete_failed"]
    /\ UNCHANGED <<delta, pending, done, raw, clock>>

\* Mutant of AgentDeletePending: failing a manifest leaves it in pending/.
DeletesOnSuccessOnly ==
    /\ agent.phase \in {"delete_done", "delete_failed"}
    /\ pending' = IF agent.phase = "delete_done" THEN pending \ agent.key ELSE pending
    /\ agent' = [agent EXCEPT !.phase = "ready", !.todo = agent.todo \ agent.key,
                              !.key = {}, !.attempt = 0]
    /\ UNCHANGED <<delta, done, failed, raw, clock>>

\* The delete that ends either move.
AgentDeletePending ==
    /\ agent.phase \in {"delete_done", "delete_failed"}
    /\ pending' = pending \ agent.key
    /\ agent' = [agent EXCEPT !.phase = "ready", !.todo = agent.todo \ agent.key,
                              !.key = {}, !.attempt = 0]
    /\ UNCHANGED <<delta, done, failed, raw, clock>>

AgentCycleEnds ==
    /\ agent.phase = "ready" /\ agent.todo = {}
    /\ agent' = IdleAgent
    /\ UNCHANGED shared

\* The process dies or is stopped (systemd starts it again), or an exception
\* outside the attempt loop ends the cycle: what it held in memory is gone.
AgentCrash ==
    /\ agent.phase # "idle"
    /\ Crash
    /\ agent' = IdleAgent
    /\ UNCHANGED <<delta, queue, today>>

AgentWork ==
    \/ AgentPoll \/ (\E k \in agent.todo : AgentTake(k))
    \/ AgentLand \/ AgentPutDone \/ AgentAttemptFails
    \/ AgentPutFailed \/ AgentDeletePending \/ AgentCycleEnds
=============================================================================

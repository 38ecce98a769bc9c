--------------------------- MODULE VendorSeeding ---------------------------
(***************************************************************************)
(* The notebook 06_seed_vendor_ids and the agent's handler for its         *)
(* manifests: the listings without a current vendor id go to the agent,    *)
(* whose answer the notebook waits for and loads.  Several runs of the     *)
(* notebook may be under way, each with a request of its own.              *)
(***************************************************************************)
EXTENDS UniverseSync

CONSTANTS
    Seeders,      \* runs of the notebook that may be under way together
    Doubtful,     \* symbols that the gateway may fail to qualify
    MaxRequests   \* bound: manifests that are put

ASSUME SeederAssumption == MaxRequests \in Nat

VARIABLES
    vendor_id,   \* reference.instrument_vendor_id, all of it current
    overlaps,    \* rows inserted for an instrument that had a current one
    request,     \* the queue, per request key: its manifest and its receipts
    seeder       \* the runs: which request each waits for, what it has staged

seedVars == <<vendor_id, overlaps, request, seeder>>

IdleSeeder == [phase |-> "idle", key |-> 0, staged |-> {}]

Unmapped == { l \in listing : \A v \in vendor_id : v.id # l.id }

\* Steps 1 and 2.
SeederStart(n) ==
    /\ seeder[n].phase = "idle" /\ Unmapped # {} /\ Len(request) < MaxRequests
    /\ request' = Append(request, [instruments |-> Unmapped, pending |-> TRUE,
                                   done |-> Nothing, failed |-> FALSE])
    /\ seeder' = [seeder EXCEPT ![n] = [IdleSeeder EXCEPT !.phase = "wait", !.key = Len(request) + 1]]
    /\ UNCHANGED <<vendor_id, overlaps, syncVars>>

\* handle_qualify_instruments: what cannot be qualified, for whatever reason, is
\* reported and the rest goes to done/.  A vendor id is the symbol it stands for.
\* An agent that dies before the manifest is deleted will qualify it again.
AgentQualify(k, failures, dies) ==
    /\ request[k].pending
    /\ request' = [request EXCEPT
         ![k].pending = dies,
         ![k].done = { [id |-> r.id, vendor_instrument_id |-> r.symbol] :
                         r \in { l \in request[k].instruments : l.symbol \notin failures } }]
    /\ UNCHANGED <<vendor_id, overlaps, seeder, syncVars>>

\* _fail_manifest: a contract version or a task type it does not know.
AgentRefuses(k) ==
    /\ request[k].pending /\ request[k].done = Nothing
    /\ request' = [request EXCEPT ![k].pending = FALSE, ![k].failed = TRUE]
    /\ UNCHANGED <<vendor_id, overlaps, seeder, syncVars>>

\* Step 3: done/ is looked at before failed/, for which the notebook raises.
SeederPoll(n) ==
    /\ seeder[n].phase = "wait"
    /\ LET receipt == request[seeder[n].key]
       IN  \/ /\ receipt.done # Nothing
              /\ seeder' = [seeder EXCEPT ![n].phase = "load", ![n].staged = receipt.done]
           \/ /\ receipt.done = Nothing /\ receipt.failed
              /\ seeder' = [seeder EXCEPT ![n] = IdleSeeder]
    /\ UNCHANGED <<vendor_id, overlaps, request, syncVars>>

\* The notebook times out or dies: its request stays where it is, and the
\* result is never loaded.
SeederStops(n) ==
    /\ seeder[n].phase # "idle"
    /\ seeder' = [seeder EXCEPT ![n] = IdleSeeder]
    /\ UNCHANGED <<vendor_id, overlaps, request, syncVars>>

\* Mutant of Loadable: a manifest lists unmapped instruments only, so it is loaded.
AllStaged(staged) == staged

\* Step 5, one statement: what has a current mapping is left alone, a conflict
\* is reported.  Staged rows of one instrument do not see each other.
Loadable(staged) == { m \in staged : \A v \in vendor_id : v.id # m.id }

SeederLoad(n) ==
    /\ seeder[n].phase = "load"
    /\ vendor_id' = vendor_id \cup Loadable(seeder[n].staged)
    /\ overlaps' = overlaps \cup { m \in Loadable(seeder[n].staged) :
                                     \E v \in vendor_id : v.id = m.id }
    /\ seeder' = [seeder EXCEPT ![n] = IdleSeeder]
    /\ UNCHANGED <<request, syncVars>>

SeedingInit ==
    /\ vendor_id = {} /\ overlaps = {} /\ request = <<>>
    /\ seeder = [n \in Seeders |-> IdleSeeder]

SeedingNext ==
    \/ \E n \in Seeders : SeederStart(n) \/ SeederPoll(n) \/ SeederStops(n) \/ SeederLoad(n)
    \/ \E k \in DOMAIN request :
         \/ \E failures \in SUBSET Doubtful, dies \in BOOLEAN : AgentQualify(k, failures, dies)
         \/ AgentRefuses(k)
=============================================================================

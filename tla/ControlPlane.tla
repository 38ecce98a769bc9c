---------------------------- MODULE ControlPlane ----------------------------
(***************************************************************************)
(* The state the planner, the fetch agent and the ingestion job share: the *)
(* Delta tables, the S3 queue and the raw zone.  None of the three ever    *)
(* talks to another; everything they know of each other is here.           *)
(*                                                                         *)
(* A request_key <batch>_<vendor>_<symbol>_<seq> is the triple             *)
(* <<batch, instrument, seq>>; one stream and one vendor are modelled.  A  *)
(* queue object is the key of its manifest.  A raw payload is the key it   *)
(* is stored under: what it holds is what the vendor has for the range of  *)
(* the request (Bars), however often it is fetched.                        *)
(***************************************************************************)
EXTENDS Planning

CONSTANTS
    MaxBatches,   \* bound: planner runs that emit requests
    MaxDay,       \* bound: the last day the clock reaches
    MaxCrashes,   \* bound: how often a process dies or an ingest group fails
    VendorDays,   \* days the vendor has a bar for, per instrument
    InvalidDays,  \* those whose bar the validator rejects
    RevisedDays,  \* days whose price the vendor may have revised
    Suspendable,  \* instruments that something may suspend
    KeysMatch,    \* do stored bars and incoming bars agree on the type of bar_date
    JobsOverlap,  \* may the planner and the ingestion job run side by side
    Faults        \* the tolerated errors the environment injects

\* "dry_run" is no error: it lets a run stop where dry_run=True stops it.
FaultKinds == {"pending_list", "watermark_read", "watermark_flush", "guard_query",
               "dedup_query", "manifest_put", "contract", "receipt_read",
               "lost_reply", "dry_run"}

ASSUME ControlPlaneAssumption ==
    /\ MaxBatches \in Nat /\ MaxDay \in Nat \ {0} /\ MaxCrashes \in Nat
    /\ VendorDays \in [Instruments -> SUBSET Nat]
    /\ InvalidDays \in [Instruments -> SUBSET Nat]
    /\ RevisedDays \subseteq Nat
    /\ Suspendable \subseteq Instruments
    /\ JobsOverlap \in BOOLEAN /\ KeysMatch \in BOOLEAN
    /\ Faults \subseteq FaultKinds

VARIABLES
    fetch_request,  \* control.fetch_request: request_key -> row
    batches,        \* how many batch ids have been used for an insert
    pending,        \* control/fetch/<vendor>/pending/
    done,           \* control/fetch/<vendor>/done/
    failed,         \* control/fetch/<vendor>/failed/
    raw,            \* payloads in the raw zone
    bronze,         \* bronze.market_data_daily: <<instrument, day, batch>>
    repeated,       \* bars appended without dedup although already stored
    rejected,       \* bronze.market_data_rejected
    watermark,      \* control.ingestion_watermark
    today,          \* the date both jobs see
    crashes         \* processes that died and groups that failed so far

delta  == <<fetch_request, batches, bronze, repeated, rejected, watermark>>
queue  == <<pending, done, failed, raw>>
clock  == <<today, crashes>>
shared == <<delta, queue, clock>>

Batches == 1 .. MaxBatches
Keys    == Batches \X Instruments \X (Nat \ {0})
Bar     == Instruments \X Nat \X Batches

Status  == {"PENDING", "LANDED", "INGESTED", "FAILED", "ORPHANED"}
Request == [load : LoadTypes, start : Int, end : Int, status : Status]

KeyBatch(k)      == k[1]
KeyInstrument(k) == k[2]
KeySeq(k)        == k[3]

WithStatus(s)  == { k \in DOMAIN fetch_request : fetch_request[k].status = s }
InFlight       == WithStatus("PENDING") \cup WithStatus("LANDED")

\* UPDATE / MERGE: the rows in ks whose status is in `from` get status `to`.
SetStatus(table, ks, from, to) ==
    [k \in DOMAIN table |->
        IF k \in ks /\ table[k].status \in from
        THEN [table[k] EXCEPT !.status = to] ELSE table[k]]

\* The days for which request k brings a bar.
Bars(k) == { d \in VendorDays[KeyInstrument(k)] :
               fetch_request[k].start <= d /\ d <= fetch_request[k].end }

\* The days of instrument i that Bronze holds.
Stored(i) == { d \in VendorDays[i] : \E b \in Batches : <<i, d, b>> \in bronze }

EmptyTables ==
    /\ fetch_request = <<>>
    /\ batches = 0
    /\ pending = {} /\ done = {} /\ failed = {} /\ raw = {}
    /\ bronze = {} /\ repeated = {} /\ rejected = {}
    /\ watermark = [i \in Instruments |-> NoWatermark]
    /\ today = 1 /\ crashes = 0

\* What may be in the tables, the queue and the raw zone.
SharedTypeOK ==
    /\ fetch_request \in [DOMAIN fetch_request -> Request]
    /\ DOMAIN fetch_request \subseteq Keys
    /\ batches \in 0 .. MaxBatches
    /\ pending \subseteq Keys /\ done \subseteq Keys
    /\ failed \subseteq Keys /\ raw \subseteq Keys
    /\ bronze \subseteq Bar /\ rejected \subseteq Bar
    /\ repeated \subseteq Instruments \X Nat
    /\ watermark \in [Instruments -> Watermark]
    /\ today \in 1 .. MaxDay /\ crashes \in 0 .. MaxCrashes

\* Something dies; the bound is the only thing that limits how often.
Crash == crashes < MaxCrashes /\ crashes' = crashes + 1

NextDay ==
    /\ today < MaxDay
    /\ today' = today + 1
    /\ UNCHANGED <<delta, queue, crashes>>

\* The table's documentation names a status 'suspended', and the planner asks
\* for it, but no code here sets it: whoever does is outside the repository.
Suspend(i) ==
    /\ i \in Suspendable
    /\ watermark[i] # NoWatermark /\ ~watermark[i].suspended
    /\ watermark' = [watermark EXCEPT ![i].suspended = TRUE]
    /\ UNCHANGED <<fetch_request, batches, bronze, repeated, rejected, queue, clock>>
=============================================================================

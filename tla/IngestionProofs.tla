--------------------------- MODULE IngestionProofs ---------------------------
(***************************************************************************)
(* The single-plane job for every configuration, provider list, calendar,  *)
(* explicit range and bound: only approved providers are stored, what was  *)
(* answered is in the table when the watermark moves, the ends of a        *)
(* watermark are dates of rows and holes under it are days the provider    *)
(* was asked for, a suspension is lifted by an explicit range or a run     *)
(* that had not seen it, and in memory nothing is appended twice that the  *)
(* vendor has not changed.                                                 *)
(*                                                                         *)
(* None of these is inductive: the run decides by what it read and fetched *)
(* steps ago.  RunInv says what its locals still have to do with the       *)
(* tables (GotStored, ExistingOfRows, SeenActive), BarsInv how stored and  *)
(* fetched bars relate to the vendor's, HolesInv how plans, chunks and     *)
(* answers follow on the watermark and on each other.                      *)
(***************************************************************************)
EXTENDS Ingestion, WellFoundedInduction, TLAPS

Fields == {"phase", "todo", "inst", "provider", "range", "dry", "existing", "plan", "from",
           "got", "new", "amended"}

TablesOK ==
    /\ setup \in {"spark", "csv", "legacy"}
    /\ day \in 0 .. MaxDay /\ published \in {day - 1, day}
    /\ vendor \in [Instruments -> [0 .. MaxDay -> Prices]]
    /\ bronze \subseteq [inst : Instruments, day : 0 .. MaxDay, price : Prices \ {0}, kind : {"new", "amended"}]
    /\ sources \subseteq Registered \cap Production
    /\ watermark \in [Instruments -> Watermark]

\* One ticker at a time, and a provider that the guard let through.
JobOK(j) ==
    /\ DOMAIN j = Fields
    /\ j.inst \subseteq j.todo /\ j.todo \subseteq Instruments
    /\ \A a, b \in j.inst : a = b
    /\ j.existing \in Watermark
    /\ j.got \subseteq Bar
    /\ j.new \subseteq Writable(j.got) /\ j.amended \subseteq Writable(j.got)
    /\ j.phase # "idle" => j.provider \in Registered \cap Production

TypeInv == TablesOK /\ JobOK(job)
-----------------------------------------------------------------------------
\* A non-empty set of naturals has a least element.
LEMMA HasLeast ==
    ASSUME NEW ds, ds \subseteq Nat, ds # {}
    PROVE  \E d \in ds : \A e \in ds : d <= e
<1>1. PICK d \in ds : \A e \in ds : ~(<<e, d>> \in OpToRel(<, Nat))
  BY NatLessThanWellFounded, WFMin
<1>2. ASSUME NEW e \in ds PROVE d <= e
  <2>1. ~(<<e, d>> \in { ss \in Nat \X Nat : ss[1] < ss[2] })
    BY <1>1 DEF OpToRel
  <2>2. <<e, d>> \in Nat \X Nat
    OBVIOUS
  <2>3. ~(e < d)
    BY <2>1, <2>2
  <2> QED BY <2>3
<1> QED BY <1>2

LEMMA LeastIn ==
    ASSUME NEW ds, ds \subseteq Nat, ds # {}
    PROVE  Least(ds) \in ds
  BY HasLeast DEF Least

LEMMA GreatestIn ==
    ASSUME NEW n \in Nat, NEW ds \in SUBSET (0 .. n), ds # {}
    PROVE  Greatest(ds) \in ds
<1> DEFINE mirror == { n - d : d \in ds }
<1>1. \A d \in ds : d \in Int /\ n - d \in Nat
  OBVIOUS
<1>2. mirror \subseteq Nat /\ mirror # {}
  BY <1>1
<1>3. PICK least \in mirror : \A m \in mirror : least <= m
  <2> HIDE DEF mirror
  <2> QED BY <1>2, HasLeast
<1>4. PICK d \in ds : least = n - d
  OBVIOUS
<1>5. ASSUME NEW e \in ds PROVE e <= d
  <2>1. n - e \in mirror
    OBVIOUS
  <2>2. n - d <= n - e
    BY <1>3, <1>4, <2>1
  <2> QED BY <1>1, <2>2
<1> QED BY <1>5 DEF Greatest

\* A run that drops its ticker, successful or not, keeps only its own settings.
LEMMA DroppedType ==
    ASSUME TypeInv, NEW i, job.phase # "idle"
    PROVE  JobOK(Dropped(i)) /\ Dropped(i).inst = {} /\ Dropped(i).phase = "next"
<1> DEFINE D == Dropped(i)
<1>1. NoWatermark \in Watermark
  BY DEF NoWatermark, Watermark
<1>2. DOMAIN D = Fields
  BY DEF TypeInv, JobOK, Dropped
<1>3. /\ D.phase = "next" /\ D.todo = job.todo \ {i} /\ D.inst = {}
      /\ D.existing = NoWatermark /\ D.got = {} /\ D.new = {} /\ D.amended = {}
      /\ D.provider = job.provider
  BY DEF TypeInv, JobOK, Fields, Dropped
<1>4. job.todo \subseteq Instruments /\ job.provider \in Registered \cap Production
  BY DEF TypeInv, JobOK
<1>5. JobOK(D)
  <2> HIDE DEF D
  <2> QED BY <1>1, <1>2, <1>3, <1>4 DEF JobOK
<1> QED BY <1>3, <1>5

LEMMA IdleType == JobOK(IdleJob) /\ IdleJob.inst = {} /\ IdleJob.phase = "idle"
<1> DEFINE D == IdleJob
<1>1. NoWatermark \in Watermark
  BY DEF NoWatermark, Watermark
<1>2. DOMAIN D = Fields
  BY DEF IdleJob, Fields
<1>3. /\ D.phase = "idle" /\ D.todo = {} /\ D.inst = {}
      /\ D.existing = NoWatermark /\ D.got = {} /\ D.new = {} /\ D.amended = {}
  BY DEF IdleJob
<1>4. JobOK(D)
  <2> HIDE DEF D
  <2> QED BY <1>1, <1>2, <1>3 DEF JobOK
<1> QED BY <1>3, <1>4

\* A step of the run that touches neither tables nor vendor.
LEMMA TypeJobStep ==
    ASSUME TypeInv, UNCHANGED <<world, tables>>, JobOK(job')
    PROVE  TypeInv'
<1>1. TablesOK'
  BY DEF TypeInv, TablesOK, world, tables
<1>2. JobOK(job)'
  BY DEF JobOK, Writable
<1> QED BY <1>1, <1>2 DEF TypeInv

LEMMA TypeInit == Init => TypeInv
<1> SUFFICES ASSUME Init PROVE TypeInv
  OBVIOUS
<1>1. TablesOK
  BY IngestionAssumption DEF Init, TablesOK, NoWatermark, Watermark
<1>2. JobOK(job)
  BY IdleType DEF Init
<1> QED BY <1>1, <1>2 DEF TypeInv

LEMMA TypeStart ==
    ASSUME TypeInv, NEW healthy \in SUBSET Registered, NEW insts \in SUBSET Instruments,
           NEW range, NEW dry, StartRun(healthy, insts, range, dry)
    PROVE  TypeInv'
<1>1. PICK p \in Resolved(healthy) :
        job' = [IdleJob EXCEPT !.phase = "next", !.provider = p, !.todo = insts,
                               !.range = range, !.dry = dry]
  BY DEF StartRun
<1>2. /\ DOMAIN job' = Fields /\ job'.phase = "next" /\ job'.provider = p /\ job'.todo = insts
      /\ job'.inst = {} /\ job'.existing = NoWatermark
      /\ job'.got = {} /\ job'.new = {} /\ job'.amended = {}
  BY <1>1 DEF IdleJob, Fields
<1>3. p \in Registered \cap Production
  BY DEF Resolved
<1>4. NoWatermark \in Watermark
  BY DEF NoWatermark, Watermark
<1>5. JobOK(job')
  BY <1>2, <1>3, <1>4 DEF JobOK
<1> QED BY <1>5, TypeJobStep DEF StartRun

LEMMA TypePlan ==
    ASSUME TypeInv, NEW i \in Instruments, NEW existing \in Watermark, PlanWith(i, existing)
    PROVE  TypeInv'
<1>1. CASE job' = Dropped(i)
  BY <1>1, DroppedType, TypeJobStep DEF PlanWith, tables
<1>2. CASE job' # Dropped(i)
  <2>1. PICK plan : job' = [job EXCEPT !.phase = "fetch", !.inst = {i}, !.existing = existing,
                                       !.plan = plan, !.from = plan.start]
    BY <1>2 DEF PlanWith
  <2>2. /\ DOMAIN job' = Fields /\ job'.phase = "fetch" /\ job'.inst = {i} /\ job'.existing = existing
        /\ job'.todo = job.todo /\ job'.provider = job.provider
        /\ job'.got = job.got /\ job'.new = job.new /\ job'.amended = job.amended
    BY <2>1 DEF TypeInv, JobOK, Fields
  <2>3. i \in job.todo /\ job.phase = "next"
    BY DEF PlanWith
  <2>4. JobOK(job')
    BY <2>2, <2>3 DEF TypeInv, JobOK
  <2> QED BY <2>4, TypeJobStep DEF PlanWith
<1> QED BY <1>1, <1>2

LEMMA AnswerType ==
    ASSUME TypeInv, NEW i \in Instruments
    PROVE  Answer(i) \subseteq Bar
<1>1. published \in Int /\ published <= MaxDay
  BY IngestionAssumption DEF TypeInv, TablesOK
<1>2. \A d \in 0 .. published : d \in 0 .. MaxDay /\ vendor[i][d] \in Prices
  BY <1>1, IngestionAssumption DEF TypeInv, TablesOK
<1> QED BY <1>2 DEF Answer, Bar

LEMMA TypeFetch ==
    ASSUME TypeInv, NEW i \in Instruments, FetchChunk(i) \/ FetchFails(i)
    PROVE  TypeInv'
<1>1. PICK bars \in SUBSET Answer(i) :
        job' = [job EXCEPT !.got = job.got \cup bars, !.from = NextFrom]
  <2>1. CASE FetchChunk(i)
    BY <2>1 DEF FetchChunk
  <2>2. CASE FetchFails(i)
    <3>1. job' = [job EXCEPT !.got = job.got \cup {}, !.from = NextFrom]
      BY <2>2 DEF FetchFails, TypeInv, JobOK, Fields
    <3> QED BY <3>1
  <2> QED BY <2>1, <2>2
<1>2. /\ DOMAIN job' = Fields /\ job'.phase = job.phase /\ job'.inst = job.inst
      /\ job'.existing = job.existing /\ job'.todo = job.todo /\ job'.provider = job.provider
      /\ job'.got = job.got \cup bars /\ job'.new = job.new /\ job'.amended = job.amended
  BY <1>1 DEF TypeInv, JobOK, Fields
<1>3. bars \subseteq Bar
  BY AnswerType
<1>4. JobOK(job')
  BY <1>2, <1>3 DEF TypeInv, JobOK, Writable
<1> QED BY <1>4, TypeJobStep DEF FetchChunk, FetchFails

LEMMA TypeClassify ==
    ASSUME TypeInv, NEW i \in Instruments, Classify(i)
    PROVE  TypeInv'
<1> DEFINE bars == Writable(job.got)
<1>1. /\ DOMAIN job' = Fields /\ job'.phase = "new" /\ job'.inst = job.inst
      /\ job'.existing = job.existing /\ job'.todo = job.todo /\ job'.provider = job.provider
      /\ job'.got = job.got
      /\ job'.new = { b \in bars : Existing(i, b) = {} }
      /\ job'.amended = { b \in bars : \E r \in Existing(i, b) : r.price # b.price }
  BY DEF Classify, TypeInv, JobOK, Fields
<1>2. job.phase = "fetch"
  BY DEF Classify
<1>3. JobOK(job')
  BY <1>1, <1>2 DEF TypeInv, JobOK
<1> QED BY <1>3, TypeJobStep DEF Classify

\* What is appended are well-formed rows with the provider's name.
LEMMA TypeAppend ==
    ASSUME TypeInv, NEW i \in Instruments, AppendNew(i) \/ AppendAmended(i)
    PROVE  TypeInv'
<1>1. PICK phase \in {"amended", "watermark"} : job' = [job EXCEPT !.phase = phase]
  BY DEF AppendNew, AppendAmended
<1>2. /\ DOMAIN job' = Fields /\ job'.phase = phase /\ job'.inst = job.inst
      /\ job'.existing = job.existing /\ job'.todo = job.todo /\ job'.provider = job.provider
      /\ job'.got = job.got /\ job'.new = job.new /\ job'.amended = job.amended
  BY <1>1 DEF TypeInv, JobOK, Fields
<1>3. job.phase # "idle"
  BY DEF AppendNew, AppendAmended
<1>4. JobOK(job')
  BY <1>2, <1>3 DEF TypeInv, JobOK
<1>5. PICK bars \in {job.new, job.amended}, kind \in {"new", "amended"} : AppendRecords(i, bars, kind)
  BY DEF AppendNew, AppendAmended
<1>6. bars \subseteq Writable(job.got) /\ job.got \subseteq Bar
  BY DEF TypeInv, JobOK
<1>7. \A b \in bars : b.day \in 0 .. MaxDay /\ b.price \in Prices \ {0}
  BY <1>6, IngestionAssumption DEF Writable, Bar
<1>8. Rows(i, bars, kind) \subseteq
        [inst : Instruments, day : 0 .. MaxDay, price : Prices \ {0}, kind : {"new", "amended"}]
  BY <1>7 DEF Rows
<1>9. bronze' = bronze \cup Rows(i, bars, kind) /\ sources' \subseteq sources \cup {job.provider}
  BY <1>5 DEF AppendRecords
<1>10. job.provider \in Registered \cap Production
  BY <1>3 DEF TypeInv, JobOK
<1>11. UNCHANGED <<world, watermark>>
  BY DEF AppendNew, AppendAmended
<1>12. TablesOK'
  BY <1>8, <1>9, <1>10, <1>11 DEF TypeInv, TablesOK, world
<1> QED BY <1>4, <1>12 DEF TypeInv, JobOK, Writable

\* The new ends are dates of the writable records, or the old ends.
LEMMA AdvancedFrom ==
    ASSUME TypeInv, Writable(job.got) # {}, NEW S, { b.day : b \in Writable(job.got) } \subseteq S,
           job.existing # NoWatermark => {job.existing.earliest, job.existing.latest} \subseteq S
    PROVE  /\ Advanced(job.existing) \in Watermark
           /\ {Advanced(job.existing).earliest, Advanced(job.existing).latest} \subseteq S
<1> DEFINE days == { b.day : b \in Writable(job.got) }
<1>1. days \in SUBSET (0 .. MaxDay) /\ days # {} /\ days \subseteq Nat
  BY IngestionAssumption DEF TypeInv, JobOK, Writable, Bar
<1>2. Least(days) \in days /\ Greatest(days) \in days
  <2> HIDE DEF days
  <2> QED BY <1>1, LeastIn, GreatestIn, IngestionAssumption
<1>3. /\ Least(days) \in Nat /\ Greatest(days) \in Nat
      /\ Least(days) \in S /\ Greatest(days) \in S
  BY <1>1, <1>2
<1>4. job.existing.earliest \in Int /\ job.existing.latest \in Int
  BY DEF TypeInv, JobOK, Watermark
<1>5. job.existing = NoWatermark => job.existing.latest = -1
  BY DEF NoWatermark
<1>6. Later(Greatest(days), job.existing.latest) \in S \cap Int
  <2> HIDE DEF days
  <2>1. CASE job.existing = NoWatermark
    BY <1>3, <1>5, <2>1 DEF Later
  <2>2. CASE job.existing # NoWatermark
    BY <1>3, <1>4, <2>2 DEF Later
  <2> QED BY <2>1, <2>2
<1> DEFINE first == IF job.existing = NoWatermark THEN Least(days)
                    ELSE Earlier(Least(days), job.existing.earliest)
<1>7. first \in S \cap Int
  <2> HIDE DEF days
  <2>1. CASE job.existing = NoWatermark
    BY <1>3, <2>1
  <2>2. CASE job.existing # NoWatermark
    BY <1>3, <1>4, <2>2 DEF Earlier
  <2> QED BY <2>1, <2>2
<1>8. Advanced(job.existing) =
        [earliest |-> first, latest |-> Later(Greatest(days), job.existing.latest), suspended |-> FALSE]
  BY DEF Advanced
<1> HIDE DEF first, days
<1> QED BY <1>6, <1>7, <1>8 DEF Watermark

LEMMA WidenFrom ==
    ASSUME NEW wm \in Watermark, NEW existing \in Watermark, NEW S, {wm.earliest, wm.latest} \subseteq S,
           existing # NoWatermark => {existing.earliest, existing.latest} \subseteq S
    PROVE  /\ Widen(wm, existing) \in Watermark
           /\ {Widen(wm, existing).earliest, Widen(wm, existing).latest} \subseteq S
<1>1. CASE existing = NoWatermark
  BY <1>1 DEF Widen
<1>2. CASE existing # NoWatermark
  <2>1. Widen(wm, existing) = [wm EXCEPT !.earliest = Earlier(wm.earliest, existing.earliest),
                                         !.latest = Later(wm.latest, existing.latest)]
    BY <1>2 DEF Widen
  <2>2. /\ Earlier(wm.earliest, existing.earliest) \in S \cap Int
        /\ Later(wm.latest, existing.latest) \in S \cap Int
    BY <1>2 DEF Earlier, Later, Watermark
  <2> QED BY <2>1, <2>2 DEF Watermark
<1> QED BY <1>1, <1>2

\* What UpdateWith does to the watermark.
LEMMA UpdateEffect ==
    ASSUME TypeInv, NEW i \in Instruments, NEW existing \in {watermark[i], NoWatermark},
           UpdateWith(i, existing)
    PROVE  /\ job' = Dropped(i)
           /\ \/ watermark' = watermark
              \/ /\ Writable(job.got) # {}
                 /\ watermark' = [watermark EXCEPT ![i] = Widen(Advanced(job.existing), existing)]
  BY DEF UpdateWith, TypeInv, JobOK

LEMMA WatermarksTyped ==
    ASSUME TypeInv, NEW i \in Instruments
    PROVE  watermark[i] \in Watermark /\ NoWatermark \in Watermark
<1>1. NoWatermark \in Watermark
  BY DEF NoWatermark, Watermark
<1>2. watermark[i] \in Watermark
  BY DEF TypeInv, TablesOK
<1> QED BY <1>1, <1>2

LEMMA TypeUpdate ==
    ASSUME TypeInv, NEW i \in Instruments, NEW existing \in {watermark[i], NoWatermark},
           UpdateWith(i, existing)
    PROVE  TypeInv'
<1>1. existing \in Watermark
  BY WatermarksTyped
<1>2. watermark' \in [Instruments -> Watermark]
  <2>1. CASE watermark' = watermark
    BY <2>1 DEF TypeInv, TablesOK
  <2>2. CASE Writable(job.got) # {} /\ watermark' = [watermark EXCEPT ![i] = Widen(Advanced(job.existing), existing)]
    <3>1. { b.day : b \in Writable(job.got) } \subseteq Int
      BY IngestionAssumption DEF TypeInv, JobOK, Writable, Bar
    <3>2. {job.existing.earliest, job.existing.latest} \subseteq Int
      BY DEF TypeInv, JobOK, Watermark
    <3>3. Advanced(job.existing) \in Watermark
      BY <2>2, <3>1, <3>2, AdvancedFrom
    <3>4. Widen(Advanced(job.existing), existing) \in Watermark
      BY <1>1, <3>3, WidenFrom DEF Watermark
    <3> QED BY <2>2, <3>4 DEF TypeInv, TablesOK
  <2> QED BY <2>1, <2>2, UpdateEffect
<1>3. TablesOK'
  BY <1>2 DEF UpdateWith, TypeInv, TablesOK, world
<1>4. JobOK(job')
  BY UpdateEffect, DroppedType DEF UpdateWith
<1>5. JobOK(job)'
  BY <1>4 DEF JobOK, Writable
<1> QED BY <1>3, <1>5 DEF TypeInv

LEMMA TypeStep == TypeInv /\ [Next]_vars => TypeInv'
<1> SUFFICES ASSUME TypeInv, [Next]_vars PROVE TypeInv'
  OBVIOUS
<1>1. ASSUME NEW healthy \in SUBSET Registered, NEW insts \in (SUBSET Instruments) \ {{}},
             NEW range \in Ranges \cup {NoRange}, NEW dry \in BOOLEAN,
             StartRun(healthy, insts, range, dry)
      PROVE  TypeInv'
  BY <1>1, TypeStart
<1>2. ASSUME NEW i \in Instruments, Work(i) \/ Failure(i) PROVE TypeInv'
  <2>1. CASE PlanTicker(i) \/ PlanUnread(i)
    BY <2>1, WatermarksTyped, TypePlan DEF PlanTicker, PlanUnread
  <2>2. CASE FetchChunk(i) \/ FetchFails(i)
    BY <2>2, TypeFetch
  <2>3. CASE FetchEmpty(i) \/ TickerFails(i)
    BY <2>3, DroppedType, TypeJobStep DEF FetchEmpty, TickerFails
  <2>4. CASE Classify(i)
    BY <2>4, TypeClassify
  <2>5. CASE AppendNew(i) \/ AppendAmended(i)
    BY <2>5, TypeAppend
  <2>6. CASE UpdateWatermark(i) \/ UpdateUnread(i)
    BY <2>6, TypeUpdate DEF UpdateWatermark, UpdateUnread
  <2> QED BY <1>2, <2>1, <2>2, <2>3, <2>4, <2>5, <2>6 DEF Work, Failure
<1>3. CASE RunEnds \/ Crash
  BY <1>3, IdleType, TypeJobStep DEF RunEnds, Crash
<1>4. CASE NextDay \/ Publish
  <2>1. TablesOK'
    BY <1>4, IngestionAssumption DEF NextDay, Publish, TypeInv, TablesOK, tables
  <2>2. JobOK(job)'
    BY <1>4 DEF NextDay, Publish, TypeInv, JobOK, Writable
  <2> QED BY <2>1, <2>2 DEF TypeInv
<1>5. ASSUME NEW i \in Instruments, NEW d \in 0 .. MaxDay, Revise(i, d) PROVE TypeInv'
  <2>1. PICK price \in Prices : vendor' = [vendor EXCEPT ![i][d] = price]
    BY <1>5 DEF Revise
  <2>2. vendor' \in [Instruments -> [0 .. MaxDay -> Prices]]
    BY <2>1 DEF TypeInv, TablesOK
  <2>3. TablesOK'
    BY <1>5, <2>2 DEF Revise, TypeInv, TablesOK, tables
  <2>4. JobOK(job)'
    BY <1>5 DEF Revise, TypeInv, JobOK, Writable
  <2> QED BY <2>3, <2>4 DEF TypeInv
<1>6. ASSUME NEW i \in Instruments, Suspend(i) PROVE TypeInv'
  <2>1. [watermark[i] EXCEPT !.suspended = TRUE] \in Watermark
    BY WatermarksTyped DEF Watermark
  <2>2. watermark' \in [Instruments -> Watermark]
    BY <1>6, <2>1 DEF Suspend, TypeInv, TablesOK
  <2>3. TablesOK'
    BY <1>6, <2>2 DEF Suspend, TypeInv, TablesOK, world
  <2>4. JobOK(job)'
    BY <1>6 DEF Suspend, TypeInv, JobOK, Writable
  <2> QED BY <2>3, <2>4 DEF TypeInv
<1>7. CASE UNCHANGED vars
  BY <1>7, TypeJobStep DEF vars, world, tables, TypeInv
<1> QED BY <1>1, <1>2, <1>3, <1>4, <1>5, <1>6, <1>7 DEF Next

LEMMA TypeAlways == Spec => []TypeInv
  BY TypeInit, TypeStep, PTL DEF Spec

\* The shape of the state, in every reachable state and every configuration.
THEOREM IngestionTypeCorrect == Spec => []TypeOK
<1>1. TypeInv => TypeOK
  BY DEF TypeInv, TablesOK, JobOK, Writable, TypeOK
<1> QED BY TypeAlways, <1>1, PTL

\* Whatever is registered, healthy and approved: no row has come from a provider
\* that the production guard does not let through.
THEOREM ProductionSourcesOnly == Spec => []OnlyApprovedSources
<1>1. TypeInv => OnlyApprovedSources
  BY DEF TypeInv, TablesOK, OnlyApprovedSources
<1> QED BY TypeAlways, <1>1, PTL
-----------------------------------------------------------------------------
HasRow(i, b) == \E r \in Stored(i) : r.day = b.day /\ r.price = b.price

\* The watermark the run has read was one of rows.
ExistingOfRows ==
    \A i \in job.inst : job.existing # NoWatermark =>
      {job.existing.earliest, job.existing.latest} \subseteq { r.day : r \in Stored(i) }

\* What is not in the table yet is still to be appended.
GotStored ==
    \A i \in job.inst : \A b \in Writable(job.got) :
      /\ job.phase = "new"       => HasRow(i, b) \/ b \in job.new \/ b \in job.amended
      /\ job.phase = "amended"   => HasRow(i, b) \/ b \in job.amended
      /\ job.phase = "watermark" => HasRow(i, b)

\* A daily run only goes on with an instrument it has seen active.
SeenActive == job.inst # {} /\ job.range = NoRange => ~job.existing.suspended

RunInv == WatermarkOfRows /\ ExistingOfRows /\ GotStored /\ SeenActive

\* Nothing but rows is added, and the run is where it was.
LEMMA RunStays ==
    ASSUME RunInv, bronze \subseteq bronze', WatermarkOfRows', job' = job
    PROVE  RunInv'
<1>1. \A i : Stored(i) \subseteq Stored(i)'
  BY DEF Stored
<1>2. \A i, b : HasRow(i, b) => HasRow(i, b)'
  BY <1>1 DEF HasRow
<1>3. ExistingOfRows'
  BY <1>1 DEF RunInv, ExistingOfRows
<1>4. GotStored'
  BY <1>2 DEF RunInv, GotStored, Writable
<1>5. SeenActive'
  BY DEF RunInv, SeenActive, NoRange
<1> QED BY <1>3, <1>4, <1>5 DEF RunInv

\* Between two tickers there is nothing to keep.
LEMMA RunIdle ==
    ASSUME WatermarkOfRows', job'.inst = {}
    PROVE  RunInv'
  BY DEF RunInv, ExistingOfRows, GotStored, SeenActive

LEMMA RowsKept ==
    ASSUME WatermarkOfRows, bronze \subseteq bronze', watermark' = watermark
    PROVE  WatermarkOfRows'
<1>1. \A i : Stored(i) \subseteq Stored(i)'
  BY DEF Stored
<1> QED BY <1>1 DEF WatermarkOfRows

LEMMA RunPlan ==
    ASSUME TypeInv, RunInv, NEW i \in Instruments, NEW existing \in {watermark[i], NoWatermark},
           PlanWith(i, existing)
    PROVE  RunInv'
<1>1. WatermarkOfRows'
  BY RowsKept DEF PlanWith, tables, RunInv
<1>2. CASE job' = Dropped(i)
  <2>1. job'.inst = {}
    BY <1>2, DroppedType DEF PlanWith
  <2> QED BY <1>1, <2>1, RunIdle
<1>3. CASE job' # Dropped(i)
  <2>1. PICK plan : job' = [job EXCEPT !.phase = "fetch", !.inst = {i}, !.existing = existing,
                                       !.plan = plan, !.from = plan.start]
    BY <1>3 DEF PlanWith
  <2>2. /\ job'.phase = "fetch" /\ job'.inst = {i} /\ job'.existing = existing
        /\ job'.range = job.range
    BY <2>1 DEF TypeInv, JobOK, Fields
  <2>3. bronze' = bronze
    BY DEF PlanWith, tables
  <2>4. ExistingOfRows'
    BY <2>2, <2>3 DEF RunInv, WatermarkOfRows, ExistingOfRows, Stored
  <2>5. GotStored'
    BY <2>2 DEF GotStored
  <2>6. Planned(i, existing).mode # "NO_OP"
    BY <1>3 DEF PlanWith
  <2>7. job.range = NoRange => ~existing.suspended
    BY <2>6 DEF Planned, Plan
  <2>8. SeenActive'
    BY <2>2, <2>7 DEF SeenActive, NoRange
  <2> QED BY <1>1, <2>4, <2>5, <2>8 DEF RunInv
<1> QED BY <1>2, <1>3

LEMMA RunFetch ==
    ASSUME TypeInv, RunInv, NEW i \in Instruments, FetchChunk(i) \/ FetchFails(i)
    PROVE  RunInv'
<1>1. /\ job'.phase = "fetch" /\ job'.inst = job.inst /\ job'.existing = job.existing
      /\ job'.range = job.range
  BY DEF FetchChunk, FetchFails, TypeInv, JobOK, Fields
<1>2. bronze' = bronze /\ watermark' = watermark
  BY DEF FetchChunk, FetchFails, tables
<1>3. WatermarkOfRows' /\ ExistingOfRows'
  BY <1>1, <1>2, RowsKept DEF RunInv, ExistingOfRows, Stored
<1>4. GotStored' /\ SeenActive'
  BY <1>1 DEF RunInv, GotStored, SeenActive, NoRange
<1> QED BY <1>3, <1>4 DEF RunInv

\* What is neither new nor amended has a row of its price.
LEMMA RunClassify ==
    ASSUME TypeInv, RunInv, NEW i \in Instruments, Classify(i)
    PROVE  RunInv'
<1> DEFINE bars == Writable(job.got)
<1>1. /\ job'.phase = "new" /\ job'.inst = job.inst /\ job'.existing = job.existing
      /\ job'.range = job.range /\ job'.got = job.got
      /\ job'.new = { b \in bars : Existing(i, b) = {} }
      /\ job'.amended = { b \in bars : \E r \in Existing(i, b) : r.price # b.price }
  BY DEF Classify, TypeInv, JobOK, Fields
<1>2. bronze' = bronze /\ watermark' = watermark
  BY DEF Classify, tables
<1>3. WatermarkOfRows' /\ ExistingOfRows' /\ SeenActive'
  BY <1>1, <1>2, RowsKept DEF RunInv, ExistingOfRows, Stored, SeenActive, NoRange
<1>4. job.inst = {i}
  BY DEF Classify, TypeInv, JobOK
<1>5. ASSUME NEW b \in bars PROVE HasRow(i, b) \/ b \in job'.new \/ b \in job'.amended
  BY <1>1 DEF Existing, HasRow
<1>6. \A b : HasRow(i, b) => HasRow(i, b)'
  BY <1>2 DEF HasRow, Stored
<1>7. Writable(job.got)' = bars
  BY <1>1 DEF Writable
<1>8. GotStored'
  <2> HIDE DEF bars
  <2> QED BY <1>1, <1>4, <1>5, <1>6, <1>7 DEF GotStored
<1> QED BY <1>3, <1>8 DEF RunInv

LEMMA RunAppend ==
    ASSUME TypeInv, RunInv, NEW i \in Instruments, AppendNew(i) \/ AppendAmended(i)
    PROVE  RunInv'
<1>1. job.inst = {i}
  BY DEF AppendNew, AppendAmended, TypeInv, JobOK
<1>2. /\ job'.inst = job.inst /\ job'.existing = job.existing /\ job'.range = job.range
      /\ job'.got = job.got /\ job'.amended = job.amended
  BY DEF AppendNew, AppendAmended, TypeInv, JobOK, Fields
<1>3. bronze \subseteq bronze' /\ watermark' = watermark
  BY DEF AppendNew, AppendAmended, AppendRecords
<1>4. \A k : Stored(k) \subseteq Stored(k)'
  BY <1>3 DEF Stored
<1>5. WatermarkOfRows' /\ ExistingOfRows' /\ SeenActive'
  BY <1>2, <1>3, <1>4, RowsKept DEF RunInv, ExistingOfRows, SeenActive, NoRange
<1>6. \A b : HasRow(i, b) => HasRow(i, b)'
  BY <1>4 DEF HasRow
<1>7. ASSUME NEW bars, NEW kind, AppendRecords(i, bars, kind)
      PROVE  \A b \in bars : HasRow(i, b)'
  <2>1. ASSUME NEW b \in bars PROVE HasRow(i, b)'
    <3> DEFINE row == [inst |-> i, day |-> b.day, price |-> b.price, kind |-> kind]
    <3>1. row \in bronze'
      BY <1>7 DEF AppendRecords, Rows
    <3>2. row.inst = i /\ row.day = b.day /\ row.price = b.price
      OBVIOUS
    <3> HIDE DEF row
    <3> QED BY <3>1, <3>2 DEF HasRow, Stored
  <2> QED BY <2>1
<1>8. Writable(job.got)' = Writable(job.got)
  BY <1>2 DEF Writable
<1>9. CASE AppendNew(i)
  <2>1. job.phase = "new" /\ job'.phase = "amended" /\ \A b \in job.new : HasRow(i, b)'
    BY <1>7, <1>9 DEF AppendNew, TypeInv, JobOK, Fields
  <2>2. GotStored'
    BY <1>1, <1>2, <1>6, <1>8, <2>1 DEF RunInv, GotStored
  <2> QED BY <1>5, <2>2 DEF RunInv
<1>10. CASE AppendAmended(i)
  <2>1. job.phase = "amended" /\ job'.phase = "watermark" /\ \A b \in job.amended : HasRow(i, b)'
    BY <1>7, <1>10 DEF AppendAmended, TypeInv, JobOK, Fields
  <2>2. GotStored'
    BY <1>1, <1>2, <1>6, <1>8, <2>1 DEF RunInv, GotStored
  <2> QED BY <1>5, <2>2 DEF RunInv
<1> QED BY <1>9, <1>10

\* Both the dates of what was fetched and the ends that were read are of rows.
LEMMA RunUpdate ==
    ASSUME TypeInv, RunInv, NEW i \in Instruments, NEW existing \in {watermark[i], NoWatermark},
           UpdateWith(i, existing)
    PROVE  RunInv'
<1> DEFINE S == { r.day : r \in Stored(i) }
<1>1. job.phase = "watermark" /\ i \in job.inst /\ bronze' = bronze
  BY DEF UpdateWith
<1>2. { b.day : b \in Writable(job.got) } \subseteq S
  BY <1>1 DEF RunInv, GotStored, HasRow
<1>3. job.existing # NoWatermark => {job.existing.earliest, job.existing.latest} \subseteq S
  BY <1>1 DEF RunInv, ExistingOfRows
<1>4. existing # NoWatermark => {existing.earliest, existing.latest} \subseteq S
  BY DEF RunInv, WatermarkOfRows
<1>5. existing \in Watermark
  BY WatermarksTyped
<1>6. WatermarkOfRows'
  <2>1. CASE watermark' = watermark
    BY <1>1, <2>1, RowsKept DEF RunInv
  <2>2. CASE /\ Writable(job.got) # {}
             /\ watermark' = [watermark EXCEPT ![i] = Widen(Advanced(job.existing), existing)]
    <3> DEFINE new == Widen(Advanced(job.existing), existing)
    <3>1. /\ Advanced(job.existing) \in Watermark
          /\ {Advanced(job.existing).earliest, Advanced(job.existing).latest} \subseteq S
      <4> HIDE DEF S
      <4> QED BY <1>2, <1>3, <2>2, AdvancedFrom
    <3>2. {new.earliest, new.latest} \subseteq S
      <4> HIDE DEF S
      <4> QED BY <1>4, <1>5, <3>1, WidenFrom
    <3>3. \A k : Stored(k)' = Stored(k)
      BY <1>1 DEF Stored
    <3>4. watermark'[i] = new /\ \A k \in Instruments \ {i} : watermark'[k] = watermark[k]
      BY <2>2 DEF TypeInv, TablesOK
    <3> HIDE DEF new
    <3> QED BY <3>2, <3>3, <3>4 DEF RunInv, WatermarkOfRows
  <2> QED BY <2>1, <2>2, UpdateEffect
<1>7. job'.inst = {}
  BY <1>1, UpdateEffect, DroppedType
<1> QED BY <1>6, <1>7, RunIdle

LEMMA RunInit == Init => RunInv
<1> SUFFICES ASSUME Init PROVE RunInv
  OBVIOUS
<1>1. job.inst = {}
  BY IdleType DEF Init
<1>2. WatermarkOfRows
  BY DEF Init, WatermarkOfRows
<1> QED BY <1>1, <1>2 DEF RunInv, ExistingOfRows, GotStored, SeenActive

LEMMA RunStep == TypeInv /\ RunInv /\ [Next]_vars => RunInv'
<1> SUFFICES ASSUME TypeInv, RunInv, [Next]_vars PROVE RunInv'
  OBVIOUS
<1>1. ASSUME NEW healthy \in SUBSET Registered, NEW insts \in (SUBSET Instruments) \ {{}},
             NEW range \in Ranges \cup {NoRange}, NEW dry \in BOOLEAN,
             StartRun(healthy, insts, range, dry)
      PROVE  RunInv'
  <2>1. job'.inst = {}
    BY <1>1 DEF StartRun, IdleJob
  <2> QED BY <1>1, <2>1, RowsKept, RunIdle DEF StartRun, tables, RunInv
<1>2. ASSUME NEW i \in Instruments, Work(i) \/ Failure(i) PROVE RunInv'
  <2>1. CASE PlanTicker(i) \/ PlanUnread(i)
    BY <2>1, RunPlan DEF PlanTicker, PlanUnread
  <2>2. CASE FetchChunk(i) \/ FetchFails(i)
    BY <2>2, RunFetch
  <2>3. CASE FetchEmpty(i) \/ TickerFails(i)
    <3>1. job'.inst = {} /\ bronze' = bronze /\ watermark' = watermark
      BY <2>3, DroppedType DEF FetchEmpty, TickerFails, tables
    <3> QED BY <3>1, RowsKept, RunIdle DEF RunInv
  <2>4. CASE Classify(i)
    BY <2>4, RunClassify
  <2>5. CASE AppendNew(i) \/ AppendAmended(i)
    BY <2>5, RunAppend
  <2>6. CASE UpdateWatermark(i) \/ UpdateUnread(i)
    BY <2>6, RunUpdate DEF UpdateWatermark, UpdateUnread
  <2> QED BY <1>2, <2>1, <2>2, <2>3, <2>4, <2>5, <2>6 DEF Work, Failure
<1>3. CASE RunEnds \/ Crash
  BY <1>3, IdleType, RowsKept, RunIdle DEF RunEnds, Crash, tables, RunInv
<1>4. CASE NextDay \/ Publish \/ \E i \in Instruments, d \in 0 .. MaxDay : Revise(i, d)
  BY <1>4, RowsKept, RunStays DEF NextDay, Publish, Revise, tables, RunInv
<1>5. ASSUME NEW i \in Instruments, Suspend(i) PROVE RunInv'
  <2>1. /\ bronze' = bronze /\ job' = job
        /\ watermark' = [watermark EXCEPT ![i].suspended = TRUE] /\ watermark[i] # NoWatermark
    BY <1>5 DEF Suspend
  <2>2. watermark[i] \in Watermark
    BY WatermarksTyped
  <2>3. /\ watermark'[i].earliest = watermark[i].earliest
        /\ watermark'[i].latest = watermark[i].latest
        /\ \A k \in Instruments \ {i} : watermark'[k] = watermark[k]
    BY <2>1, <2>2 DEF TypeInv, TablesOK, Watermark
  <2>4. WatermarkOfRows'
    BY <2>1, <2>3 DEF RunInv, WatermarkOfRows, Stored
  <2> QED BY <2>1, <2>4, RunStays
<1>6. CASE UNCHANGED vars
  BY <1>6, RowsKept, RunStays DEF vars, RunInv
<1> QED BY <1>1, <1>2, <1>3, <1>4, <1>5, <1>6 DEF Next

LEMMA RunAlways == Spec => [](TypeInv /\ RunInv)
  BY TypeInit, TypeStep, RunInit, RunStep, PTL DEF Spec

\* The ends of a watermark are dates of stored rows, whatever was planned, asked
\* for, left unanswered or interrupted.
THEOREM WatermarksAreOfRows == Spec => []WatermarkOfRows
  BY RunAlways, PTL DEF RunInv

\* No answer is lost between the provider and the table: the watermark does not
\* move before all of it is stored.
THEOREM NothingLostOnTheWay == Spec => AnswersAreStored
<1>1. RunInv => \A i \in job.inst : job.phase = "watermark" =>
        \A b \in Writable(job.got) : \E r \in Stored(i) : r.day = b.day /\ r.price = b.price
  BY DEF RunInv, GotStored, HasRow
<1>2. RunInv => [\A i \in Instruments :
         watermark'[i] # watermark[i] /\ i \in job.inst /\ job.phase = "watermark" =>
           \A b \in Writable(job.got) : \E r \in Stored(i) : r.day = b.day /\ r.price = b.price]_vars
  BY <1>1
<1> QED BY RunAlways, <1>2, PTL DEF AnswersAreStored

\* Only an explicit range, or a run that had not seen it, lifts a suspension.
THEOREM SuspensionIsHeeded == Spec => SuspensionHolds
<1>1. ASSUME TypeInv, RunInv, [Next]_vars, NEW i \in Instruments,
             watermark[i].suspended, ~watermark'[i].suspended
      PROVE  i \in job.inst /\ (job.range # NoRange \/ ~job.existing.suspended)
  <2>1. watermark'[i] # watermark[i]
    BY <1>1
  <2>2. ASSUME NEW k \in Instruments, UpdateWatermark(k) \/ UpdateUnread(k) PROVE i \in job.inst
    <3>1. k \in job.inst
      BY <2>2 DEF UpdateWatermark, UpdateUnread, UpdateWith
    <3>2. watermark' = watermark \/ \E w : watermark' = [watermark EXCEPT ![k] = w]
      BY <2>2 DEF UpdateWatermark, UpdateUnread, UpdateWith
    <3> QED BY <1>1, <2>1, <3>1, <3>2 DEF TypeInv, TablesOK
  <2>3. ASSUME NEW k \in Instruments, Suspend(k) PROVE FALSE
    <3>1. \A w \in Watermark : [w EXCEPT !.suspended = TRUE].suspended = TRUE
      BY DEF Watermark
    <3>2. watermark[k] \in Watermark
      BY <1>1, WatermarksTyped
    <3>3. watermark'[k].suspended = TRUE /\ \A j \in Instruments \ {k} : watermark'[j] = watermark[j]
      BY <1>1, <2>3, <3>1, <3>2 DEF Suspend, TypeInv, TablesOK
    <3> QED BY <1>1, <2>1, <3>3
  <2>4. i \in job.inst
    BY <1>1, <2>1, <2>2, <2>3
    DEF Next, Work, Failure, StartRun, PlanTicker, PlanUnread, PlanWith, FetchChunk, FetchFails,
        FetchEmpty, TickerFails, Classify, AppendNew, AppendAmended, RunEnds, Crash, NextDay,
        Publish, Revise, tables, vars
  <2> QED BY <1>1, <2>4 DEF RunInv, SeenActive
<1>2. TypeInv /\ RunInv /\ [Next]_vars =>
        [\A i \in Instruments :
           watermark[i].suspended /\ ~watermark'[i].suspended =>
             i \in job.inst /\ (job.range # NoRange \/ ~job.existing.suspended)]_vars
  BY <1>1
<1> QED BY RunAlways, <1>2, PTL DEF Spec, SuspensionHolds
-----------------------------------------------------------------------------
Agrees(i, b) == b.price = vendor[i][b.day] \/ <<i, b.day>> \in revised

HasFirst(i, d) == \E r \in Stored(i) : r.day = d /\ r.kind = "new"

\* Stored and fetched bars are the vendor's, unless he has changed them since.
BarsOfVendor ==
    /\ \A r \in bronze : r.inst \in Instruments /\ Agrees(r.inst, r)
    /\ \A i \in job.inst : \A b \in job.got : Agrees(i, b)

\* A day gets amendments only after a first row.
FirstIsNew ==
    /\ \A r \in bronze : HasFirst(r.inst, r.day)
    /\ \A i \in job.inst : \A b \in job.amended : HasFirst(i, b.day)

BarsInv ==
    /\ BarsOfVendor
    /\ FirstIsNew
    /\ UnrevisedOnce
    /\ job.phase \in {"idle", "next"} => job.inst = {} /\ job.got = {} /\ job.amended = {}
    /\ job.phase = "fetch" => job.amended = {}

\* More rows and more revisions leave what is said of a bar true.
LEMMA BarsGrow ==
    ASSUME bronze \subseteq bronze', revised \subseteq revised',
           \A i \in Instruments, d \in 0 .. MaxDay :
             vendor'[i][d] = vendor[i][d] \/ <<i, d>> \in revised'
    PROVE  /\ \A i \in Instruments : \A b : b.day \in 0 .. MaxDay /\ Agrees(i, b) => Agrees(i, b)'
           /\ \A i, d : HasFirst(i, d) => HasFirst(i, d)'
<1>1. \A i : Stored(i) \subseteq Stored(i)'
  BY DEF Stored
<1>2. \A i, d : HasFirst(i, d) => HasFirst(i, d)'
  BY <1>1 DEF HasFirst
<1>3. \A i \in Instruments : \A b : b.day \in 0 .. MaxDay /\ Agrees(i, b) => Agrees(i, b)'
  BY DEF Agrees
<1> QED BY <1>2, <1>3

\* A step that appends nothing and does not classify.
LEMMA BarsQuiet ==
    ASSUME TypeInv, BarsInv, UNCHANGED <<setup, bronze>>, revised \subseteq revised',
           \A i \in Instruments, d \in 0 .. MaxDay :
             vendor'[i][d] = vendor[i][d] \/ <<i, d>> \in revised',
           \/ job' = job
           \/ /\ job'.inst = {} /\ job'.got = {} /\ job'.amended = {}
              /\ job'.phase # "new"
    PROVE  BarsInv'
<1>1. \A r \in bronze : Agrees(r.inst, r)' /\ HasFirst(r.inst, r.day)'
  BY BarsGrow DEF BarsInv, BarsOfVendor, FirstIsNew, TypeInv, TablesOK
<1>2. CASE job' = job
  <2>1. \A i \in job.inst : \A b \in job.got : Agrees(i, b)'
    BY BarsGrow DEF BarsInv, BarsOfVendor, TypeInv, JobOK, Bar
  <2>2. \A i \in job.inst : \A b \in job.amended : HasFirst(i, b.day)'
    BY BarsGrow DEF BarsInv, FirstIsNew
  <2>3. BarsOfVendor' /\ FirstIsNew'
    BY <1>1, <1>2, <2>1, <2>2 DEF BarsInv, BarsOfVendor, FirstIsNew
  <2>4. UnrevisedOnce'
    BY <1>2 DEF BarsInv, UnrevisedOnce, Stored, Local
  <2> QED BY <1>2, <2>3, <2>4 DEF BarsInv
<1>3. CASE job'.inst = {} /\ job'.got = {} /\ job'.amended = {} /\ job'.phase # "new"
  <2>1. BarsOfVendor' /\ FirstIsNew' /\ UnrevisedOnce'
    BY <1>1, <1>3 DEF BarsInv, BarsOfVendor, FirstIsNew, UnrevisedOnce
  <2> QED BY <1>3, <2>1 DEF BarsInv
<1> QED BY <1>2, <1>3

LEMMA DroppedBars ==
    ASSUME TypeInv, NEW i
    PROVE  /\ Dropped(i).inst = {} /\ Dropped(i).got = {} /\ Dropped(i).amended = {}
           /\ Dropped(i).phase = "next"
  BY DEF TypeInv, JobOK, Fields, Dropped

LEMMA BarsPlan ==
    ASSUME TypeInv, BarsInv, NEW i \in Instruments, NEW existing, PlanWith(i, existing)
    PROVE  BarsInv'
<1>1. CASE job' = Dropped(i)
  BY <1>1, DroppedBars, BarsQuiet DEF PlanWith, world, tables
<1>2. CASE job' # Dropped(i)
  <2>1. PICK plan : job' = [job EXCEPT !.phase = "fetch", !.inst = {i}, !.existing = existing,
                                       !.plan = plan, !.from = plan.start]
    BY <1>2 DEF PlanWith
  <2>2. job'.phase = "fetch" /\ job'.got = job.got /\ job'.amended = job.amended
    BY <2>1 DEF TypeInv, JobOK, Fields
  <2>3. job.phase = "next"
    BY DEF PlanWith
  <2>4. job'.got = {} /\ job'.amended = {}
    BY <2>2, <2>3 DEF BarsInv
  <2>5. UNCHANGED <<bronze, vendor, revised, setup>>
    BY DEF PlanWith, world, tables
  <2>6. BarsOfVendor' /\ FirstIsNew' /\ UnrevisedOnce'
    BY <2>2, <2>4, <2>5
    DEF BarsInv, BarsOfVendor, FirstIsNew, UnrevisedOnce, Agrees, HasFirst, Stored
  <2> QED BY <2>2, <2>4, <2>6 DEF BarsInv
<1> QED BY <1>1, <1>2

LEMMA BarsFetch ==
    ASSUME TypeInv, BarsInv, NEW i \in Instruments, FetchChunk(i) \/ FetchFails(i)
    PROVE  BarsInv'
<1>1. PICK bars \in SUBSET Answer(i) :
        job' = [job EXCEPT !.got = job.got \cup bars, !.from = NextFrom]
  <2>1. CASE FetchChunk(i)
    BY <2>1 DEF FetchChunk
  <2>2. CASE FetchFails(i)
    <3>1. job' = [job EXCEPT !.got = job.got \cup {}, !.from = NextFrom]
      BY <2>2 DEF FetchFails, TypeInv, JobOK, Fields
    <3> QED BY <3>1
  <2> QED BY <2>1, <2>2
<1>2. /\ job'.phase = job.phase /\ job'.inst = job.inst /\ job'.got = job.got \cup bars
      /\ job'.amended = job.amended
  BY <1>1 DEF TypeInv, JobOK, Fields
<1>3. job.phase = "fetch" /\ job.inst = {i} /\ UNCHANGED <<bronze, vendor, revised, setup>>
  BY DEF FetchChunk, FetchFails, TypeInv, JobOK, world, tables
<1>4. \A b \in bars : Agrees(i, b)
  BY DEF Answer, Agrees
<1>5. BarsOfVendor' /\ FirstIsNew' /\ UnrevisedOnce'
  BY <1>2, <1>3, <1>4
  DEF BarsInv, BarsOfVendor, FirstIsNew, UnrevisedOnce, Agrees, HasFirst, Stored
<1> QED BY <1>2, <1>3, <1>5 DEF BarsInv

\* A new bar of a day that has a row would be one without a first row, an amended
\* one differs from the first row: one of the two is not the vendor's any more.
LEMMA BarsClassify ==
    ASSUME TypeInv, BarsInv, NEW i \in Instruments, Classify(i)
    PROVE  BarsInv'
<1> DEFINE bars == Writable(job.got)
<1>1. /\ job'.phase = "new" /\ job'.inst = job.inst /\ job'.got = job.got
      /\ job'.new = { b \in bars : Existing(i, b) = {} }
      /\ job'.amended = { b \in bars : \E r \in Existing(i, b) : r.price # b.price }
  BY DEF Classify, TypeInv, JobOK, Fields
<1>2. job.inst = {i} /\ UNCHANGED <<bronze, vendor, revised, setup>>
  BY DEF Classify, TypeInv, JobOK, world, tables, history
<1>3. \A b \in bars : b \in job.got /\ Agrees(i, b)
  BY <1>2 DEF Writable, BarsInv, BarsOfVendor
<1>4. \A r \in Stored(i) : r \in bronze /\ r.inst = i
  BY DEF Stored
<1>5. \A b \in job'.amended : HasFirst(i, b.day)
  BY <1>1 DEF Existing, HasFirst
<1>6. BarsOfVendor' /\ FirstIsNew'
  BY <1>1, <1>2, <1>5 DEF BarsInv, BarsOfVendor, FirstIsNew, Agrees, HasFirst, Stored
<1>7. ASSUME Local, NEW b \in job'.new \cup job'.amended, NEW r \in Stored(i), r.day = b.day
      PROVE  <<i, b.day>> \in revised
  <2>1. CASE b \in job'.new
    <3>1. HasFirst(i, b.day)
      BY <1>4, <1>7 DEF BarsInv, FirstIsNew
    <3>2. Existing(i, b) # {}
      BY <1>7, <3>1 DEF Existing, HasFirst
    <3> QED BY <1>1, <2>1, <3>2
  <2>2. CASE b \in job'.amended
    <3>1. PICK q \in Existing(i, b) : q.price # b.price
      BY <1>1, <2>2
    <3>2. q \in Stored(i) /\ q.day = b.day
      BY <1>7, <3>1 DEF Existing
    <3>3. Agrees(i, q)
      BY <1>4, <3>2 DEF BarsInv, BarsOfVendor
    <3>4. Agrees(i, b)
      BY <1>1, <1>3, <2>2
    <3> QED BY <3>1, <3>2, <3>3, <3>4 DEF Agrees
  <2> QED BY <1>7, <2>1, <2>2
<1>8. UnrevisedOnce'
  BY <1>1, <1>2, <1>7 DEF UnrevisedOnce, Local, Stored
<1> QED BY <1>1, <1>6, <1>8 DEF BarsInv

LEMMA BarsAppend ==
    ASSUME TypeInv, BarsInv, NEW i \in Instruments, AppendNew(i) \/ AppendAmended(i)
    PROVE  BarsInv'
<1>1. /\ job'.phase \in {"amended", "watermark"} /\ job'.inst = job.inst /\ job'.got = job.got
      /\ job'.amended = job.amended
  BY DEF AppendNew, AppendAmended, TypeInv, JobOK, Fields
<1>2. job.inst = {i} /\ UNCHANGED <<vendor, revised>>
  BY DEF AppendNew, AppendAmended, TypeInv, JobOK, world, history
<1>3. PICK bars, kind : /\ AppendRecords(i, bars, kind)
                        /\ (bars = job.new /\ kind = "new") \/ (bars = job.amended /\ kind = "amended")
  BY DEF AppendNew, AppendAmended
<1>4. bronze' = bronze \cup Rows(i, bars, kind)
  BY <1>3 DEF AppendRecords
<1>5. \A k, d : HasFirst(k, d) => HasFirst(k, d)'
  BY <1>4 DEF HasFirst, Stored
<1>6. \A b \in bars : Agrees(i, b)
  BY <1>2, <1>3 DEF BarsInv, BarsOfVendor, TypeInv, JobOK, Writable
<1>7. ASSUME NEW r \in Rows(i, bars, kind)
      PROVE  r.inst = i /\ r.kind = kind /\ \E b \in bars : r.day = b.day /\ r.price = b.price
  BY DEF Rows
<1>8. ASSUME NEW r \in bronze' PROVE r.inst \in Instruments /\ Agrees(r.inst, r)' /\ HasFirst(r.inst, r.day)'
  <2>1. CASE r \in bronze
    BY <1>2, <1>5, <2>1 DEF BarsInv, BarsOfVendor, FirstIsNew, Agrees
  <2>2. CASE r \in Rows(i, bars, kind)
    <3>1. Agrees(i, r)'
      BY <1>2, <1>6, <1>7, <2>2 DEF Agrees
    <3>2. CASE kind = "new"
      <4>1. r \in Stored(i)' /\ r.kind = "new"
        BY <1>4, <1>7, <2>2, <3>2 DEF Stored
      <4>2. HasFirst(i, r.day)'
        BY <4>1 DEF HasFirst
      <4> QED BY <1>7, <2>2, <3>1, <4>2
    <3>3. CASE kind = "amended" /\ bars = job.amended
      BY <1>2, <1>5, <1>7, <2>2, <3>1, <3>3 DEF BarsInv, FirstIsNew
    <3> QED BY <1>3, <3>2, <3>3
  <2> QED BY <1>4, <2>1, <2>2
<1>9. BarsOfVendor'
  BY <1>1, <1>2, <1>8 DEF BarsInv, BarsOfVendor, Agrees
<1>10. FirstIsNew'
  BY <1>1, <1>5, <1>8 DEF BarsInv, FirstIsNew
<1>11. UnrevisedOnce'
  BY <1>1 DEF UnrevisedOnce
<1> QED BY <1>1, <1>9, <1>10, <1>11 DEF BarsInv

LEMMA BarsInit == Init => BarsInv
<1> SUFFICES ASSUME Init PROVE BarsInv
  OBVIOUS
<1>1. job.inst = {} /\ job.got = {} /\ job.amended = {} /\ job.phase = "idle"
  BY DEF Init, IdleJob
<1>2. bronze = {}
  BY DEF Init
<1> QED BY <1>1, <1>2 DEF BarsInv, BarsOfVendor, FirstIsNew, UnrevisedOnce

LEMMA BarsStep == TypeInv /\ BarsInv /\ [Next]_vars => BarsInv'
<1> SUFFICES ASSUME TypeInv, BarsInv, [Next]_vars PROVE BarsInv'
  OBVIOUS
<1>1. ASSUME NEW healthy \in SUBSET Registered, NEW insts \in (SUBSET Instruments) \ {{}},
             NEW range \in Ranges \cup {NoRange}, NEW dry \in BOOLEAN,
             StartRun(healthy, insts, range, dry)
      PROVE  BarsInv'
  <2>1. job'.inst = {} /\ job'.got = {} /\ job'.amended = {} /\ job'.phase = "next"
    BY <1>1 DEF StartRun, IdleJob
  <2> QED BY <1>1, <2>1, BarsQuiet DEF StartRun, world, tables, history
<1>2. ASSUME NEW i \in Instruments, Work(i) \/ Failure(i) PROVE BarsInv'
  <2>1. CASE PlanTicker(i) \/ PlanUnread(i)
    BY <2>1, BarsPlan DEF PlanTicker, PlanUnread
  <2>2. CASE FetchChunk(i) \/ FetchFails(i)
    BY <2>2, BarsFetch
  <2>3. CASE FetchEmpty(i) \/ TickerFails(i)
    BY <2>3, DroppedBars, BarsQuiet DEF FetchEmpty, TickerFails, world, tables, history
  <2>4. CASE Classify(i)
    BY <2>4, BarsClassify
  <2>5. CASE AppendNew(i) \/ AppendAmended(i)
    BY <2>5, BarsAppend
  <2>6. CASE UpdateWatermark(i) \/ UpdateUnread(i)
    BY <2>6, DroppedBars, BarsQuiet DEF UpdateWatermark, UpdateUnread, UpdateWith, world
  <2> QED BY <1>2, <2>1, <2>2, <2>3, <2>4, <2>5, <2>6 DEF Work, Failure
<1>3. CASE RunEnds \/ Crash
  <2>1. job' = IdleJob
    BY <1>3 DEF RunEnds, Crash
  <2>2. job'.inst = {} /\ job'.got = {} /\ job'.amended = {} /\ job'.phase = "idle"
    BY <2>1 DEF IdleJob
  <2> QED BY <1>3, <2>2, BarsQuiet DEF RunEnds, Crash, world, tables, history
<1>4. CASE NextDay \/ Publish \/ \E i \in Instruments : Suspend(i)
  BY <1>4, BarsQuiet DEF NextDay, Publish, Suspend, tables, history, world
<1>5. ASSUME NEW i \in Instruments, NEW d \in 0 .. MaxDay, Revise(i, d) PROVE BarsInv'
  <2>1. PICK price \in Prices : vendor' = [vendor EXCEPT ![i][d] = price]
    BY <1>5 DEF Revise
  <2>2. \A k \in Instruments, e \in 0 .. MaxDay : vendor'[k][e] = vendor[k][e] \/ (k = i /\ e = d)
    BY <2>1 DEF TypeInv, TablesOK
  <2>3. UNCHANGED <<setup, bronze, job>> /\ revised' = revised \cup {<<i, d>>}
    BY <1>5 DEF Revise, tables
  <2> QED BY <2>2, <2>3, BarsQuiet
<1>6. CASE UNCHANGED vars
  BY <1>6, BarsQuiet DEF vars
<1> QED BY <1>1, <1>2, <1>3, <1>4, <1>5, <1>6 DEF Next

\* In memory, where the keys match, what is fetched again is appended again only
\* if the vendor has changed it: reloads, the amendment buffer and runs without a
\* watermark are idempotent.
THEOREM RefetchIsIdempotent == Spec => []UnrevisedOnce
<1>1. BarsInv => UnrevisedOnce
  BY DEF BarsInv
<1>2. Init => TypeInv /\ BarsInv
  BY TypeInit, BarsInit
<1>3. TypeInv /\ BarsInv /\ [Next]_vars => (TypeInv /\ BarsInv)'
  BY TypeStep, BarsStep
<1> QED BY <1>1, <1>2, <1>3, PTL DEF Spec
-----------------------------------------------------------------------------
(* Holes have a cause.                                                     *)

\* Every instrument has a first day wanted, and no mode plans a range of its own.
HistoriesStart == \A i \in Instruments : HistoryStart[i] # NoDate
NoFreeRanges   == Restated = {} /\ Overridden = {}

Accounted(i, d) == (\E r \in Stored(i) : r.day = d) \/ <<i, d>> \in missed

Got(d) == \E b \in Writable(job.got) : b.day = d

BetweenTickers == job.phase \in {"idle", "next"} => job.inst = {} /\ job.got = {}

\* What a watermark covers is published and accounted for.
CoveredInv ==
    \A i \in Instruments \ explicit : watermark[i] # NoWatermark =>
      /\ watermark[i].earliest <= watermark[i].latest /\ watermark[i].latest <= published
      /\ HistoryStart[i] <= watermark[i].latest
      /\ \A d \in TradingDays :
           watermark[i].earliest <= d /\ d <= watermark[i].latest => Accounted(i, d)

\* The range of a run leaves no gap to the watermark it has read, if any, and
\* reaches from the history to today if it has read none.
PlanJoins(i) ==
    /\ job.plan.start \in Int /\ job.plan.end \in Int /\ job.plan.end <= day
    /\ job.existing = NoWatermark =>
         job.plan.start = HistoryStart[i] /\ job.plan.end = day
    /\ job.existing # NoWatermark =>
         /\ watermark[i] # NoWatermark
         /\ job.existing.earliest = watermark[i].earliest
         /\ job.existing.latest = watermark[i].latest
         /\ job.plan.start <= watermark[i].latest + 1
         /\ watermark[i].earliest <= job.plan.end + 1

\* The chunks so far leave no day out, today's perhaps excepted.
ChunksFollow(i) ==
    /\ job.from \in Int /\ job.plan.start <= job.from
    /\ \A b \in job.got : job.plan.start <= b.day /\ b.day <= job.plan.end /\ b.day <= published
    /\ \A d \in TradingDays :
         job.plan.start <= d /\ d <= job.plan.end /\ d < job.from /\ d < day
           => Accounted(i, d) \/ Got(d)
    /\ job.phase # "fetch" => job.plan.end < job.from

FollowInv ==
    \A i \in job.inst \ explicit :
      /\ job.range # NoRange => job.got = {}
      /\ job.range = NoRange => PlanJoins(i) /\ ChunksFollow(i)

HolesInv == BetweenTickers /\ CoveredInv /\ FollowInv

\* What a step adds to, and what it may not change, for a hole to stay closed.
Grows ==
    /\ bronze \subseteq bronze' /\ missed \subseteq missed' /\ explicit \subseteq explicit'
    /\ published <= published'

SameEnds ==
    \A i \in Instruments :
      /\ watermark'[i].earliest = watermark[i].earliest /\ watermark'[i].latest = watermark[i].latest
      /\ watermark[i] = NoWatermark <=> watermark'[i] = NoWatermark

LEMMA AccountedStays ==
    ASSUME Grows, NEW i, NEW d, Accounted(i, d)
    PROVE  Accounted(i, d)'
  BY DEF Grows, Accounted, Stored

LEMMA DatesTyped ==
    ASSUME TypeInv, NEW i \in Instruments
    PROVE  /\ watermark[i].earliest \in Int /\ watermark[i].latest \in Int
           /\ day \in Nat /\ published \in Int /\ day - 1 <= published /\ published <= day
  BY WatermarksTyped, IngestionAssumption DEF TypeInv, TablesOK, Watermark

\* A step that touches neither tables nor history.
LEMMA Untouched ==
    ASSUME TypeInv, UNCHANGED <<bronze, missed, explicit, watermark, published>>
    PROVE  Grows /\ SameEnds
<1>1. published \in Int
  BY IngestionAssumption DEF TypeInv, TablesOK
<1> QED BY <1>1 DEF Grows, SameEnds

LEMMA IdleRange == IdleJob.inst = {} /\ IdleJob.got = {}
  BY DEF IdleJob

LEMMA CoveredStays ==
    ASSUME TypeInv, TypeInv', CoveredInv, Grows, SameEnds
    PROVE  CoveredInv'
<1> SUFFICES ASSUME NEW i \in Instruments \ explicit, watermark'[i] # NoWatermark
             PROVE  /\ watermark'[i].earliest <= watermark'[i].latest
                    /\ watermark'[i].latest <= published'
                    /\ HistoryStart[i] <= watermark'[i].latest
                    /\ \A d \in TradingDays :
                         watermark'[i].earliest <= d /\ d <= watermark'[i].latest => Accounted(i, d)'
  BY DEF CoveredInv, Grows, NoWatermark
<1>1. /\ watermark[i] # NoWatermark
      /\ watermark'[i].earliest = watermark[i].earliest /\ watermark'[i].latest = watermark[i].latest
  BY DEF SameEnds
<1>2. published \in Int /\ published' \in Int /\ published <= published' /\ watermark[i].latest \in Int
  BY DatesTyped DEF TypeInv, TablesOK, Grows
<1>3. \A d \in TradingDays :
        watermark[i].earliest <= d /\ d <= watermark[i].latest => Accounted(i, d)'
  BY <1>1, AccountedStays DEF CoveredInv
<1> QED BY <1>1, <1>2, <1>3 DEF CoveredInv

\* The run is where it was.
LEMMA HolesStay ==
    ASSUME TypeInv, TypeInv', HolesInv, Grows, SameEnds, job' = job, day' = day
    PROVE  HolesInv'
<1>1. BetweenTickers'
  BY DEF HolesInv, BetweenTickers
<1>2. CoveredInv'
  BY CoveredStays DEF HolesInv
<1>3. ASSUME NEW i \in job.inst \ explicit, job.range = NoRange
      PROVE  PlanJoins(i)' /\ ChunksFollow(i)'
  <2>1. i \in Instruments /\ PlanJoins(i) /\ ChunksFollow(i)
    BY <1>3 DEF TypeInv, JobOK, HolesInv, FollowInv
  <2>2. PlanJoins(i)'
    BY <2>1 DEF PlanJoins, SameEnds, NoWatermark
  <2>3. \A b \in job.got : b.day \in Int
    BY DEF TypeInv, JobOK, Bar
  <2>4. \A b \in job.got : b.day <= published'
    BY <2>1, <2>3, DatesTyped DEF ChunksFollow, Grows, TypeInv, TablesOK
  <2>5. \A d : Got(d)' <=> Got(d)
    BY DEF Got, Writable
  <2>6. ChunksFollow(i)'
    BY <2>1, <2>4, <2>5, AccountedStays DEF ChunksFollow
  <2> QED BY <2>2, <2>6
<1>4. FollowInv'
  BY <1>3 DEF HolesInv, FollowInv, Grows, NoRange
<1> QED BY <1>1, <1>2, <1>4 DEF HolesInv

\* Between two tickers there is nothing to follow.
LEMMA HolesBetween ==
    ASSUME CoveredInv', job'.inst = {}, job'.got = {}
    PROVE  HolesInv'
  BY DEF HolesInv, BetweenTickers, FollowInv

LEMMA DroppedRange ==
    ASSUME JobOK(job), NEW i
    PROVE  Dropped(i).inst = {} /\ Dropped(i).got = {} /\ Dropped(i).phase = "next"
  BY DEF JobOK, Fields, Dropped

\* What is planned joins on to the watermark, read or not.
LEMMA PlannedJoins ==
    ASSUME HistoriesStart, NoFreeRanges, TypeInv, CoveredInv, NEW i \in Instruments \ explicit,
           NEW existing \in {watermark[i], NoWatermark}, Plan(i, existing, day).mode # "NO_OP"
    PROVE  LET p == Plan(i, existing, day)
           IN  /\ p.start \in Int /\ p.end \in Int /\ p.end <= day
               /\ existing = NoWatermark => p.start = HistoryStart[i] /\ p.end = day
               /\ existing # NoWatermark =>
                    p.start <= watermark[i].latest + 1 /\ watermark[i].earliest <= p.end + 1
<1> DEFINE p == Plan(i, existing, day)
           Fetch(first, last) == p.start = first /\ p.end = last
<1>1. /\ InitialStart(i, day) = HistoryStart[i] /\ HistoryStart[i] \in Nat
      /\ ExtendedStart \in Nat /\ BufferDays \in Nat
  BY PlanningAssumption DEF HistoriesStart, InitialStart
<1>2. /\ day \in Nat /\ published \in Int /\ published <= day
      /\ watermark[i].earliest \in Int /\ watermark[i].latest \in Int
  BY DatesTyped
<1>3. i \notin Restated /\ i \notin Overridden
  BY DEF NoFreeRanges
<1>4. CASE existing = NoWatermark
  <2>1. Fetch(HistoryStart[i], day)
    BY <1>1, <1>3, <1>4 DEF Plan
  <2> QED BY <1>1, <1>2, <1>4, <2>1
<1>5. CASE existing # NoWatermark
  <2>1. existing = watermark[i]
    BY <1>5
  <2>2. /\ existing.earliest <= existing.latest /\ existing.latest <= day
        /\ HistoryStart[i] <= existing.latest
    BY <1>2, <1>5, <2>1 DEF CoveredInv
  <2>3. \/ Fetch(HistoryStart[i], day)
        \/ Fetch(ExtendedStart, existing.earliest - 1) /\ ExtendedStart < existing.earliest
        \/ Fetch(existing.latest + 1, day)
        \/ Fetch(Later(existing.latest - BufferDays, existing.earliest), day)
    BY <1>1, <1>3, <1>5 DEF Plan
  <2>4. /\ Later(existing.latest - BufferDays, existing.earliest) \in Int
        /\ Later(existing.latest - BufferDays, existing.earliest) <= existing.latest
    BY <1>1, <1>2, <2>1, <2>2 DEF Later
  <2> HIDE DEF p
  <2>5. /\ p.start \in Int /\ p.end \in Int /\ p.end <= day
        /\ p.start <= existing.latest + 1 /\ existing.earliest <= p.end + 1
    BY <1>1, <1>2, <2>1, <2>2, <2>3, <2>4
  <2> QED BY <1>5, <2>1, <2>5 DEF p
<1> QED BY <1>4, <1>5

LEMMA HolesPlan ==
    ASSUME HistoriesStart, NoFreeRanges, TypeInv, TypeInv', HolesInv, NEW i \in Instruments,
           NEW existing \in {watermark[i], NoWatermark}, PlanWith(i, existing)
    PROVE  HolesInv'
<1>1. Grows /\ SameEnds
  BY DatesTyped DEF Grows, SameEnds, PlanWith, world, tables
<1>2. CoveredInv'
  BY <1>1, CoveredStays DEF HolesInv
<1>3. CASE job' = Dropped(i)
  BY <1>2, <1>3, DroppedRange, HolesBetween DEF TypeInv
<1>4. CASE job' # Dropped(i)
  <2> DEFINE plan == Planned(i, existing)
  <2>1. /\ plan.mode # "NO_OP" /\ job.phase = "next"
        /\ job' = [job EXCEPT !.phase = "fetch", !.inst = {i}, !.existing = existing,
                              !.plan = plan, !.from = plan.start]
        /\ UNCHANGED <<watermark, explicit, day, published>>
    BY <1>4 DEF PlanWith, world, tables
  <2>2. /\ job'.phase = "fetch" /\ job'.inst = {i} /\ job'.existing = existing /\ job'.plan = plan
        /\ job'.from = plan.start /\ job'.got = job.got /\ job'.range = job.range
    BY <2>1 DEF TypeInv, JobOK, Fields
  <2>3. job'.got = {}
    BY <2>1, <2>2 DEF HolesInv, BetweenTickers
  <2>4. BetweenTickers'
    BY <2>2 DEF BetweenTickers
  <2>5. ASSUME i \notin explicit, job.range = NoRange PROVE PlanJoins(i)' /\ ChunksFollow(i)'
    <3>1. plan = Plan(i, existing, day)
      BY <2>5 DEF Planned
    <3> HIDE DEF plan
    <3>2. /\ plan.start \in Int /\ plan.end \in Int /\ plan.end <= day
          /\ existing = NoWatermark => plan.start = HistoryStart[i] /\ plan.end = day
          /\ existing # NoWatermark =>
               plan.start <= watermark[i].latest + 1 /\ watermark[i].earliest <= plan.end + 1
      BY <2>1, <2>5, <3>1, PlannedJoins DEF HolesInv
    <3>3. PlanJoins(i)'
      BY <2>1, <2>2, <3>2 DEF PlanJoins, NoWatermark
    <3>4. ChunksFollow(i)'
      <4>1. \A d \in TradingDays : ~(plan.start <= d /\ d < plan.start)
        BY <3>2, PlanningAssumption
      <4>2. job'.plan.start = plan.start /\ job'.from = plan.start
        BY <2>2
      <4>3. /\ job'.from \in Int /\ job'.plan.start <= job'.from
            /\ \A d \in TradingDays : ~(job'.plan.start <= d /\ d < job'.from)
        BY <3>2, <4>1, <4>2
      <4> QED BY <2>2, <2>3, <4>3 DEF ChunksFollow
    <3> QED BY <3>3, <3>4
  <2>6. FollowInv'
    <3> HIDE DEF plan
    <3> QED BY <2>1, <2>2, <2>3, <2>5 DEF FollowInv, NoRange
  <2> QED BY <1>2, <2>4, <2>6 DEF HolesInv
<1> QED BY <1>3, <1>4

\* Whatever the provider, its answer lies in the chunk it was asked for.
LEMMA AnswerInChunk ==
    ASSUME TypeInv, NEW i \in Instruments, i \in job.inst, job.phase # "idle",
           job.from \in Int, job.plan.end \in Int
    PROVE  \A b \in Answer(i) :
             b.day \in Int /\ job.from <= b.day /\ b.day <= ChunkLast /\ b.day <= published
<1>1. ChunkLast \in Int
  BY PlanningAssumption DEF ChunkLast, Earlier
<1>2. day \in Int /\ published \in Int
  BY DatesTyped
<1>3. job.provider \in {"ibkr", "ibinsync", "yahoo"}
  BY MarketDataAssumption DEF TypeInv, JobOK
<1>4. \A d \in Reach(job.provider, job.from, ChunkLast, day) :
        d \in Int /\ job.from <= d /\ d <= ChunkLast
  <2>1. CASE job.provider = "ibkr"
    BY <1>1, <2>1 DEF Reach, PortalDays
  <2>2. CASE job.provider = "ibinsync"
    BY <1>1, <2>2 DEF Reach, GatewayDays
  <2>3. CASE job.provider = "yahoo"
    BY <1>1, <1>2, <2>3 DEF Reach, YahooDays
  <2> QED BY <1>3, <2>1, <2>2, <2>3
<1>5. \A b \in Answer(i) : b.day \in Reach(job.provider, job.from, ChunkLast, day) \cap 0 .. published
  BY DEF Answer
<1> QED BY <1>2, <1>4, <1>5

\* After a chunk, failed or not, each of its published days is accounted for or
\* has been answered.
LEMMA HolesFetch ==
    ASSUME TypeInv, TypeInv', HolesInv, NEW i \in Instruments, FetchChunk(i) \/ FetchFails(i)
    PROVE  HolesInv'
<1>1. Grows /\ SameEnds
  BY DatesTyped DEF Grows, SameEnds, FetchChunk, FetchFails, world, tables
<1>2. CoveredInv'
  BY <1>1, CoveredStays DEF HolesInv
<1>3. job.phase = "fetch" /\ job.inst = {i} /\ job.from <= job.plan.end
  BY DEF FetchChunk, FetchFails, TypeInv, JobOK
<1>4. /\ job'.phase = "fetch" /\ job'.inst = {i} /\ job'.existing = job.existing
      /\ job'.plan = job.plan /\ job'.from = ChunkLast + 1 /\ job'.range = job.range
      /\ UNCHANGED <<watermark, bronze, vendor, day, published>>
  BY <1>3 DEF FetchChunk, FetchFails, TypeInv, JobOK, Fields, NextFrom, world, tables
<1>5. BetweenTickers'
  BY <1>4 DEF BetweenTickers
<1>6. ASSUME i \notin explicit', job.range # NoRange PROVE job'.got = {}
  <2>1. FetchFails(i)
    BY <1>6 DEF FetchChunk
  <2>2. job'.got = job.got /\ explicit' = explicit
    BY <2>1 DEF FetchFails, TypeInv, JobOK, Fields
  <2> QED BY <1>3, <1>6, <2>2 DEF HolesInv, FollowInv
<1>7. ASSUME i \notin explicit', job.range = NoRange PROVE PlanJoins(i)' /\ ChunksFollow(i)'
  <2>1. PlanJoins(i) /\ ChunksFollow(i)
    BY <1>1, <1>3, <1>7 DEF HolesInv, FollowInv, Grows
  <2>2. PlanJoins(i)'
    BY <1>4, <2>1 DEF PlanJoins, NoWatermark
  <2>3. /\ job.from \in Int /\ job.plan.start \in Int /\ job.plan.end \in Int /\ ChunkLast \in Int
        /\ job.from <= ChunkLast /\ ChunkLast <= job.plan.end
    BY <1>3, <2>1, PlanningAssumption DEF PlanJoins, ChunksFollow, ChunkLast, Earlier
  <2>4. PICK bars \in SUBSET Answer(i) :
          /\ job'.got = job.got \cup bars
          /\ \A d \in TradingDays : job.from <= d /\ d <= ChunkLast /\ d <= published =>
               <<i, d>> \in missed' \/ \E b \in Writable(bars) : b.day = d
    <3>1. CASE FetchChunk(i)
      <4> DEFINE bars == { b \in Answer(i) : Kept(job.provider, b) }
      <4>1. job'.got = job.got \cup bars
        BY <3>1 DEF FetchChunk, TypeInv, JobOK, Fields
      <4>2. Writable(Answer(i)) \subseteq Writable(bars)
        BY DEF Writable, Kept
      <4>3. Missing(i, Answer(i)) \subseteq missed'
        BY <3>1 DEF FetchChunk
      <4> HIDE DEF bars
      <4>4. \A d \in TradingDays : job.from <= d /\ d <= ChunkLast /\ d <= published =>
              <<i, d>> \in missed' \/ \E b \in Writable(bars) : b.day = d
        BY <4>2, <4>3 DEF Missing
      <4>5. bars \in SUBSET Answer(i)
        BY DEF bars
      <4> QED BY <4>1, <4>4, <4>5
    <3>2. CASE FetchFails(i)
      <4>1. job'.got = job.got \cup {} /\ Missing(i, {}) \subseteq missed'
        BY <3>2 DEF FetchFails, TypeInv, JobOK, Fields
      <4>2. Writable({}) = {}
        BY DEF Writable
      <4>3. \A d \in TradingDays : job.from <= d /\ d <= ChunkLast /\ d <= published => <<i, d>> \in missed'
        BY <4>1, <4>2 DEF Missing
      <4> QED BY <4>1, <4>3
    <3> QED BY <3>1, <3>2
  <2>5. \A b \in bars : b.day \in Int /\ job.from <= b.day /\ b.day <= ChunkLast /\ b.day <= published
    BY <1>3, <2>3, AnswerInChunk
  <2>6. \A b \in job'.got : job.plan.start <= b.day /\ b.day <= job.plan.end /\ b.day <= published
    BY <2>1, <2>3, <2>4, <2>5 DEF ChunksFollow
  <2>7. /\ \A d : Got(d) => Got(d)'
        /\ \A b \in Writable(bars) : Got(b.day)'
    BY <2>4 DEF Got, Writable
  <2>8. ASSUME NEW d \in TradingDays, job.plan.start <= d, d <= job.plan.end, d < ChunkLast + 1, d < day
        PROVE  Accounted(i, d)' \/ Got(d)'
    <3>1. d \in Int /\ d <= published
      BY <2>8, DatesTyped, PlanningAssumption
    <3>2. CASE d < job.from
      BY <1>1, <2>1, <2>7, <2>8, <3>2, AccountedStays DEF ChunksFollow
    <3>3. CASE job.from <= d
      <4>1. <<i, d>> \in missed' \/ \E b \in Writable(bars) : b.day = d
        BY <2>3, <2>4, <2>8, <3>1, <3>3
      <4> QED BY <2>7, <4>1 DEF Accounted
    <3> QED BY <2>3, <3>1, <3>2, <3>3
  <2>9. ChunksFollow(i)'
    <3>1. job.plan.start <= ChunkLast + 1
      BY <2>1, <2>3 DEF ChunksFollow
    <3> QED BY <1>4, <2>3, <2>6, <2>8, <3>1 DEF ChunksFollow
  <2> QED BY <2>2, <2>9
<1>8. FollowInv'
  BY <1>4, <1>6, <1>7 DEF FollowInv, NoRange
<1> QED BY <1>2, <1>5, <1>8 DEF HolesInv

\* A step of the run after its last chunk.
LEMMA HolesRun ==
    ASSUME TypeInv, TypeInv', HolesInv, Grows, UNCHANGED <<watermark, day>>,
           job'.inst = job.inst, job'.existing = job.existing, job'.plan = job.plan,
           job'.from = job.from, job'.range = job.range, job'.got = job.got,
           job'.phase \notin {"idle", "next"},
           job.phase # "fetch" \/ job.plan.end < job.from
    PROVE  HolesInv'
<1>1. BetweenTickers'
  BY DEF BetweenTickers
<1>2. CoveredInv'
  BY CoveredStays DEF HolesInv, SameEnds
<1>3. ASSUME NEW i \in job.inst \ explicit, job.range = NoRange
      PROVE  PlanJoins(i)' /\ ChunksFollow(i)'
  <2>1. i \in Instruments /\ PlanJoins(i) /\ ChunksFollow(i)
    BY <1>3 DEF TypeInv, JobOK, HolesInv, FollowInv
  <2>2. PlanJoins(i)'
    BY <2>1 DEF PlanJoins, NoWatermark
  <2>3. \A b \in job.got : b.day <= published'
    <3>1. \A b \in job.got : b.day \in Int
      BY DEF TypeInv, JobOK, Bar
    <3> QED BY <2>1, <3>1, DatesTyped DEF ChunksFollow, Grows, TypeInv, TablesOK
  <2>4. \A d : Got(d)' <=> Got(d)
    BY DEF Got, Writable
  <2>5. job.plan.end < job.from
    BY <2>1 DEF ChunksFollow
  <2>6. ChunksFollow(i)'
    BY <2>1, <2>3, <2>4, <2>5, AccountedStays DEF ChunksFollow
  <2> QED BY <2>2, <2>6
<1>4. FollowInv'
  BY <1>3 DEF HolesInv, FollowInv, Grows, NoRange
<1> QED BY <1>1, <1>2, <1>4 DEF HolesInv

LEMMA HolesClassify ==
    ASSUME TypeInv, TypeInv', HolesInv, NEW i \in Instruments, Classify(i)
    PROVE  HolesInv'
<1>1. Grows /\ UNCHANGED <<watermark, day>>
  BY DatesTyped DEF Grows, Classify, world, tables, history
<1>2. job.phase = "fetch" /\ job.from > job.plan.end
  BY DEF Classify
<1>3. \E new, amended :
        job' = [job EXCEPT !.phase = "new", !.new = new, !.amended = amended]
  BY DEF Classify
<1>4. /\ job'.phase = "new" /\ job'.inst = job.inst /\ job'.existing = job.existing
      /\ job'.plan = job.plan /\ job'.from = job.from /\ job'.range = job.range /\ job'.got = job.got
  BY <1>3 DEF TypeInv, JobOK, Fields
<1> QED BY <1>1, <1>2, <1>4, HolesRun

LEMMA HolesAppend ==
    ASSUME TypeInv, TypeInv', HolesInv, NEW i \in Instruments, AppendNew(i) \/ AppendAmended(i)
    PROVE  HolesInv'
<1>1. Grows /\ UNCHANGED <<watermark, day>>
  BY DatesTyped DEF Grows, AppendNew, AppendAmended, AppendRecords, world, history
<1>2. job.phase # "fetch"
  BY DEF AppendNew, AppendAmended
<1>3. PICK phase \in {"amended", "watermark"} : job' = [job EXCEPT !.phase = phase]
  BY DEF AppendNew, AppendAmended
<1>4. /\ job'.phase = phase /\ job'.inst = job.inst /\ job'.existing = job.existing
      /\ job'.plan = job.plan /\ job'.from = job.from /\ job'.range = job.range /\ job'.got = job.got
  BY <1>3 DEF TypeInv, JobOK, Fields
<1> QED BY <1>1, <1>2, <1>3, <1>4, HolesRun

LEMMA LeastFirst ==
    ASSUME NEW ds, ds \subseteq Nat, ds # {}
    PROVE  \A e \in ds : Least(ds) <= e
  BY HasLeast DEF Least

\* The ends after an update: those of the answers, or the outer ones of these and
\* of the watermark that one of the two reads has seen.
LEMMA UpdatedEnds ==
    ASSUME TypeInv, NEW i \in Instruments, NEW existing \in {watermark[i], NoWatermark},
           Writable(job.got) # {},
           job.existing # NoWatermark =>
             /\ watermark[i] # NoWatermark
             /\ job.existing.earliest = watermark[i].earliest
             /\ job.existing.latest = watermark[i].latest
    PROVE  LET days == { b.day : b \in Writable(job.got) }
               new  == Widen(Advanced(job.existing), existing)
           IN  \/ /\ job.existing = NoWatermark
                  /\ new.earliest = Least(days) /\ new.latest = Greatest(days)
               \/ /\ watermark[i] # NoWatermark
                  /\ new.earliest = Earlier(Least(days), watermark[i].earliest)
                  /\ new.latest = Later(Greatest(days), watermark[i].latest)
<1> DEFINE days  == { b.day : b \in Writable(job.got) }
           first == Least(days)
           last  == Greatest(days)
           wm    == watermark[i]
           adv   == Advanced(job.existing)
           new   == Widen(adv, existing)
<1>1. days \in SUBSET (0 .. MaxDay) /\ days # {} /\ days \subseteq Nat
  BY IngestionAssumption DEF TypeInv, JobOK, Writable, Bar
<1>2. first \in Nat /\ last \in Nat
  <2> HIDE DEF days
  <2> QED BY <1>1, LeastIn, GreatestIn, IngestionAssumption
<1>3. wm.earliest \in Int /\ wm.latest \in Int
  BY DatesTyped
<1>4. /\ adv.earliest = IF job.existing = NoWatermark THEN first ELSE Earlier(first, job.existing.earliest)
      /\ adv.latest = Later(last, job.existing.latest)
  BY DEF Advanced
<1>5. adv = [earliest |-> adv.earliest, latest |-> adv.latest, suspended |-> FALSE]
  BY DEF Advanced
<1>6. NoWatermark.latest = -1
  BY DEF NoWatermark
<1>7. existing # NoWatermark => /\ new.earliest = Earlier(adv.earliest, wm.earliest)
                                /\ new.latest = Later(adv.latest, wm.latest)
  BY <1>5 DEF Widen
<1>8. existing = NoWatermark => new = adv
  BY DEF Widen
<1> HIDE DEF days, first, last, adv, new
<1>9. CASE job.existing = NoWatermark
  <2>1. adv.earliest = first /\ adv.latest = last
    BY <1>2, <1>4, <1>6, <1>9 DEF Later
  <2> QED BY <1>7, <1>8, <1>9, <2>1 DEF days, first, last, adv, new
<1>10. CASE job.existing # NoWatermark
  <2>1. adv.earliest = Earlier(first, wm.earliest) /\ adv.latest = Later(last, wm.latest)
    BY <1>4, <1>10
  <2>2. /\ Earlier(adv.earliest, wm.earliest) = adv.earliest
        /\ Later(adv.latest, wm.latest) = adv.latest
    BY <1>2, <1>3, <2>1 DEF Earlier, Later
  <2>3. new.earliest = adv.earliest /\ new.latest = adv.latest
    BY <1>7, <1>8, <2>2
  <2> QED BY <1>10, <2>1, <2>3 DEF days, first, last, adv, new
<1> QED BY <1>9, <1>10

\* From the start of its range to the last of its answers, all is accounted for
\* when a run moves the watermark.
LEMMA AnsweredRange ==
    ASSUME TypeInv, RunInv, HolesInv, NEW i \in job.inst \ explicit, job.phase = "watermark",
           Writable(job.got) # {}
    PROVE  LET days == { b.day : b \in Writable(job.got) }
           IN  /\ PlanJoins(i)
               /\ Least(days) \in Nat /\ Greatest(days) \in Nat /\ Least(days) <= Greatest(days)
               /\ job.plan.start <= Least(days) /\ Greatest(days) <= published
               /\ \A d \in TradingDays : job.plan.start <= d /\ d <= job.plan.end /\ d < day
                                           => Accounted(i, d)
               /\ \A d \in TradingDays : job.plan.start <= d /\ d <= Greatest(days) => Accounted(i, d)
<1> DEFINE days  == { b.day : b \in Writable(job.got) }
           first == Least(days)
           last  == Greatest(days)
<1>1. Writable(job.got) \subseteq job.got
  BY DEF Writable
<1>2. PlanJoins(i) /\ ChunksFollow(i)
  BY <1>1 DEF HolesInv, FollowInv
<1>3. days \in SUBSET (0 .. MaxDay) /\ days # {} /\ days \subseteq Nat
  BY IngestionAssumption DEF TypeInv, JobOK, Writable, Bar
<1>4. /\ first \in days /\ last \in days /\ first <= last
  <2> HIDE DEF days
  <2> QED BY <1>3, LeastIn, LeastFirst, GreatestIn, IngestionAssumption
<1>5. \A d \in days : job.plan.start <= d /\ d <= job.plan.end /\ d <= published /\ Accounted(i, d)
  <2>1. \A b \in Writable(job.got) : \E r \in Stored(i) : r.day = b.day
    BY DEF RunInv, GotStored, HasRow
  <2> QED BY <1>1, <1>2, <2>1 DEF ChunksFollow, Accounted
<1>6. /\ day \in Nat /\ published \in Int /\ published <= day
      /\ job.plan.start \in Int /\ job.plan.end \in Int /\ job.from \in Int /\ job.plan.end < job.from
  BY <1>2, DatesTyped DEF PlanJoins, ChunksFollow, TypeInv, JobOK
<1>7. ASSUME NEW d \in TradingDays, job.plan.start <= d, d <= job.plan.end, d < day
      PROVE  Accounted(i, d)
  <2>1. d < job.from
    BY <1>6, <1>7, PlanningAssumption
  <2>2. CASE Got(d)
    BY <1>5, <2>2 DEF Got
  <2> QED BY <1>2, <1>7, <2>1, <2>2 DEF ChunksFollow
<1>8. ASSUME NEW d \in TradingDays, job.plan.start <= d, d <= last
      PROVE  Accounted(i, d)
  <2> HIDE DEF days, last
  <2>1. d \in Nat /\ last \in Nat /\ last <= published /\ last <= job.plan.end
    BY <1>3, <1>4, <1>5, PlanningAssumption
  <2>2. CASE d = last
    BY <1>4, <1>5, <2>2
  <2>3. CASE d # last
    <3>1. d <= job.plan.end /\ d < day
      BY <1>6, <1>8, <2>1, <2>3
    <3> QED BY <1>7, <1>8, <3>1
  <2> QED BY <2>2, <2>3
<1> QED BY <1>2, <1>3, <1>4, <1>5, <1>7, <1>8

\* The watermark grows over days that the run has asked for.
LEMMA HolesUpdate ==
    ASSUME TypeInv, TypeInv', RunInv, HolesInv, NEW i \in Instruments,
           NEW existing \in {watermark[i], NoWatermark}, UpdateWith(i, existing)
    PROVE  HolesInv'
<1> DEFINE new   == Widen(Advanced(job.existing), existing)
           wm    == watermark[i]
           days  == { b.day : b \in Writable(job.got) }
           first == Least(days)
           last  == Greatest(days)
<1>1. Grows /\ bronze' = bronze /\ missed' = missed /\ explicit' = explicit /\ published' = published
  BY DatesTyped DEF Grows, UpdateWith, world
<1>2. job'.inst = {} /\ job'.got = {} /\ i \in job.inst /\ job.phase = "watermark"
  BY DroppedRange DEF UpdateWith, TypeInv
<1>3. CASE watermark' = watermark
  <2>1. CoveredInv'
    BY <1>1, <1>3, CoveredStays DEF SameEnds, HolesInv
  <2> QED BY <1>2, <2>1, HolesBetween
<1>4. CASE Writable(job.got) # {} /\ watermark' = [watermark EXCEPT ![i] = new]
  <2>1. watermark'[i] = new /\ \A k \in Instruments \ {i} : watermark'[k] = watermark[k]
    BY <1>4 DEF TypeInv, TablesOK
  <2>2. \A k, d : Accounted(k, d)' <=> Accounted(k, d)
    BY <1>1 DEF Accounted, Stored
  <2>3. ASSUME i \notin explicit
        PROVE  /\ new.earliest <= new.latest /\ new.latest <= published
               /\ HistoryStart[i] <= new.latest
               /\ \A d \in TradingDays : new.earliest <= d /\ d <= new.latest => Accounted(i, d)
    <3>1. /\ PlanJoins(i)
          /\ first \in Nat /\ last \in Nat /\ first <= last
          /\ job.plan.start <= first /\ last <= published
          /\ \A d \in TradingDays : job.plan.start <= d /\ d <= job.plan.end /\ d < day => Accounted(i, d)
          /\ \A d \in TradingDays : job.plan.start <= d /\ d <= last => Accounted(i, d)
      BY <1>2, <1>4, <2>3, AnsweredRange
    <3>2. \/ /\ job.existing = NoWatermark
             /\ new.earliest = first /\ new.latest = last
          \/ /\ wm # NoWatermark
             /\ new.earliest = Earlier(first, wm.earliest) /\ new.latest = Later(last, wm.latest)
      BY <1>4, <3>1, UpdatedEnds DEF PlanJoins
    <3>3. /\ wm.earliest \in Int /\ wm.latest \in Int /\ day \in Nat /\ published \in Int
          /\ published <= day /\ job.plan.start \in Int /\ job.plan.end \in Int
          /\ HistoryStart[i] \in Int /\ TradingDays \subseteq Nat
      BY <3>1, DatesTyped, PlanningAssumption DEF PlanJoins, NoDate
    <3> HIDE DEF new, days, first, last
    <3>4. CASE job.existing = NoWatermark /\ new.earliest = first /\ new.latest = last
      BY <3>1, <3>3, <3>4 DEF PlanJoins
    <3>5. CASE /\ wm # NoWatermark
               /\ new.earliest = Earlier(first, wm.earliest) /\ new.latest = Later(last, wm.latest)
      <4>1. /\ wm.earliest <= wm.latest /\ wm.latest <= published /\ HistoryStart[i] <= wm.latest
            /\ \A d \in TradingDays : wm.earliest <= d /\ d <= wm.latest => Accounted(i, d)
        BY <2>3, <3>5 DEF HolesInv, CoveredInv
      <4>2. job.plan.start <= wm.latest + 1 /\ wm.earliest <= job.plan.end + 1
        BY <3>1, <3>3, <4>1 DEF PlanJoins
      <4>3. /\ new.earliest <= new.latest /\ new.latest <= published /\ HistoryStart[i] <= new.latest
        BY <3>1, <3>3, <3>5, <4>1 DEF Earlier, Later
      <4>4. ASSUME NEW d \in TradingDays, new.earliest <= d, d <= new.latest
            PROVE  Accounted(i, d)
        <5>1. d \in Nat /\ (first <= d \/ wm.earliest <= d) /\ (d <= last \/ d <= wm.latest)
          BY <3>1, <3>3, <3>5, <4>4 DEF Earlier, Later
        <5>2. CASE wm.latest < d
          <6>1. job.plan.start <= d /\ d <= last
            BY <3>3, <4>2, <5>1, <5>2
          <6> QED BY <3>1, <6>1
        <5>3. CASE d < wm.earliest
          <6>1. job.plan.start <= d /\ d <= job.plan.end /\ d < day
            BY <3>1, <3>3, <4>1, <4>2, <5>1, <5>3
          <6> QED BY <3>1, <6>1
        <5>4. CASE wm.earliest <= d /\ d <= wm.latest
          BY <4>1, <5>4
        <5> QED BY <3>3, <5>1, <5>2, <5>3, <5>4
      <4> QED BY <4>3, <4>4
    <3> QED BY <3>2, <3>4, <3>5
  <2> HIDE DEF new
  <2>4. CoveredInv'
    BY <1>1, <2>1, <2>2, <2>3 DEF HolesInv, CoveredInv, NoWatermark
  <2> QED BY <1>2, <2>4, HolesBetween
<1> QED BY <1>3, <1>4, UpdateEffect

LEMMA HolesInit == Init => HolesInv
<1> QED BY IdleRange DEF Init, HolesInv, BetweenTickers, CoveredInv, FollowInv

LEMMA HolesStep ==
    ASSUME HistoriesStart, NoFreeRanges
    PROVE  TypeInv /\ RunInv /\ HolesInv /\ [Next]_vars => HolesInv'
<1> SUFFICES ASSUME TypeInv, RunInv, HolesInv, [Next]_vars PROVE HolesInv'
  OBVIOUS
<1>0. TypeInv'
  BY TypeStep
<1>1. ASSUME NEW healthy \in SUBSET Registered, NEW insts \in (SUBSET Instruments) \ {{}},
             NEW range \in Ranges \cup {NoRange}, NEW dry \in BOOLEAN,
             StartRun(healthy, insts, range, dry)
      PROVE  HolesInv'
  <2>1. job'.inst = {} /\ job'.got = {}
    BY <1>1 DEF StartRun, IdleJob
  <2>2. Grows /\ SameEnds
    BY <1>1, Untouched DEF StartRun, world, tables, history
  <2> QED BY <1>0, <2>1, <2>2, CoveredStays, HolesBetween DEF HolesInv
<1>2. ASSUME NEW i \in Instruments, Work(i) \/ Failure(i) PROVE HolesInv'
  <2>1. CASE PlanTicker(i) \/ PlanUnread(i)
    BY <1>0, <2>1, HolesPlan DEF PlanTicker, PlanUnread
  <2>2. CASE FetchChunk(i) \/ FetchFails(i)
    BY <1>0, <2>2, HolesFetch
  <2>3. CASE FetchEmpty(i) \/ TickerFails(i)
    <3>1. job'.inst = {} /\ job'.got = {}
      BY <2>3, DroppedRange DEF FetchEmpty, TickerFails, TypeInv
    <3>2. Grows /\ SameEnds
      BY <2>3, Untouched DEF FetchEmpty, TickerFails, world, tables, history
    <3> QED BY <1>0, <3>1, <3>2, CoveredStays, HolesBetween DEF HolesInv
  <2>4. CASE Classify(i)
    BY <1>0, <2>4, HolesClassify
  <2>5. CASE AppendNew(i) \/ AppendAmended(i)
    BY <1>0, <2>5, HolesAppend
  <2>6. CASE UpdateWatermark(i) \/ UpdateUnread(i)
    BY <1>0, <2>6, HolesUpdate DEF UpdateWatermark, UpdateUnread
  <2> QED BY <1>2, <2>1, <2>2, <2>3, <2>4, <2>5, <2>6 DEF Work, Failure
<1>3. CASE RunEnds \/ Crash
  <2>1. job'.inst = {} /\ job'.got = {}
    BY <1>3, IdleRange DEF RunEnds, Crash
  <2>2. Grows /\ SameEnds
    BY <1>3, Untouched DEF RunEnds, Crash, world, tables, history
  <2> QED BY <1>0, <2>1, <2>2, CoveredStays, HolesBetween DEF HolesInv
<1>4. CASE NextDay
  <2>1. job'.inst = {} /\ job'.got = {}
    BY <1>4 DEF NextDay, HolesInv, BetweenTickers
  <2>2. Grows /\ SameEnds
    BY <1>4, Untouched DEF NextDay, tables, history
  <2> QED BY <1>0, <2>1, <2>2, CoveredStays, HolesBetween DEF HolesInv
<1>5. CASE Publish \/ \E i \in Instruments, d \in 0 .. MaxDay : Revise(i, d)
  <2>1. Grows /\ SameEnds /\ job' = job /\ day' = day
    <3>1. CASE Publish
      <4>1. published \in Int /\ day \in Int /\ published <= day
        BY IngestionAssumption DEF TypeInv, TablesOK
      <4> QED BY <3>1, <4>1 DEF Publish, Grows, SameEnds, tables, history
    <3>2. CASE \E i \in Instruments, d \in 0 .. MaxDay : Revise(i, d)
      BY <3>2, Untouched DEF Revise, tables
    <3> QED BY <1>5, <3>1, <3>2
  <2> QED BY <1>0, <2>1, HolesStay
<1>6. ASSUME NEW i \in Instruments, Suspend(i) PROVE HolesInv'
  <2>1. /\ UNCHANGED <<world, bronze, sources, job, history>> /\ watermark[i] # NoWatermark
        /\ watermark' = [watermark EXCEPT ![i].suspended = TRUE]
    BY <1>6 DEF Suspend
  <2>2. watermark[i] \in Watermark
    BY WatermarksTyped
  <2>3. /\ watermark'[i].earliest = watermark[i].earliest
        /\ watermark'[i].latest = watermark[i].latest
        /\ watermark'[i].suspended = TRUE
        /\ \A k \in Instruments \ {i} : watermark'[k] = watermark[k]
    BY <2>1, <2>2 DEF TypeInv, TablesOK, Watermark
  <2>4. watermark'[i] # NoWatermark
    BY <2>3 DEF NoWatermark
  <2>5. SameEnds
    BY <2>1, <2>3, <2>4 DEF SameEnds
  <2>6. Grows /\ job' = job /\ day' = day
    BY <2>1, DatesTyped, <1>6 DEF Grows, world, history
  <2> QED BY <1>0, <2>5, <2>6, HolesStay
<1>7. CASE UNCHANGED vars
  <2>1. Grows /\ SameEnds /\ job' = job /\ day' = day
    BY <1>7, Untouched DEF vars
  <2> QED BY <1>0, <2>1, HolesStay
<1> QED BY <1>1, <1>2, <1>3, <1>4, <1>5, <1>6, <1>7 DEF Next

\* A trading day under the watermark has a row, or the provider was asked for it
\* and did not answer with a bar: whatever fails, dies, is unread or unwritten,
\* no plan and no chunk leaves a day out that the watermark then passes over,
\* but for instruments loaded for an explicit range.
THEOREM HolesAreUnanswered ==
    ASSUME HistoriesStart, NoFreeRanges
    PROVE  Spec => []HolesHaveACause
<1>1. TypeInv /\ RunInv /\ HolesInv /\ [Next]_vars => HolesInv'
  BY HolesStep
<1>2. TypeInv /\ HolesInv => HolesHaveACause
  <2>1. ASSUME NEW i \in Instruments, NEW d \in TradingDays, watermark[i] = NoWatermark
        PROVE  ~(d <= watermark[i].latest)
    BY <2>1, PlanningAssumption DEF NoWatermark
  <2> QED BY <2>1 DEF HolesInv, CoveredInv, HolesHaveACause, Accounted
<1> QED BY RunAlways, HolesInit, <1>1, <1>2, PTL DEF Spec
=============================================================================

---------------------------- MODULE UniverseSync ----------------------------
(***************************************************************************)
(* The notebook 02_universe_sync: what the sources list is compared with   *)
(* the reference tables and the difference appended, table after table.    *)
(* One run at a time; a step is one write, with the reads just before it.  *)
(*                                                                         *)
(* An instrument is the identity Delta gives its row.  No table of the     *)
(* notebook is keyed, so an append may repeat a row: `repeated` remembers. *)
(***************************************************************************)
EXTENDS Integers, Sequences, FiniteSets, SequencesExt

CONSTANTS
    Nothing,         \* None
    Symbols,
    Holdings,        \* what the holdings files list: universe_code -> symbols
    Identified,      \* the symbols OpenFIGI knows
    NasdaqListed,    \* the lines of nasdaqlisted.txt
    OtherListed,     \* the lines of otherlisted.txt
    EtfOnly,         \* the widget etf_only
    Seeds,           \* ETF_INSTRUMENTS
    Wanted,          \* ACTIVE_INSTRUMENTS
    AsEquity,        \* seeds that an earlier version may have stored as equities
    Faults,          \* the errors that the notebook tolerates and that do occur
    MaxDay,          \* bound: the last day
    MaxCrashes       \* bound: runs that die, seeds and funds that fail

FaultKinds == {"openfigi", "read"}
Universes  == DOMAIN Holdings
ActiveUniverses == {"SP500", "NDX100"}

ASSUME SyncAssumption ==
    /\ IsFiniteSet(Symbols)
    /\ Holdings \in [Universes -> SUBSET Symbols]
    /\ \A l \in NasdaqListed \cup OtherListed : l.symbol \in Symbols
    /\ Seeds \subseteq Symbols /\ Wanted \subseteq Symbols /\ AsEquity \subseteq Seeds
    /\ Nothing \notin Symbols /\ Faults \subseteq FaultKinds
    /\ MaxDay \in Nat \ {0} /\ MaxCrashes \in Nat

VARIABLES
    instrument,   \* reference.instrument: instrument_id -> row
    listing,      \* reference.instrument_listing, all of it current
    membership,   \* reference.universe_membership
    feed,         \* reference.ticker_feed_config of the daily stream, all of it active
    repeated,     \* rows appended although their table held them
    sync,         \* the run in progress
    today, crashes

tables   == <<instrument, listing, membership, feed, repeated>>
syncVars == <<tables, sync, today, crashes>>

Ids == 1 .. Len(instrument)
ListedAs(s) == { l.id : l \in { m \in listing : m.symbol = s } }

\* One of the values that a dict may hold for each key when rows with the same
\* key overwrite each other in the order in which they are collected.
Collected(values) ==
    { f \in [{ k \in DOMAIN values : values[k] # {} } -> UNION { values[k] : k \in DOMAIN values }] :
        \A k \in DOMAIN f : f[k] \in values[k] }

(***************************************************************************)
(* The sources.                                                            *)
(***************************************************************************)
\* _parse_nasdaq_listed, _parse_other_listed: seven fields, no test issue, no
\* warrant, unit, note or the like by its name or its symbol.
Parsed(lines) == { l \in lines : l.fields >= 7 /\ ~l.test_issue /\ ~l.excluded }

\* NasdaqFtpSource.fetch: the NASDAQ line of a symbol has precedence.
NasdaqInstruments ==
    LET nasdaq == Parsed(NasdaqListed)
    IN  nasdaq \cup { l \in Parsed(OtherListed) : \A n \in nasdaq : n.symbol # l.symbol }

\* EtfHoldingsSource.fetch: a fund whose file cannot be had or read is left out;
\* "partial results are better than no results".
Members(answered)  == UNION { Holdings[u] : u \in answered }
Codes(s, answered) == { u \in answered : s \in Holdings[u] }
AnyActive(codes)   == codes \cap ActiveUniverses # {}

\* The merge: NASDAQ's record of a symbol is kept, the holdings add to it.
Merged(answered) ==
    Members(answered) \cup (IF EtfOnly THEN {} ELSE { l.symbol : l \in NasdaqInstruments })
AssetClass(s) ==
    IF ~EtfOnly /\ \E l \in NasdaqInstruments : l.symbol = s /\ l.etf THEN "etf" ELSE "equity"

\* OpenFigiClient.enrich, asked for members only: a symbol without a match has
\* no FIGI, and neither has a whole batch once the retries are used up.  What
\* it finds for a symbol that is in the tables already is not stored.
Enrichments(members) ==
    {members \cap Identified} \cup (IF "openfigi" \in Faults THEN {{}} ELSE {})

(***************************************************************************)
(* The run.                                                                *)
(***************************************************************************)
IdleSync == [phase |-> "idle", existing |-> <<>>, answered |-> {}, figi |-> {},
             day |-> 1, tried |-> {}, seeding |-> Nothing]

Existing  == DOMAIN sync.existing
New       == Merged(sync.answered) \ Existing
FigiOf(s) == IF s \in sync.figi THEN s ELSE Nothing

\* SYNC_BATCH, by the day; the seeds have tags of their own.
Tag(day, seed) == [day |-> day, seed |-> seed]
Row(figi, class, tag) == [figi |-> figi, asset_class |-> class, source |-> tag]

\* Cells 3 to 7: what is there, what the sources have, what OpenFIGI knows of it.
SyncStart(answered) ==
    /\ sync.phase = "idle"
    /\ crashes' = crashes + (IF answered = Universes THEN 0 ELSE 1) /\ crashes' <= MaxCrashes
    /\ \E existing \in Collected([s \in Symbols |-> ListedAs(s)]),
          figi \in Enrichments(Members(answered)) :
         sync' = [IdleSync EXCEPT !.phase = IF Merged(answered) \subseteq DOMAIN existing
                                            THEN "membership" ELSE "instrument",
                                  !.existing = existing, !.answered = answered,
                                  !.figi = figi, !.day = today]
    /\ UNCHANGED <<tables, today>>

\* Cell 8.
SyncInsertInstruments ==
    /\ sync.phase = "instrument"
    /\ instrument' = instrument \o
         LET order == SetToSeq(New)
         IN  [n \in DOMAIN order |->
                Row(FigiOf(order[n]), AssetClass(order[n]), Tag(sync.day, Nothing))]
    /\ sync' = [sync EXCEPT !.phase = "listing"]
    /\ UNCHANGED <<listing, membership, feed, repeated, today, crashes>>

\* Mutant of Recovered: any row of the day is as good as another.
RecoveredByDay == [figi \in Symbols \cup {Nothing} |->
    { i \in Ids : instrument[i].source = Tag(sync.day, Nothing) }]

\* Cell 9: the rows of the batch by (isin, figi); OpenFIGI's mapping has no isin.
Recovered == [figi \in Symbols \cup {Nothing} |->
    { i \in Ids : instrument[i].source = Tag(sync.day, Nothing) /\ instrument[i].figi = figi }]

SyncInsertListings ==
    /\ sync.phase = "listing"
    /\ \E inserted \in Collected(Recovered) :
         listing' = listing \cup { [id |-> inserted[FigiOf(s)], symbol |-> s] : s \in New }
    /\ sync' = [sync EXCEPT !.phase = "membership"]
    /\ UNCHANGED <<instrument, membership, feed, repeated, today, crashes>>

\* Mutant of SymbolToId: the rows of the batch are believed to be listed.
FromInstruments(tags) ==
    LET inserted(s) == { i \in Ids : instrument[i].source \in tags /\ instrument[i].figi = s }
    IN  Collected([s \in Symbols |-> IF inserted(s) # {} THEN inserted(s)
                                     ELSE IF s \in Existing THEN {sync.existing[s]} ELSE {}])

\* symbol_to_id: the existing symbols, then those of the rows with one of the tags.
SymbolToId(tags) ==
    LET inserted(s) == { i \in ListedAs(s) : instrument[i].source \in tags }
    IN  Collected([s \in Symbols |-> IF inserted(s) # {} THEN inserted(s)
                                     ELSE IF s \in Existing THEN {sync.existing[s]} ELSE {}])

\* The reads before an append of memberships and feeds may fail, which counts as empty.
Reads(table) == {table} \cup (IF "read" \in Faults THEN {{}} ELSE {})

\* The memberships of the symbols that have an id, one per universe.
Memberships(ids) ==
    UNION { { [id |-> ids[s], universe_code |-> u, is_active |-> AnyActive(Codes(s, sync.answered))] :
                u \in Codes(s, sync.answered) } : s \in DOMAIN ids \cap Members(sync.answered) }

\* Mutant of MembershipRows: what is there is not looked at.
AllMemberships(ids, known) == Memberships(ids)

\* An inactive membership is not among the known ones.
MembershipRows(ids, known) ==
    { m \in Memberships(ids) : [m EXCEPT !.is_active = TRUE] \notin known }

\* Cell 10.
SyncInsertMemberships ==
    /\ sync.phase = "membership"
    /\ \E ids \in SymbolToId(IF New = {} THEN {} ELSE {Tag(sync.day, Nothing)}),
          known \in Reads({ m \in membership : m.is_active }) :
         LET rows == MembershipRows(ids, known)
         IN  /\ membership' = membership \cup rows
             /\ repeated' = repeated \cup (rows \cap membership)
    /\ sync' = [sync EXCEPT !.phase = "seed"]
    /\ UNCHANGED <<instrument, listing, feed, today, crashes>>

\* Cell 11: a seed that is there as an equity is corrected, one after the other.
Misclassified ==
    { e \in Seeds \cap Existing : instrument[sync.existing[e]].asset_class # "etf" }

SyncCorrectClass(e) ==
    /\ sync.phase = "seed" /\ e \in Misclassified
    /\ instrument' = [instrument EXCEPT ![sync.existing[e]].asset_class = "etf"]
    /\ UNCHANGED <<listing, membership, feed, repeated, sync, today, crashes>>

\* Mutant of Unseeded: the seeds are inserted whatever is there.
NotTried == Seeds \ sync.tried

\* A seed that was not there when the run started, whatever cell 9 did since.
Unseeded == Seeds \ (Existing \cup sync.tried)

SyncSeedInstrument(e) ==
    /\ sync.phase = "seed" /\ Misclassified = {} /\ sync.seeding = Nothing /\ e \in Unseeded
    /\ instrument' = Append(instrument, Row(Nothing, "etf", Tag(sync.day, e)))
    /\ sync' = [sync EXCEPT !.seeding = e, !.tried = @ \cup {e}]
    /\ UNCHANGED <<listing, membership, feed, repeated, today, crashes>>

SyncSeedListing ==
    /\ sync.phase = "seed" /\ sync.seeding # Nothing
    /\ \E i \in { j \in Ids : instrument[j].source = Tag(sync.day, sync.seeding) } :
         listing' = listing \cup {[id |-> i, symbol |-> sync.seeding]}
    /\ sync' = [sync EXCEPT !.seeding = Nothing]
    /\ UNCHANGED <<instrument, membership, feed, repeated, today, crashes>>

\* An exception while seeding is logged, and the next seed taken.
SyncSeedFails ==
    /\ sync.phase = "seed" /\ crashes < MaxCrashes
    /\ \/ sync.seeding # Nothing /\ sync' = [sync EXCEPT !.seeding = Nothing]
       \/ /\ sync.seeding = Nothing /\ Misclassified = {}
          /\ \E e \in Unseeded : sync' = [sync EXCEPT !.tried = @ \cup {e}]
    /\ crashes' = crashes + 1
    /\ UNCHANGED <<tables, today>>

FeedRows(ids, known) == { ids[s] : s \in Wanted \cap DOMAIN ids } \ known

\* The end of cell 11.
SyncSeedFeeds ==
    /\ sync.phase = "seed" /\ Misclassified = {} /\ sync.seeding = Nothing /\ Unseeded = {}
    /\ \E ids \in SymbolToId({ Tag(sync.day, e) : e \in Seeds \cup {Nothing} }),
          known \in Reads(feed) :
         LET rows == FeedRows(ids, known)
         IN  /\ feed' = feed \cup rows
             /\ repeated' = repeated \cup { [id |-> i, stream |-> "daily"] : i \in rows \cap feed }
    /\ sync' = IdleSync
    /\ UNCHANGED <<instrument, listing, membership, today, crashes>>

\* The run dies; what it held is gone, the next one starts from the tables.
SyncCrash ==
    /\ sync.phase # "idle" /\ crashes < MaxCrashes
    /\ sync' = IdleSync /\ crashes' = crashes + 1
    /\ UNCHANGED <<tables, today>>

\* A run keeps the date it has started with, so midnight can wait for its end.
NextDay ==
    /\ sync.phase = "idle" /\ today < MaxDay /\ today' = today + 1
    /\ UNCHANGED <<tables, sync, crashes>>

SyncWork ==
    \/ SyncInsertInstruments \/ SyncInsertListings \/ SyncInsertMemberships
    \/ SyncSeedListing \/ SyncSeedFeeds
    \/ \E e \in Seeds : SyncCorrectClass(e) \/ SyncSeedInstrument(e)

\* The tables are empty but for what an earlier version has left, in a batch
\* of its own before the first day.
SyncInit ==
    /\ \E stored \in { SetToSeq(seeds) : seeds \in SUBSET AsEquity } :
         /\ instrument = [n \in DOMAIN stored |-> Row(Nothing, "equity", Tag(0, Nothing))]
         /\ listing = { [id |-> n, symbol |-> stored[n]] : n \in DOMAIN stored }
    /\ membership = {} /\ feed = {} /\ repeated = {}
    /\ sync = IdleSync /\ today = 1 /\ crashes = 0
=============================================================================

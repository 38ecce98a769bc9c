--------------------------- MODULE ReferenceProofs ---------------------------
(***************************************************************************)
(* For every set of symbols, fund holdings and seeds, and any number of    *)
(* crashes, runs of the seeding notebook and late answers.                 *)
(*                                                                         *)
(* SyncInv: what a run has taken for existing is listed, and the batch it  *)
(* reads back holds a row for each new symbol.  RefInv: from the manifest  *)
(* to the table nothing but listings and their mappings; with it, nothing  *)
(* refers to an unlisted row.  OwnerInv: each row has an owner, a FIGI or  *)
(* a seed, and is listed under its symbol; it is inductive where OpenFIGI  *)
(* finds what is inserted.  UniverseInv: a run knows what is listed, so    *)
(* what it lists is new; it is inductive where no fund holds a seed.       *)
(***************************************************************************)
EXTENDS Reference, FiniteSetTheorems, FunctionTheorems, SequenceTheorems, TLAPS

Tags       == [day : Nat, seed : Symbols \cup {Nothing}]
Rows       == [figi : Symbols \cup {Nothing}, asset_class : {"equity", "etf"}, source : Tags]
Listings   == [id : Nat, symbol : Symbols]
Mappings   == [id : Nat, vendor_instrument_id : Symbols]
Existings  == {<<>>} \cup UNION { [S -> Nat] : S \in SUBSET Symbols }
SyncState  == [phase : {"idle", "instrument", "listing", "membership", "seed"},
               existing : Existings, answered : SUBSET Universes, figi : SUBSET Symbols,
               day : Nat \ {0}, tried : SUBSET Seeds, seeding : Seeds \cup {Nothing}]

SyncType ==
    /\ instrument \in Seq(Rows)
    /\ listing \subseteq Listings
    /\ today \in Nat \ {0}
    /\ sync \in SyncState

\* A symbol is taken for existing if it is listed, and a listed row exists.
ListingsExist ==
    /\ \A l \in listing : l.id \in Ids
    /\ \A s \in DOMAIN sync.existing : s \in Symbols /\ sync.existing[s] \in ListedAs(s)

\* When cell 9 reads the batch back, the row of every new symbol is in it.
BatchIsThere ==
    sync.phase = "listing" =>
      \A s \in New : \E i \in Ids : /\ instrument[i].source = Tag(sync.day, Nothing)
                                    /\ instrument[i].figi = FigiOf(s)

SyncInv == SyncType /\ ListingsExist /\ BatchIsThere
-----------------------------------------------------------------------------
LEMMA SetToSeqOnto ==
    ASSUME NEW S, IsFiniteSet(S)
    PROVE  /\ Cardinality(S) \in Nat
           /\ SetToSeq(S) \in [1 .. Cardinality(S) -> S]
           /\ \A s \in S : \E n \in 1 .. Cardinality(S) : SetToSeq(S)[n] = s
           /\ \A m, n \in 1 .. Cardinality(S) : SetToSeq(S)[m] = SetToSeq(S)[n] => m = n
<1> DEFINE n == Cardinality(S)
           f == SetToSeq(S)
<1>1. n \in Nat /\ ExistsBijection(1 .. n, S)
  BY FS_CardinalityType
<1>2. PICK g \in Bijection(1 .. n, S) : TRUE
  BY <1>1 DEF ExistsBijection
<1>3. g \in [1 .. n -> S] /\ IsInjective(g)
  BY <1>2 DEF Bijection, Injection
<1>4. f \in [1 .. n -> S] /\ IsInjective(f)
  BY <1>3 DEF SetToSeq
<1>5. f \in Injection(1 .. n, S)
  BY <1>4 DEF Injection
<1>6. IsFiniteSet(1 .. n) /\ Cardinality(1 .. n) = n
  BY <1>1, FS_Interval
<1>7. f \in Surjection(1 .. n, S)
  BY <1>5, <1>6, FS_Injection
<1> QED BY <1>1, <1>4, <1>7 DEF Surjection, IsInjective

\* The rows an earlier version may have left.
LEMMA SyncInvInit == SyncInit => SyncInv
<1> SUFFICES ASSUME SyncInit PROVE SyncInv
  OBVIOUS
<1>1. PICK seeds \in SUBSET AsEquity :
        /\ instrument = [n \in DOMAIN SetToSeq(seeds) |-> Row(Nothing, "equity", Tag(0, Nothing))]
        /\ listing = { [id |-> n, symbol |-> SetToSeq(seeds)[n]] : n \in DOMAIN SetToSeq(seeds) }
  BY DEF SyncInit
<1>2. IsFiniteSet(seeds) /\ seeds \subseteq Symbols
  BY SyncAssumption, FS_Subset
<1>3. Cardinality(seeds) \in Nat /\ SetToSeq(seeds) \in [1 .. Cardinality(seeds) -> seeds]
  BY <1>2, SetToSeqOnto
<1>4. Row(Nothing, "equity", Tag(0, Nothing)) \in Rows
  BY DEF Row, Rows, Tag, Tags
<1>5. instrument \in Seq(Rows) /\ Ids = 1 .. Cardinality(seeds)
  <2> DEFINE row == Row(Nothing, "equity", Tag(0, Nothing))
  <2>1. instrument = [n \in 1 .. Cardinality(seeds) |-> row]
    BY <1>1, <1>3
  <2> HIDE DEF row
  <2> QED BY <1>3, <1>4, <2>1 DEF Ids, row
<1>6. listing \subseteq Listings /\ \A l \in listing : l.id \in Ids
  BY <1>1, <1>2, <1>3, <1>5 DEF Listings
<1>7. IdleSync \in SyncState
  BY DEF IdleSync, SyncState, Existings
<1> QED BY <1>5, <1>6, <1>7 DEF SyncInit, SyncInv, SyncType, ListingsExist, BatchIsThere, IdleSync

LEMMA MergedSymbols ==
    ASSUME NEW answered \in SUBSET Universes
    PROVE  Merged(answered) \subseteq Symbols /\ Members(answered) \subseteq Symbols
<1>1. \A u \in Universes : Holdings[u] \subseteq Symbols
  BY SyncAssumption
<1>2. Members(answered) \subseteq Symbols
  BY <1>1 DEF Members
<1>3. \A l \in NasdaqInstruments : l.symbol \in Symbols
  BY SyncAssumption DEF NasdaqInstruments, Parsed
<1> QED BY <1>2, <1>3 DEF Merged

\* What cell 8 appends: the rows of the new symbols, in some order.
LEMMA InsertInstrumentsEffect ==
    ASSUME SyncInv, SyncInsertInstruments
    PROVE  /\ instrument' \in Seq(Rows)
           /\ Ids \subseteq Ids' /\ \A i \in Ids : instrument'[i] = instrument[i]
           /\ \A i \in Ids' \ Ids : \E s \in New :
                instrument'[i].figi = FigiOf(s) /\ instrument'[i].source = Tag(sync.day, Nothing)
           /\ \A s \in New : \E i \in Ids' :
                instrument'[i].figi = FigiOf(s) /\ instrument'[i].source = Tag(sync.day, Nothing)
<1> DEFINE order == SetToSeq(New)
           c     == Cardinality(New)
           Made(s) == Row(FigiOf(s), AssetClass(s), Tag(sync.day, Nothing))
           added == [n \in DOMAIN order |-> Made(order[n])]
<1>1. sync \in SyncState /\ instrument \in Seq(Rows)
  BY DEF SyncInv, SyncType
<1>2. New \subseteq Symbols /\ IsFiniteSet(New)
  BY <1>1, MergedSymbols, SyncAssumption, FS_Subset DEF New, SyncState
<1>3. /\ c \in Nat /\ order \in [1 .. c -> New]
      /\ \A s \in New : \E n \in 1 .. c : order[n] = s
  BY <1>2, SetToSeqOnto
<1>4. \A s \in New : Made(s) \in Rows
  BY <1>1, <1>2 DEF Row, Rows, Tag, Tags, FigiOf, AssetClass, SyncState
<1>5. \A s \in New : Made(s).figi = FigiOf(s) /\ Made(s).source = Tag(sync.day, Nothing)
  BY DEF Row
<1>6. instrument' = instrument \o added
  BY DEF SyncInsertInstruments
<1> HIDE DEF Made, order, c
<1>7. /\ added \in Seq(Rows) /\ Len(added) = c
      /\ \A n \in 1 .. c : added[n] = Made(order[n])
  BY <1>3, <1>4
<1> HIDE DEF added
<1>8. Len(instrument) \in Nat
  BY <1>1
<1>9. /\ instrument' \in Seq(Rows) /\ Len(instrument') = Len(instrument) + c
      /\ \A i \in 1 .. Len(instrument) : instrument'[i] = instrument[i]
      /\ \A n \in 1 .. c : instrument'[Len(instrument) + n] = added[n]
  <2>1. /\ instrument \o added \in Seq(Rows)
        /\ Len(instrument \o added) = Len(instrument) + c
        /\ \A i \in 1 .. Len(instrument) + c :
             (instrument \o added)[i] = IF i <= Len(instrument) THEN instrument[i] ELSE added[i - Len(instrument)]
    BY <1>1, <1>7, ConcatProperties
  <2>2. \A i \in 1 .. Len(instrument) :
          i \in 1 .. Len(instrument) + c /\ i <= Len(instrument)
    BY <1>3, <1>8
  <2>3. \A n \in 1 .. c :
          /\ Len(instrument) + n \in 1 .. Len(instrument) + c
          /\ ~(Len(instrument) + n <= Len(instrument))
          /\ Len(instrument) + n - Len(instrument) = n
    BY <1>3, <1>8
  <2> QED BY <1>6, <2>1, <2>2, <2>3
<1>10. Ids \subseteq Ids' /\ \A i \in Ids : instrument'[i] = instrument[i]
  BY <1>3, <1>8, <1>9 DEF Ids
<1>11. ASSUME NEW i \in Ids' \ Ids
       PROVE  \E s \in New : instrument'[i].figi = FigiOf(s) /\ instrument'[i].source = Tag(sync.day, Nothing)
  <2>1. i - Len(instrument) \in 1 .. c /\ Len(instrument) + (i - Len(instrument)) = i
    BY <1>3, <1>8, <1>9, <1>11 DEF Ids
  <2>2. instrument'[i] = Made(order[i - Len(instrument)])
    BY <1>7, <1>9, <2>1
  <2>3. order[i - Len(instrument)] \in New
    BY <1>3, <2>1
  <2> QED BY <1>5, <2>2, <2>3
<1>12. ASSUME NEW s \in New
       PROVE  \E i \in Ids' : instrument'[i].figi = FigiOf(s) /\ instrument'[i].source = Tag(sync.day, Nothing)
  <2>1. PICK n \in 1 .. c : order[n] = s
    BY <1>3
  <2>2. Len(instrument) + n \in Ids'
    BY <1>3, <1>8, <1>9, <2>1 DEF Ids
  <2>3. instrument'[Len(instrument) + n] = Made(s)
    BY <1>7, <1>9, <2>1
  <2> QED BY <1>5, <2>2, <2>3
<1> QED BY <1>9, <1>10, <1>11, <1>12

\* What the seeding appends: one row with a tag of the seed's own.
LEMMA SeedInstrumentEffect ==
    ASSUME SyncInv, NEW e \in Seeds, SyncSeedInstrument(e)
    PROVE  /\ instrument' \in Seq(Rows)
           /\ Ids \subseteq Ids' /\ \A i \in Ids : instrument'[i] = instrument[i]
           /\ \A i \in Ids' \ Ids :
                instrument'[i].figi = Nothing /\ instrument'[i].source = Tag(sync.day, e)
<1> DEFINE row == Row(Nothing, "etf", Tag(sync.day, e))
<1>1. sync \in SyncState /\ instrument \in Seq(Rows)
  BY DEF SyncInv, SyncType
<1>2. row \in Rows /\ row.figi = Nothing /\ row.source = Tag(sync.day, e)
  BY <1>1, SyncAssumption DEF Row, Rows, Tag, Tags, SyncState
<1>3. instrument' = Append(instrument, row)
  BY DEF SyncSeedInstrument
<1> HIDE DEF row
<1>4. /\ instrument' \in Seq(Rows) /\ Len(instrument') = Len(instrument) + 1
      /\ \A i \in 1 .. Len(instrument) : instrument'[i] = instrument[i]
      /\ instrument'[Len(instrument) + 1] = row
  BY <1>1, <1>2, <1>3
<1> QED BY <1>1, <1>2, <1>4 DEF Ids

\* The correction of a seed's asset class leaves everything else of the row.
LEMMA CorrectClassEffect ==
    ASSUME SyncInv, NEW e \in Seeds, SyncCorrectClass(e)
    PROVE  /\ instrument' \in Seq(Rows) /\ Ids' = Ids
           /\ \A i \in Ids : instrument'[i].figi = instrument[i].figi /\ instrument'[i].source = instrument[i].source
<1> DEFINE j   == sync.existing[e]
           row == [instrument[j] EXCEPT !.asset_class = "etf"]
<1>1. instrument \in Seq(Rows)
  BY DEF SyncInv, SyncType
<1>2. j \in Ids
  BY DEF SyncCorrectClass, Misclassified, Existing, SyncInv, ListingsExist, ListedAs
<1>3. instrument[j] \in Rows
  BY <1>1, <1>2 DEF Ids
<1>4. row \in Rows /\ row.figi = instrument[j].figi /\ row.source = instrument[j].source
  BY <1>3 DEF Rows
<1>5. instrument' = [instrument EXCEPT ![j] = row]
  BY DEF SyncCorrectClass
<1> HIDE DEF row, j
<1> QED BY <1>1, <1>2, <1>4, <1>5 DEF Ids

\* Rows are appended, and keep their FIGI and their batch.
LEMMA InstrumentsNext ==
    ASSUME SyncInv, [Next]_vars
    PROVE  /\ instrument' \in Seq(Rows)
           /\ \A i \in Ids : /\ i \in Ids'
                             /\ instrument'[i].figi = instrument[i].figi
                             /\ instrument'[i].source = instrument[i].source
<1>1. CASE UNCHANGED instrument
  BY <1>1 DEF SyncInv, SyncType, Ids
<1>2. CASE SyncInsertInstruments
  BY <1>2, InsertInstrumentsEffect
<1>3. ASSUME NEW e \in Seeds, SyncSeedInstrument(e) \/ SyncCorrectClass(e)
      PROVE  /\ instrument' \in Seq(Rows)
             /\ \A i \in Ids : /\ i \in Ids'
                               /\ instrument'[i].figi = instrument[i].figi
                               /\ instrument'[i].source = instrument[i].source
  BY <1>3, SeedInstrumentEffect, CorrectClassEffect
<1> QED BY <1>1, <1>2, <1>3
        DEF Next, SyncNext, SyncWork, SyncStart, SyncInsertListings, SyncInsertMemberships, SyncSeedListing,
            SyncSeedFeeds, SyncSeedFails, SyncCrash, NextDay, SeedingNext, SeederStart, SeederPoll, SeederStops,
            SeederLoad, AgentQualify, AgentRefuses, vars, syncVars, tables

\* What cell 9 lists: each new symbol under a row of the batch with its FIGI.
LEMMA InsertListingsEffect ==
    ASSUME SyncInv, SyncInsertListings
    PROVE  \E at : /\ listing' = listing \cup { [id |-> at[s], symbol |-> s] : s \in New }
                   /\ \A s \in New : /\ s \in Symbols
                                     /\ at[s] \in Ids
                                     /\ instrument[at[s]].source = Tag(sync.day, Nothing)
                                     /\ instrument[at[s]].figi = FigiOf(s)
<1>1. PICK inserted \in Collected(Recovered) :
        listing' = listing \cup { [id |-> inserted[FigiOf(s)], symbol |-> s] : s \in New }
  BY DEF SyncInsertListings
<1>2. New \subseteq Symbols
  BY MergedSymbols DEF New, SyncInv, SyncType, SyncState
<1> DEFINE at == [s \in New |-> inserted[FigiOf(s)]]
<1>3. ASSUME NEW s \in New
      PROVE  inserted[FigiOf(s)] \in Recovered[FigiOf(s)]
  <2>1. FigiOf(s) \in Symbols \cup {Nothing}
    BY <1>2 DEF FigiOf
  <2>2. PICK i \in Ids : instrument[i].source = Tag(sync.day, Nothing) /\ instrument[i].figi = FigiOf(s)
    BY DEF SyncInv, BatchIsThere, SyncInsertListings
  <2>3. FigiOf(s) \in DOMAIN Recovered /\ Recovered[FigiOf(s)] # {}
    BY <2>1, <2>2 DEF Recovered
  <2> QED BY <1>1, <2>3 DEF Collected
<1>4. ASSUME NEW s \in New
      PROVE  /\ at[s] \in Ids
             /\ instrument[at[s]].source = Tag(sync.day, Nothing)
             /\ instrument[at[s]].figi = FigiOf(s)
  <2>1. FigiOf(s) \in Symbols \cup {Nothing}
    BY <1>2 DEF FigiOf
  <2>2. Recovered[FigiOf(s)] = { i \in Ids : instrument[i].source = Tag(sync.day, Nothing) /\ instrument[i].figi = FigiOf(s) }
    BY <2>1 DEF Recovered
  <2> QED BY <1>3, <2>2
<1>5. listing' = listing \cup { [id |-> at[s], symbol |-> s] : s \in New }
  BY <1>1
<1> QED BY <1>2, <1>4, <1>5

\* The listing of a seed: under a row with its tag.
LEMMA SeedListingEffect ==
    ASSUME SyncInv, SyncSeedListing
    PROVE  \E i \in Ids : /\ listing' = listing \cup {[id |-> i, symbol |-> sync.seeding]}
                          /\ instrument[i].source = Tag(sync.day, sync.seeding)
                          /\ sync.seeding \in Seeds
  BY DEF SyncSeedListing, SyncInv, SyncType, SyncState

LEMMA ListingsNext ==
    ASSUME SyncInv, [Next]_vars
    PROVE  /\ listing \subseteq listing'
           /\ \A l \in listing' : l \in Listings /\ l.id \in Ids'
<1>1. \A l \in listing : l \in Listings /\ l.id \in Ids'
  BY InstrumentsNext DEF SyncInv, SyncType, ListingsExist
<1>2. CASE UNCHANGED listing
  BY <1>1, <1>2
<1>3. Ids \subseteq Nat
  BY DEF SyncInv, SyncType, Ids
<1>4. CASE SyncInsertListings
  <2>1. PICK at : /\ listing' = listing \cup { [id |-> at[s], symbol |-> s] : s \in New }
                  /\ \A s \in New : s \in Symbols /\ at[s] \in Ids
    BY <1>4, InsertListingsEffect
  <2>2. \A s \in New : at[s] \in Nat /\ at[s] \in Ids'
    BY <1>3, <2>1, InstrumentsNext
  <2>3. \A l \in listing' \ listing : \E s \in New : l = [id |-> at[s], symbol |-> s]
    BY <2>1
  <2>4. \A l \in listing' \ listing : l \in Listings /\ l.id \in Ids'
    BY <2>1, <2>2, <2>3 DEF Listings
  <2> QED BY <1>1, <2>1, <2>4
<1>5. CASE SyncSeedListing
  <2>1. PICK i \in Ids : listing' = listing \cup {[id |-> i, symbol |-> sync.seeding]} /\ sync.seeding \in Seeds
    BY <1>5, SeedListingEffect
  <2>2. sync.seeding \in Symbols
    BY <2>1, SyncAssumption
  <2> QED BY <1>1, <1>3, <2>1, <2>2, InstrumentsNext DEF Listings
<1> QED BY <1>2, <1>4, <1>5
        DEF Next, SyncNext, SyncWork, SyncStart, SyncInsertInstruments, SyncInsertMemberships, SyncCorrectClass,
            SyncSeedInstrument, SyncSeedFeeds, SyncSeedFails, SyncCrash, NextDay, SeedingNext, SeederStart,
            SeederPoll, SeederStops, SeederLoad, AgentQualify, AgentRefuses, vars, syncVars, tables

\* The tables and the run of the synchronisation are its own.
LEMMA SyncOrNot ==
    ASSUME [Next]_vars
    PROVE  SyncNext \/ UNCHANGED syncVars
<1>1. SeedingNext => UNCHANGED syncVars
  BY DEF SeedingNext, SeederStart, SeederPoll, SeederStops, SeederLoad, AgentQualify, AgentRefuses
<1> QED BY <1>1 DEF Next, vars

\* The steps by which a run goes on keep what it has found out at its start.
SyncGoesOn ==
    \/ SyncInsertInstruments \/ SyncInsertListings \/ SyncInsertMemberships \/ SyncSeedListing \/ SyncSeedFails
    \/ \E e \in Seeds : SyncSeedInstrument(e)

LEMMA SyncGoesOnEffect ==
    ASSUME SyncInv, SyncGoesOn
    PROVE  /\ sync' \in SyncState /\ today' = today
           /\ sync'.existing = sync.existing /\ sync'.answered = sync.answered
           /\ sync'.figi = sync.figi /\ sync'.day = sync.day
           /\ sync'.phase = "listing" => SyncInsertInstruments
<1>1. sync \in SyncState
  BY DEF SyncInv, SyncType
<1>2. CASE SyncInsertInstruments
  BY <1>1, <1>2 DEF SyncInsertInstruments, SyncState
<1>3. CASE SyncInsertListings \/ SyncInsertMemberships
  BY <1>1, <1>3 DEF SyncInsertListings, SyncInsertMemberships, SyncState
<1>4. CASE SyncSeedListing
  BY <1>1, <1>4 DEF SyncSeedListing, SyncState
<1>5. ASSUME NEW e \in Seeds, SyncSeedInstrument(e)
      PROVE  /\ sync' \in SyncState /\ today' = today
             /\ sync'.existing = sync.existing /\ sync'.answered = sync.answered
             /\ sync'.figi = sync.figi /\ sync'.day = sync.day
             /\ sync'.phase # "listing"
  <2>1. sync' = [sync EXCEPT !.seeding = e, !.tried = sync.tried \cup {e}] /\ sync.phase = "seed"
    BY <1>5 DEF SyncSeedInstrument
  <2>2. sync.tried \cup {e} \subseteq Seeds
    BY <1>1 DEF SyncState
  <2> QED BY <1>1, <1>5, <2>1, <2>2 DEF SyncSeedInstrument, SyncState
<1>6. CASE SyncSeedFails /\ sync' = [sync EXCEPT !.seeding = Nothing]
  BY <1>1, <1>6 DEF SyncSeedFails, SyncState
<1>7. ASSUME NEW e \in Seeds, SyncSeedFails, sync' = [sync EXCEPT !.tried = sync.tried \cup {e}]
      PROVE  /\ sync' \in SyncState /\ today' = today
             /\ sync'.existing = sync.existing /\ sync'.answered = sync.answered
             /\ sync'.figi = sync.figi /\ sync'.day = sync.day
             /\ sync'.phase # "listing"
  BY <1>1, <1>7 DEF SyncSeedFails, SyncState
<1>8. CASE SyncSeedFails
  BY <1>6, <1>7, <1>8 DEF SyncSeedFails, Unseeded
<1> QED BY <1>2, <1>3, <1>4, <1>5, <1>8 DEF SyncGoesOn

\* What a run finds out at its start.
LEMMA SyncStartEffect ==
    ASSUME SyncInv, NEW answered \in SUBSET Universes, SyncStart(answered)
    PROVE  /\ sync' \in SyncState /\ today' = today
           /\ sync'.phase \in {"instrument", "membership"}
           /\ sync'.existing \in Collected([s \in Symbols |-> ListedAs(s)])
           /\ sync'.answered = answered /\ sync'.figi \in Enrichments(Members(answered))
           /\ sync'.tried = {} /\ sync'.seeding = Nothing
           /\ sync'.day = today
           /\ sync'.phase = "membership" => Merged(answered) \subseteq DOMAIN sync'.existing
<1>1. PICK existing \in Collected([s \in Symbols |-> ListedAs(s)]), figi \in Enrichments(Members(answered)) :
        sync' = [IdleSync EXCEPT !.phase = IF Merged(answered) \subseteq DOMAIN existing
                                           THEN "membership" ELSE "instrument",
                                 !.existing = existing, !.answered = answered,
                                 !.figi = figi, !.day = today]
  BY DEF SyncStart
<1>2. existing \in Existings
  <2>1. \A s \in Symbols : ListedAs(s) \subseteq Nat
    BY DEF ListedAs, SyncInv, SyncType, Listings
  <2>2. \A s \in DOMAIN existing : s \in Symbols /\ existing[s] \in ListedAs(s)
    BY DEF Collected
  <2>3. existing = [s \in DOMAIN existing |-> existing[s]]
    BY DEF Collected
  <2> QED BY <2>1, <2>2, <2>3 DEF Existings
<1>3. figi \subseteq Symbols
  BY MergedSymbols DEF Enrichments
<1>4. /\ sync'.phase = IF Merged(answered) \subseteq DOMAIN existing THEN "membership" ELSE "instrument"
      /\ sync'.existing = existing /\ sync'.answered = answered /\ sync'.figi = figi /\ sync'.day = today
      /\ sync'.tried = {} /\ sync'.seeding = Nothing
  BY <1>1 DEF IdleSync
<1>5. sync' = [phase |-> sync'.phase, existing |-> sync'.existing, answered |-> sync'.answered,
               figi |-> sync'.figi, day |-> sync'.day, tried |-> sync'.tried, seeding |-> sync'.seeding]
  BY <1>1 DEF IdleSync
<1>6. sync' \in SyncState
  BY <1>2, <1>3, <1>4, <1>5 DEF SyncState, SyncInv, SyncType
<1> QED BY <1>4, <1>6 DEF SyncStart

\* What a run has taken for existing stays listed.
LEMMA SyncInvStep == SyncInv /\ [Next]_vars => SyncInv'
<1> SUFFICES ASSUME SyncInv, [Next]_vars PROVE SyncInv'
  OBVIOUS
<1>1. /\ instrument' \in Seq(Rows) /\ listing' \subseteq Listings
      /\ \A l \in listing' : l.id \in Ids'
  BY InstrumentsNext, ListingsNext
<1>2. \A s : ListedAs(s) \subseteq ListedAs(s)'
  BY ListingsNext DEF ListedAs
<1>3. sync \in SyncState /\ today \in Nat \ {0}
  BY DEF SyncInv, SyncType
<1>4. ASSUME NEW answered \in SUBSET Universes, SyncStart(answered) PROVE SyncInv'
  <2>1. \A s \in DOMAIN sync'.existing : s \in Symbols /\ sync'.existing[s] \in ListedAs(s)
    BY <1>4, SyncStartEffect DEF Collected
  <2> QED BY <1>1, <1>2, <1>3, <1>4, <2>1, SyncStartEffect DEF SyncInv, SyncType, ListingsExist, BatchIsThere
<1>5. CASE SyncGoesOn
  <2>1. /\ sync' \in SyncState /\ today' = today
        /\ sync'.existing = sync.existing /\ New' = New /\ \A s : FigiOf(s)' = FigiOf(s)
        /\ sync'.day = sync.day
        /\ sync'.phase = "listing" => SyncInsertInstruments
    BY <1>5, SyncGoesOnEffect DEF New, Existing, FigiOf
  <2>2. BatchIsThere'
    BY <2>1, InsertInstrumentsEffect DEF BatchIsThere
  <2> QED BY <1>1, <1>2, <1>3, <2>1, <2>2 DEF SyncInv, SyncType, ListingsExist
<1>6. CASE sync' = IdleSync /\ today' = today
  BY <1>1, <1>3, <1>6 DEF SyncInv, SyncType, ListingsExist, BatchIsThere, IdleSync, SyncState, Existings
<1>7. CASE sync' = sync /\ today' \in Nat \ {0}
  <2>1. New' = New /\ \A s : FigiOf(s)' = FigiOf(s)
    BY <1>7 DEF New, Existing, FigiOf
  <2>2. BatchIsThere'
    BY <1>7, <2>1, InstrumentsNext DEF BatchIsThere, SyncInv
  <2> QED BY <1>1, <1>2, <1>3, <1>7, <2>2 DEF SyncInv, SyncType, ListingsExist
<1>8. SyncNext => \/ \E answered \in SUBSET Universes : SyncStart(answered)
                  \/ SyncGoesOn
                  \/ sync' = IdleSync /\ today' = today
                  \/ sync' = sync /\ today' \in Nat \ {0}
  <2>1. SyncSeedFeeds \/ SyncCrash => sync' = IdleSync /\ today' = today
    BY DEF SyncSeedFeeds, SyncCrash
  <2>2. NextDay => sync' = sync /\ today' \in Nat \ {0}
    BY <1>3 DEF NextDay
  <2>3. \A e \in Seeds : SyncCorrectClass(e) => sync' = sync /\ today' \in Nat \ {0}
    BY <1>3 DEF SyncCorrectClass
  <2> QED BY <2>1, <2>2, <2>3 DEF SyncNext, SyncWork, SyncGoesOn
<1> QED BY <1>3, <1>4, <1>5, <1>6, <1>7, <1>8, SyncOrNot DEF syncVars
-----------------------------------------------------------------------------
(* What the other tables refer to.                                         *)

Receipts    == [instruments : SUBSET Listings, pending : BOOLEAN,
                done : {Nothing} \cup SUBSET Mappings, failed : BOOLEAN]
SeederState == [phase : {"idle", "wait", "load"}, key : Nat, staged : SUBSET Mappings]

SeedingType ==
    /\ vendor_id \subseteq Mappings
    /\ request \in Seq(Receipts)
    /\ seeder \in [Seeders -> SeederState]
    /\ \A n \in Seeders : seeder[n].phase # "idle" => seeder[n].key \in DOMAIN request

ListedIds == { l.id : l \in listing }

\* A mapping is that of a listing: its vendor id is the symbol listed.
Backed(m) == [id |-> m.id, symbol |-> m.vendor_instrument_id] \in listing

\* From the manifest to the table, nothing but listings and their mappings.
MappingsAreBacked ==
    /\ \A k \in DOMAIN request :
         /\ request[k].instruments \subseteq listing
         /\ request[k].done # Nothing => \A m \in request[k].done : Backed(m)
    /\ \A n \in Seeders : \A m \in seeder[n].staged : Backed(m)
    /\ \A v \in vendor_id : Backed(v)

RefersToListed ==
    /\ feed \subseteq ListedIds
    /\ \A m \in membership : m.id \in ListedIds

RefInv == SeedingType /\ MappingsAreBacked /\ RefersToListed

LEMMA RefInit == Init => RefInv
<1> SUFFICES ASSUME Init PROVE RefInv
  OBVIOUS
<1>1. IdleSeeder \in SeederState
  BY DEF IdleSeeder, SeederState
<1> QED BY <1>1 DEF Init, SyncInit, SeedingInit, RefInv, SeedingType, MappingsAreBacked, RefersToListed, IdleSeeder

\* symbol_to_id holds listed ids, under the symbols they are listed with.
LEMMA SymbolToIdListed ==
    ASSUME SyncInv, NEW tags, NEW ids \in SymbolToId(tags)
    PROVE  \A s \in DOMAIN ids : s \in Symbols /\ ids[s] \in ListedAs(s)
<1> DEFINE inserted(s) == { i \in ListedAs(s) : instrument[i].source \in tags }
           values == [s \in Symbols |-> IF inserted(s) # {} THEN inserted(s)
                                        ELSE IF s \in Existing THEN {sync.existing[s]} ELSE {}]
<1>1. ids \in Collected(values)
  BY DEF SymbolToId
<1>2. \A s \in DOMAIN ids : s \in DOMAIN values /\ ids[s] \in values[s]
  BY <1>1 DEF Collected
<1>3. \A s \in Symbols : values[s] \subseteq ListedAs(s)
  BY DEF SyncInv, ListingsExist, Existing
<1> QED BY <1>2, <1>3

LEMMA ListedAsListed ==
    ASSUME NEW s
    PROVE  ListedAs(s) \subseteq ListedIds
  BY DEF ListedAs, ListedIds

LEMMA RefersToListedStep ==
    ASSUME SyncInv, RefersToListed, [Next]_vars
    PROVE  RefersToListed'
<1>1. ListedIds \subseteq ListedIds'
  BY ListingsNext DEF ListedIds
<1>2. CASE UNCHANGED <<membership, feed>>
  BY <1>1, <1>2 DEF RefersToListed
<1>3. CASE SyncInsertMemberships
  <2>1. PICK ids \in SymbolToId(IF New = {} THEN {} ELSE {Tag(sync.day, Nothing)}),
             known \in Reads({ m \in membership : m.is_active }) :
          membership' = membership \cup MembershipRows(ids, known)
    BY <1>3 DEF SyncInsertMemberships
  <2>2. \A m \in MembershipRows(ids, known) : \E s \in DOMAIN ids : m.id = ids[s]
    BY DEF MembershipRows, Memberships
  <2>3. \A m \in MembershipRows(ids, known) : m.id \in ListedIds
    BY <2>2, SymbolToIdListed, ListedAsListed
  <2>4. UNCHANGED feed
    BY <1>3 DEF SyncInsertMemberships
  <2> QED BY <1>1, <2>1, <2>3, <2>4 DEF RefersToListed
<1>4. CASE SyncSeedFeeds
  <2>1. PICK ids \in SymbolToId({ Tag(sync.day, e) : e \in Seeds \cup {Nothing} }), known \in Reads(feed) :
          feed' = feed \cup FeedRows(ids, known)
    BY <1>4 DEF SyncSeedFeeds
  <2>2. FeedRows(ids, known) \subseteq ListedIds
    BY SymbolToIdListed, ListedAsListed DEF FeedRows
  <2>3. UNCHANGED membership
    BY <1>4 DEF SyncSeedFeeds
  <2> QED BY <1>1, <2>1, <2>2, <2>3 DEF RefersToListed
<1>5. SyncNext => UNCHANGED <<membership, feed>> \/ SyncInsertMemberships \/ SyncSeedFeeds
  BY DEF SyncNext, SyncWork, SyncStart, SyncInsertInstruments, SyncInsertListings, SyncSeedListing, SyncCorrectClass,
         SyncSeedInstrument, SyncSeedFails, SyncCrash, NextDay, tables
<1>6. UNCHANGED syncVars => UNCHANGED <<membership, feed>>
  BY DEF syncVars, tables
<1> QED BY <1>2, <1>3, <1>4, <1>5, <1>6, SyncOrNot

\* What is backed stays backed.
LEMMA BackedStays ==
    ASSUME SyncInv, [Next]_vars
    PROVE  \A m : Backed(m) => Backed(m)'
  BY ListingsNext DEF Backed

\* A request's row is replaced; what was put in it is still there.
LEMMA AgentStep ==
    ASSUME SyncInv, RefInv, [Next]_vars, NEW k \in DOMAIN request, NEW receipt \in Receipts,
           request' = [request EXCEPT ![k] = receipt], UNCHANGED <<vendor_id, seeder, listing>>,
           receipt.instruments = request[k].instruments,
           receipt.done # Nothing => \A m \in receipt.done : Backed(m)
    PROVE  SeedingType' /\ MappingsAreBacked'
<1>1. request' \in Seq(Receipts) /\ DOMAIN request' = DOMAIN request
  BY DEF RefInv, SeedingType
<1>2. \A j \in DOMAIN request : request'[j] = IF j = k THEN receipt ELSE request[j]
  BY DEF RefInv, SeedingType
<1>3. \A m : Backed(m)' <=> Backed(m)
  BY DEF Backed
<1> QED BY <1>1, <1>2, <1>3 DEF RefInv, SeedingType, MappingsAreBacked

\* A run of the notebook goes on; it stages what is backed.
LEMMA SeederStep ==
    ASSUME SyncInv, RefInv, [Next]_vars, NEW n \in Seeders, NEW run \in SeederState,
           seeder' = [seeder EXCEPT ![n] = run], UNCHANGED listing, \A m \in run.staged : Backed(m),
           DOMAIN request \subseteq DOMAIN request', run.phase # "idle" => run.key \in DOMAIN request'
    PROVE  /\ seeder' \in [Seeders -> SeederState]
           /\ \A s \in Seeders : \A m \in seeder'[s].staged : Backed(m)'
           /\ \A s \in Seeders : seeder'[s].phase # "idle" => seeder'[s].key \in DOMAIN request'
<1>1. \A s \in Seeders : seeder'[s] = IF s = n THEN run ELSE seeder[s]
  BY DEF RefInv, SeedingType
<1>2. \A m : Backed(m)' <=> Backed(m)
  BY DEF Backed
<1> QED BY <1>1, <1>2 DEF RefInv, SeedingType, MappingsAreBacked

LEMMA SeedingStep ==
    ASSUME SyncInv, RefInv, [Next]_vars
    PROVE  SeedingType' /\ MappingsAreBacked'
<1>1. CASE UNCHANGED seedVars
  BY <1>1, BackedStays, ListingsNext DEF RefInv, SeedingType, MappingsAreBacked, seedVars
<1>2. request \in Seq(Receipts) /\ seeder \in [Seeders -> SeederState] /\ vendor_id \subseteq Mappings
  BY DEF RefInv, SeedingType
<1>3. listing \subseteq Listings
  BY DEF SyncInv, SyncType
<1>4. IdleSeeder \in SeederState /\ IdleSeeder.staged = {} /\ IdleSeeder.phase = "idle"
  BY DEF IdleSeeder, SeederState
<1>5. ASSUME NEW n \in Seeders, SeederStart(n) PROVE SeedingType' /\ MappingsAreBacked'
  <2> DEFINE receipt == [instruments |-> Unmapped, pending |-> TRUE, done |-> Nothing, failed |-> FALSE]
             run     == [IdleSeeder EXCEPT !.phase = "wait", !.key = Len(request) + 1]
  <2>1. Unmapped \subseteq listing
    BY DEF Unmapped
  <2>2. receipt \in Receipts /\ receipt.instruments \subseteq listing /\ receipt.done = Nothing
    BY <1>3, <2>1 DEF Receipts
  <2>3. run \in SeederState /\ run.staged = {} /\ run.key = Len(request) + 1
    <3>1. Len(request) + 1 \in Nat
      BY <1>2
    <3>2. run \in SeederState
      BY <1>4, <3>1 DEF SeederState
    <3>3. run.staged = {} /\ run.key = Len(request) + 1
      BY <1>4 DEF SeederState
    <3> QED BY <3>2, <3>3
  <2>4. request' = Append(request, receipt) /\ seeder' = [seeder EXCEPT ![n] = run]
        /\ UNCHANGED <<vendor_id, listing>>
    BY <1>5 DEF SeederStart, syncVars, tables
  <2> HIDE DEF receipt, run
  <2>5. /\ request' \in Seq(Receipts)
        /\ DOMAIN request \subseteq DOMAIN request' /\ Len(request) + 1 \in DOMAIN request'
        /\ \A k \in DOMAIN request' : request'[k] = receipt \/ (k \in DOMAIN request /\ request'[k] = request[k])
    BY <1>2, <2>2, <2>4
  <2>6. /\ seeder' \in [Seeders -> SeederState]
        /\ \A s \in Seeders : \A m \in seeder'[s].staged : Backed(m)'
        /\ \A s \in Seeders : seeder'[s].phase # "idle" => seeder'[s].key \in DOMAIN request'
    BY <2>3, <2>4, <2>5, SeederStep
  <2>7. \A k \in DOMAIN request' :
          /\ request'[k].instruments \subseteq listing'
          /\ request'[k].done # Nothing => \A m \in request'[k].done : Backed(m)'
    BY <2>2, <2>4, <2>5 DEF RefInv, MappingsAreBacked, Backed
  <2>8. \A v \in vendor_id' : Backed(v)'
    BY <2>4 DEF RefInv, MappingsAreBacked, Backed
  <2>9. MappingsAreBacked'
    BY <2>6, <2>7, <2>8 DEF MappingsAreBacked
  <2>10. SeedingType'
    BY <1>2, <2>4, <2>5, <2>6 DEF SeedingType
  <2> QED BY <2>9, <2>10
<1>6. ASSUME NEW n \in Seeders, NEW run \in SeederState, seeder' = [seeder EXCEPT ![n] = run],
             \A m \in run.staged : Backed(m), run.phase # "idle" => run.key \in DOMAIN request,
             UNCHANGED <<request, syncVars>>,
             vendor_id' \subseteq vendor_id \cup seeder[n].staged
      PROVE  SeedingType' /\ MappingsAreBacked'
  <2>1. /\ seeder' \in [Seeders -> SeederState]
        /\ \A s \in Seeders : \A m \in seeder'[s].staged : Backed(m)'
        /\ \A s \in Seeders : seeder'[s].phase # "idle" => seeder'[s].key \in DOMAIN request'
    BY <1>6, SeederStep DEF syncVars, tables
  <2>2. vendor_id' \subseteq Mappings /\ \A v \in vendor_id' : Backed(v)
    BY <1>2, <1>6 DEF RefInv, MappingsAreBacked, SeederState
  <2>3. \A k \in DOMAIN request' :
          /\ request'[k].instruments \subseteq listing'
          /\ request'[k].done # Nothing => \A m \in request'[k].done : Backed(m)'
    BY <1>6, BackedStays, ListingsNext DEF RefInv, MappingsAreBacked
  <2>4. \A v \in vendor_id' : Backed(v)'
    BY <2>2, BackedStays
  <2>5. request' \in Seq(Receipts)
    BY <1>2, <1>6
  <2>6. MappingsAreBacked'
    BY <2>1, <2>3, <2>4 DEF MappingsAreBacked
  <2>7. SeedingType'
    BY <2>1, <2>2, <2>5 DEF SeedingType
  <2> QED BY <2>6, <2>7
<1>7. ASSUME NEW n \in Seeders, SeederPoll(n) PROVE SeedingType' /\ MappingsAreBacked'
  <2> DEFINE receipt == request[seeder[n].key]
  <2>1. CASE receipt.done # Nothing /\ seeder' = [seeder EXCEPT ![n].phase = "load", ![n].staged = receipt.done]
    <3> DEFINE run == [seeder[n] EXCEPT !.phase = "load", !.staged = receipt.done]
    <3>1. seeder[n].key \in DOMAIN request
      BY <1>7 DEF SeederPoll, RefInv, SeedingType
    <3>2. receipt.done \in SUBSET Mappings /\ \A m \in receipt.done : Backed(m)
      <4>1. receipt \in Receipts /\ receipt.done # Nothing
        BY <1>2, <2>1, <3>1
      <4>2. receipt.done \in SUBSET Mappings
        BY <4>1 DEF Receipts
      <4>3. \A m \in receipt.done : Backed(m)
        BY <3>1, <4>1 DEF RefInv, MappingsAreBacked
      <4> QED BY <4>2, <4>3
    <3>3. run \in SeederState /\ run.staged = receipt.done /\ run.key = seeder[n].key
      BY <1>2, <3>2 DEF SeederState
    <3>4. seeder' = [seeder EXCEPT ![n] = run]
      BY <2>1
    <3> HIDE DEF run, receipt
    <3> QED BY <1>6, <1>7, <3>1, <3>2, <3>3, <3>4 DEF SeederPoll
  <2>2. CASE seeder' = [seeder EXCEPT ![n] = IdleSeeder]
    BY <1>4, <1>6, <1>7, <2>2 DEF SeederPoll
  <2> QED BY <1>7, <2>1, <2>2 DEF SeederPoll
<1>8. ASSUME NEW n \in Seeders, SeederStops(n) PROVE SeedingType' /\ MappingsAreBacked'
  BY <1>4, <1>6, <1>8 DEF SeederStops
<1>9. ASSUME NEW n \in Seeders, SeederLoad(n) PROVE SeedingType' /\ MappingsAreBacked'
  BY <1>4, <1>6, <1>9 DEF SeederLoad, Loadable
<1>10. ASSUME NEW k \in DOMAIN request, NEW failures \in SUBSET Doubtful, NEW dies \in BOOLEAN,
              AgentQualify(k, failures, dies)
       PROVE  SeedingType' /\ MappingsAreBacked'
  <2> DEFINE done == { [id |-> r.id, vendor_instrument_id |-> r.symbol] :
                         r \in { l \in request[k].instruments : l.symbol \notin failures } }
             receipt == [request[k] EXCEPT !.pending = dies, !.done = done]
  <2>1. request[k] \in Receipts /\ request[k].instruments \subseteq listing
    BY <1>2 DEF RefInv, MappingsAreBacked
  <2>2. done \subseteq Mappings
    BY <1>3, <2>1 DEF Listings, Mappings
  <2>3. \A m \in done : Backed(m)
    <3> SUFFICES ASSUME NEW r \in request[k].instruments
                 PROVE  Backed([id |-> r.id, vendor_instrument_id |-> r.symbol])
      OBVIOUS
    <3>1. r = [id |-> r.id, symbol |-> r.symbol] /\ r \in listing
      BY <1>3, <2>1 DEF Listings
    <3> QED BY <3>1 DEF Backed
  <2> HIDE DEF done
  <2>4. receipt \in Receipts /\ receipt.instruments = request[k].instruments /\ receipt.done = done
    BY <2>1, <2>2 DEF Receipts
  <2>5. request' = [request EXCEPT ![k] = receipt]
    BY <1>10 DEF AgentQualify, done
  <2> HIDE DEF receipt
  <2> QED BY <1>10, <2>3, <2>4, <2>5, AgentStep DEF AgentQualify, syncVars, tables
<1>11. ASSUME NEW k \in DOMAIN request, AgentRefuses(k) PROVE SeedingType' /\ MappingsAreBacked'
  <2> DEFINE receipt == [request[k] EXCEPT !.pending = FALSE, !.failed = TRUE]
  <2>1. request[k] \in Receipts
    BY <1>2
  <2>2. /\ receipt \in Receipts /\ receipt.instruments = request[k].instruments
        /\ receipt.done = request[k].done
    BY <2>1 DEF Receipts
  <2>3. request' = [request EXCEPT ![k] = receipt]
    BY <1>11 DEF AgentRefuses
  <2>4. request[k].done # Nothing => \A m \in request[k].done : Backed(m)
    BY DEF RefInv, MappingsAreBacked
  <2> HIDE DEF receipt
  <2> QED BY <1>11, <2>2, <2>3, <2>4, AgentStep DEF AgentRefuses, syncVars, tables
<1> QED BY <1>1, <1>5, <1>7, <1>8, <1>9, <1>10, <1>11 DEF Next, SeedingNext, vars

LEMMA RefStep == SyncInv /\ RefInv /\ [Next]_vars => RefInv'
  BY SeedingStep, RefersToListedStep DEF RefInv

\* Nothing refers to the rows that a dead run left without a listing, whatever
\* dies, fails to be read or comes late.
THEOREM ReferencesAreListed == Spec => []NothingRefersToUnlisted
<1>1. Init => SyncInv /\ RefInv
  BY SyncInvInit, RefInit DEF Init
<1>2. (SyncInv /\ RefInv) /\ [Next]_vars => (SyncInv /\ RefInv)'
  BY SyncInvStep, RefStep
<1>3. SyncInv /\ RefInv => NothingRefersToUnlisted
  <2> SUFFICES ASSUME SyncInv, RefInv, NEW i \in Ids, \A l \in listing : l.id # i
               PROVE  i \notin feed /\ \A m \in membership \cup vendor_id : m.id # i
    BY DEF NothingRefersToUnlisted
  <2>1. i \notin ListedIds
    BY DEF ListedIds
  <2>2. \A v \in vendor_id : v.id \in ListedIds
    <3> SUFFICES ASSUME NEW v \in vendor_id PROVE \E l \in listing : v.id = l.id
      BY DEF ListedIds
    <3>1. [id |-> v.id, symbol |-> v.vendor_instrument_id] \in listing
      BY DEF RefInv, MappingsAreBacked, Backed
    <3> QED BY <3>1
  <2>3. \A m \in membership : m.id \in ListedIds
    BY DEF RefInv, RefersToListed
  <2>4. feed \subseteq ListedIds
    BY DEF RefInv, RefersToListed
  <2> QED BY <2>1, <2>2, <2>3, <2>4
<1> QED BY <1>1, <1>2, <1>3, PTL DEF Spec
-----------------------------------------------------------------------------
(* What is appended twice.                                                 *)

NoReadFails == "read" \notin Faults

\* The rows of a membership have the three fields.
MembershipType == \A m \in membership : m = [id |-> m.id, universe_code |-> m.universe_code, is_active |-> m.is_active]

LEMMA MembershipTypeStep ==
    ASSUME MembershipType, [Next]_vars
    PROVE  MembershipType'
<1>1. CASE UNCHANGED membership
  BY <1>1 DEF MembershipType
<1>2. CASE SyncInsertMemberships
  <2>1. PICK ids, known : membership' = membership \cup MembershipRows(ids, known)
    BY <1>2 DEF SyncInsertMemberships
  <2>2. \A m \in MembershipRows(ids, known) :
          m = [id |-> m.id, universe_code |-> m.universe_code, is_active |-> m.is_active]
    BY DEF MembershipRows, Memberships
  <2> QED BY <2>1, <2>2 DEF MembershipType
<1> QED BY <1>1, <1>2, SyncOrNot
        DEF SyncNext, SyncWork, SyncStart, SyncInsertInstruments, SyncInsertListings, SyncSeedListing,
            SyncCorrectClass, SyncSeedInstrument, SyncSeedFeeds, SyncSeedFails, SyncCrash, NextDay, tables, syncVars

LEMMA AppendedOnceStep ==
    ASSUME NoReadFails, MembershipType, AppendedOnce, [Next]_vars
    PROVE  AppendedOnce'
<1>1. CASE UNCHANGED <<membership, repeated>>
  BY <1>1 DEF AppendedOnce
<1>2. CASE SyncInsertMemberships
  <2>1. PICK ids \in SymbolToId(IF New = {} THEN {} ELSE {Tag(sync.day, Nothing)}),
             known \in Reads({ m \in membership : m.is_active }) :
          /\ membership' = membership \cup MembershipRows(ids, known)
          /\ repeated' = repeated \cup (MembershipRows(ids, known) \cap membership)
    BY <1>2 DEF SyncInsertMemberships
  <2>2. known = { m \in membership : m.is_active }
    BY DEF Reads, NoReadFails
  <2>3. ASSUME NEW m \in MembershipRows(ids, known) \cap membership PROVE ~m.is_active
    <3>1. m = [id |-> m.id, universe_code |-> m.universe_code, is_active |-> m.is_active]
      BY DEF MembershipType
    <3>2. m.is_active \in BOOLEAN
      <4>1. m \in Memberships(ids)
        BY DEF MembershipRows
      <4>2. PICK s \in DOMAIN ids \cap Members(sync.answered) :
              \E u \in Codes(s, sync.answered) :
                m = [id |-> ids[s], universe_code |-> u, is_active |-> AnyActive(Codes(s, sync.answered))]
        BY <4>1 DEF Memberships
      <4>3. m.is_active = AnyActive(Codes(s, sync.answered))
        BY <4>2
      <4> QED BY <4>3 DEF AnyActive
    <3>3. m.is_active => [m EXCEPT !.is_active = TRUE] = m
      BY <3>1, <3>2
    <3> QED BY <2>2, <3>3 DEF MembershipRows
  <2> QED BY <2>1, <2>3 DEF AppendedOnce
<1>3. CASE SyncSeedFeeds
  <2>1. PICK ids \in SymbolToId({ Tag(sync.day, e) : e \in Seeds \cup {Nothing} }), known \in Reads(feed) :
          repeated' = repeated \cup { [id |-> i, stream |-> "daily"] : i \in FeedRows(ids, known) \cap feed }
    BY <1>3 DEF SyncSeedFeeds
  <2>2. FeedRows(ids, known) \cap feed = {}
    BY DEF Reads, NoReadFails, FeedRows
  <2> QED BY <1>3, <2>1, <2>2 DEF AppendedOnce, SyncSeedFeeds
<1> QED BY <1>1, <1>2, <1>3, SyncOrNot
        DEF SyncNext, SyncWork, SyncStart, SyncInsertInstruments, SyncInsertListings, SyncSeedListing,
            SyncCorrectClass, SyncSeedInstrument, SyncSeedFails, SyncCrash, NextDay, tables, syncVars

\* If the tables can be read, no run repeats a row that an earlier one, dead or
\* not, has written, but for inactive memberships.
THEOREM NothingIsAppendedTwice ==
    ASSUME NoReadFails
    PROVE  Spec => []AppendedOnce
<1>1. Init => MembershipType /\ AppendedOnce
  BY DEF Init, SyncInit, MembershipType, AppendedOnce
<1>2. (MembershipType /\ AppendedOnce) /\ [Next]_vars => (MembershipType /\ AppendedOnce)'
  BY MembershipTypeStep, AppendedOnceStep, NoReadFails
<1> QED BY <1>1, <1>2, PTL DEF Spec
-----------------------------------------------------------------------------
(* Who a row belongs to.                                                   *)

\* Only members of the funds are inserted, and OpenFIGI finds each of them.
IdentifiedSources ==
    /\ EtfOnly /\ "openfigi" \notin Faults
    /\ \A u \in Universes : Holdings[u] \subseteq Identified

DayOf(i)  == instrument[i].source.day
SeedOf(i) == instrument[i].source.seed

\* A row is of an earlier version, or has a FIGI of its own, or a seed's tag.
RowsHaveOwners ==
    \A i \in Ids :
      \/ DayOf(i) = 0 /\ SeedOf(i) = Nothing /\ instrument[i].figi = Nothing
      \/ DayOf(i) # 0 /\ SeedOf(i) = Nothing /\ instrument[i].figi \in Symbols
      \/ DayOf(i) # 0 /\ SeedOf(i) \in Symbols /\ instrument[i].figi = Nothing

\* A row is listed under the symbol of its owner.
ListedUnderOwner ==
    \A l \in listing :
      /\ DayOf(l.id) = 0 => \A m \in listing : m.id = l.id => m.symbol = l.symbol
      /\ DayOf(l.id) # 0 => l.symbol = IF SeedOf(l.id) = Nothing THEN instrument[l.id].figi ELSE SeedOf(l.id)

\* OpenFIGI has found what the run is about to insert.
RunIsIdentified == Members(sync.answered) \subseteq sync.figi

OwnerInv == RowsHaveOwners /\ ListedUnderOwner /\ RunIsIdentified

LEMMA MergedAreMembers ==
    ASSUME IdentifiedSources, NEW answered
    PROVE  Merged(answered) = Members(answered)
  BY DEF IdentifiedSources, Merged

\* The new symbols of an identified run have a FIGI each.
LEMMA NewHaveFigi ==
    ASSUME IdentifiedSources, SyncInv, RunIsIdentified, NEW s \in New
    PROVE  s \in Symbols /\ FigiOf(s) = s
<1>1. s \in Members(sync.answered)
  BY MergedAreMembers DEF New
<1>2. sync.answered \in SUBSET Universes
  BY DEF SyncInv, SyncType, SyncState
<1> QED BY <1>1, <1>2, MergedSymbols DEF RunIsIdentified, FigiOf

LEMMA OwnerInit == Init => OwnerInv
<1> SUFFICES ASSUME Init PROVE OwnerInv
  OBVIOUS
<1>1. PICK seeds \in SUBSET AsEquity :
        /\ instrument = [n \in DOMAIN SetToSeq(seeds) |-> Row(Nothing, "equity", Tag(0, Nothing))]
        /\ listing = { [id |-> n, symbol |-> SetToSeq(seeds)[n]] : n \in DOMAIN SetToSeq(seeds) }
  BY DEF Init, SyncInit
<1>2. SyncInv
  BY SyncInvInit DEF Init
<1>3. \A i \in Ids : instrument[i] = Row(Nothing, "equity", Tag(0, Nothing))
  BY <1>1, <1>2 DEF SyncInv, SyncType, Ids
<1>4. \A i \in Ids : DayOf(i) = 0 /\ SeedOf(i) = Nothing /\ instrument[i].figi = Nothing
  BY <1>3 DEF Row, Tag, DayOf, SeedOf
<1>5. \A l, m \in listing : m.id = l.id => m.symbol = l.symbol
  BY <1>1
<1>6. \A l \in listing : DayOf(l.id) = 0
  BY <1>2, <1>4 DEF SyncInv, ListingsExist
<1>7. Members(sync.answered) = {}
  BY DEF Init, SyncInit, IdleSync, Members
<1> QED BY <1>4, <1>5, <1>6, <1>7 DEF OwnerInv, RowsHaveOwners, ListedUnderOwner, RunIsIdentified

LEMMA RowsHaveOwnersStep ==
    ASSUME IdentifiedSources, SyncInv, OwnerInv, [Next]_vars
    PROVE  RowsHaveOwners'
<1>1. \A i \in Ids : /\ i \in Ids' /\ DayOf(i)' = DayOf(i) /\ SeedOf(i)' = SeedOf(i)
                     /\ instrument'[i].figi = instrument[i].figi
  BY InstrumentsNext DEF DayOf, SeedOf
<1>2. sync.day # 0
  BY DEF SyncInv, SyncType, SyncState
<1>3. CASE Ids' = Ids
  BY <1>1, <1>3 DEF OwnerInv, RowsHaveOwners
<1>4. CASE SyncInsertInstruments
  <2>1. ASSUME NEW i \in Ids' \ Ids
        PROVE  DayOf(i)' # 0 /\ SeedOf(i)' = Nothing /\ instrument'[i].figi \in Symbols
    <3>1. PICK s \in New : instrument'[i].figi = FigiOf(s) /\ instrument'[i].source = Tag(sync.day, Nothing)
      BY <1>4, InsertInstrumentsEffect
    <3>2. FigiOf(s) \in Symbols
      BY NewHaveFigi DEF OwnerInv
    <3> QED BY <1>2, <3>1, <3>2 DEF Tag, DayOf, SeedOf
  <2> QED BY <1>1, <2>1 DEF OwnerInv, RowsHaveOwners
<1>5. ASSUME NEW e \in Seeds, SyncSeedInstrument(e)
      PROVE  RowsHaveOwners'
  <2>1. ASSUME NEW i \in Ids' \ Ids
        PROVE  DayOf(i)' # 0 /\ SeedOf(i)' \in Symbols /\ instrument'[i].figi = Nothing
    <3>1. instrument'[i].figi = Nothing /\ instrument'[i].source = Tag(sync.day, e)
      BY <1>5, SeedInstrumentEffect
    <3> QED BY <1>2, <3>1, SyncAssumption DEF Tag, DayOf, SeedOf
  <2> QED BY <1>1, <2>1 DEF OwnerInv, RowsHaveOwners
<1>6. SyncNext => Ids' = Ids \/ SyncInsertInstruments \/ \E e \in Seeds : SyncSeedInstrument(e)
  <2>1. ASSUME NEW e \in Seeds, SyncCorrectClass(e) PROVE Ids' = Ids
    BY <2>1, CorrectClassEffect
  <2>2. UNCHANGED instrument => Ids' = Ids
    BY DEF Ids
  <2> QED BY <2>1, <2>2 DEF SyncNext, SyncWork, SyncStart, SyncInsertListings, SyncInsertMemberships,
             SyncSeedListing, SyncSeedFeeds, SyncSeedFails, SyncCrash, NextDay, tables
<1>7. UNCHANGED syncVars => Ids' = Ids
  BY DEF syncVars, tables, Ids
<1> QED BY <1>3, <1>4, <1>5, <1>6, <1>7, SyncOrNot

LEMMA ListedUnderOwnerStep ==
    ASSUME IdentifiedSources, SyncInv, OwnerInv, [Next]_vars
    PROVE  ListedUnderOwner'
<1>1. \A i \in Ids : /\ i \in Ids' /\ DayOf(i)' = DayOf(i) /\ SeedOf(i)' = SeedOf(i)
                     /\ instrument'[i].figi = instrument[i].figi
  BY InstrumentsNext DEF DayOf, SeedOf
<1>2. sync.day # 0
  BY DEF SyncInv, SyncType, SyncState
<1>3. \A l \in listing : l.id \in Ids
  BY DEF SyncInv, ListingsExist
<1> DEFINE OwnerOf(i) == IF SeedOf(i) = Nothing THEN instrument[i].figi ELSE SeedOf(i)
<1>4. ASSUME \A l \in listing' \ listing : l.id \in Ids /\ DayOf(l.id) # 0 /\ l.symbol = OwnerOf(l.id)
      PROVE  ListedUnderOwner'
  <2>1. ASSUME NEW l \in listing', DayOf(l.id) # 0
        PROVE  l.id \in Ids /\ l.symbol = OwnerOf(l.id)
    BY <1>3, <1>4, <2>1 DEF OwnerInv, ListedUnderOwner
  <2>2. ASSUME NEW l \in listing', DayOf(l.id) = 0, NEW m \in listing', m.id = l.id
        PROVE  m.symbol = l.symbol
    BY <1>4, <2>2 DEF OwnerInv, ListedUnderOwner
  <2>3. \A l \in listing' : l.id \in Ids
    BY <1>3, <1>4
  <2>4. \A l \in listing' : DayOf(l.id)' = DayOf(l.id) /\ OwnerOf(l.id)' = OwnerOf(l.id)
    BY <1>1, <2>3
  <2> QED BY <2>1, <2>2, <2>4 DEF ListedUnderOwner
<1>5. CASE UNCHANGED listing
  BY <1>4, <1>5
<1>6. CASE SyncInsertListings
  <2>1. PICK at : /\ listing' = listing \cup { [id |-> at[s], symbol |-> s] : s \in New }
                  /\ \A s \in New : /\ s \in Symbols /\ at[s] \in Ids
                                    /\ instrument[at[s]].source = Tag(sync.day, Nothing)
                                    /\ instrument[at[s]].figi = FigiOf(s)
    BY <1>6, InsertListingsEffect
  <2>2. \A s \in New : DayOf(at[s]) # 0 /\ OwnerOf(at[s]) = s
    BY <1>2, <2>1, NewHaveFigi DEF DayOf, SeedOf, Tag, OwnerInv
  <2>3. \A l \in listing' \ listing : \E s \in New : l = [id |-> at[s], symbol |-> s]
    BY <2>1
  <2> QED BY <1>4, <2>1, <2>2, <2>3
<1>7. CASE SyncSeedListing
  <2>1. PICK i \in Ids : /\ listing' = listing \cup {[id |-> i, symbol |-> sync.seeding]}
                         /\ instrument[i].source = Tag(sync.day, sync.seeding)
                         /\ sync.seeding \in Seeds
    BY <1>7, SeedListingEffect
  <2>2. DayOf(i) # 0 /\ OwnerOf(i) = sync.seeding
    BY <1>2, <2>1, SyncAssumption DEF DayOf, SeedOf, Tag
  <2> QED BY <1>4, <2>1, <2>2
<1>8. SyncNext => UNCHANGED listing \/ SyncInsertListings \/ SyncSeedListing
  BY DEF SyncNext, SyncWork, SyncStart, SyncInsertInstruments, SyncInsertMemberships, SyncCorrectClass,
         SyncSeedInstrument, SyncSeedFeeds, SyncSeedFails, SyncCrash, NextDay, tables
<1> QED BY <1>5, <1>6, <1>7, <1>8, SyncOrNot DEF syncVars, tables

LEMMA RunIsIdentifiedStep ==
    ASSUME IdentifiedSources, SyncInv, OwnerInv, [Next]_vars
    PROVE  RunIsIdentified'
<1>1. ASSUME NEW answered \in SUBSET Universes, SyncStart(answered) PROVE RunIsIdentified'
  <2>1. sync'.answered = answered /\ sync'.figi \in Enrichments(Members(answered))
    BY <1>1, SyncStartEffect
  <2>2. Members(answered) \subseteq Identified
    BY DEF Members, IdentifiedSources
  <2> QED BY <2>1, <2>2 DEF Enrichments, IdentifiedSources, RunIsIdentified
<1>2. CASE SyncGoesOn
  BY <1>2, SyncGoesOnEffect DEF OwnerInv, RunIsIdentified
<1>3. CASE sync' = IdleSync
  BY <1>3 DEF RunIsIdentified, IdleSync, Members
<1>4. CASE sync' = sync
  BY <1>4 DEF OwnerInv, RunIsIdentified
<1> QED BY <1>1, <1>2, <1>3, <1>4, SyncOrNot
        DEF SyncNext, SyncWork, SyncGoesOn, SyncCorrectClass, SyncSeedFeeds, SyncCrash, NextDay, syncVars

LEMMA OwnerStep ==
    ASSUME IdentifiedSources
    PROVE  (SyncInv /\ OwnerInv) /\ [Next]_vars => (SyncInv /\ OwnerInv)'
  BY SyncInvStep, RowsHaveOwnersStep, ListedUnderOwnerStep, RunIsIdentifiedStep, IdentifiedSources DEF OwnerInv

LEMMA OwnerGivesSymbol ==
    ASSUME SyncInv, OwnerInv
    PROVE  OneSymbolPerInstrument
<1> SUFFICES ASSUME NEW l \in listing
             PROVE  /\ instrument[l.id].figi \in {Nothing, l.symbol}
                    /\ \A m \in listing : m.id = l.id => m.symbol = l.symbol
  BY DEF OneSymbolPerInstrument
<1>1. l.id \in Ids
  BY DEF SyncInv, ListingsExist
<1>2. instrument[l.id].figi \in {Nothing, l.symbol}
  BY <1>1, SyncAssumption DEF OwnerInv, RowsHaveOwners, ListedUnderOwner
<1>3. ASSUME NEW m \in listing, m.id = l.id PROVE m.symbol = l.symbol
  BY <1>3 DEF OwnerInv, ListedUnderOwner
<1> QED BY <1>2, <1>3

\* If only fund members are inserted and OpenFIGI finds each of them, an
\* instrument is never listed under two symbols, nor under one that is not its
\* FIGI's, whatever dies between the instrument and its listing.
THEOREM InstrumentsHaveOneSymbol ==
    ASSUME IdentifiedSources
    PROVE  Spec => []OneSymbolPerInstrument
<1>1. Init => SyncInv /\ OwnerInv
  BY SyncInvInit, OwnerInit DEF Init
<1>2. (SyncInv /\ OwnerInv) /\ [Next]_vars => (SyncInv /\ OwnerInv)'
  BY OwnerStep, IdentifiedSources
<1>3. SyncInv /\ OwnerInv => OneSymbolPerInstrument
  BY OwnerGivesSymbol
<1> QED BY <1>1, <1>2, <1>3, PTL DEF Spec
-----------------------------------------------------------------------------
(* One mapping for each instrument.                                        *)

LEMMA OverlapsStep ==
    ASSUME overlaps = {}, [Next]_vars
    PROVE  overlaps' = {}
<1>1. ASSUME NEW n \in Seeders, SeederLoad(n) PROVE overlaps' = {}
  BY <1>1 DEF SeederLoad, Loadable
<1> QED BY <1>1 DEF Next, SeedingNext, SeederStart, SeederPoll, SeederStops, AgentQualify, AgentRefuses,
                    vars, seedVars

\* "Never overwrites existing current mappings": an instrument has one current
\* vendor id, that of its own symbol, whatever number of notebooks, late answers
\* and repeated qualifications there are, and whatever listings are made
\* meanwhile.
THEOREM MappingsAreUnique ==
    ASSUME IdentifiedSources
    PROVE  Spec => []OneCurrentMapping
<1> DEFINE MappingInv == SyncInv /\ OwnerInv /\ RefInv /\ overlaps = {}
<1>1. Init => MappingInv
  BY SyncInvInit, OwnerInit, RefInit DEF Init, SeedingInit
<1>2. MappingInv /\ [Next]_vars => MappingInv'
  <2> SUFFICES ASSUME MappingInv, [Next]_vars PROVE MappingInv'
    OBVIOUS
  <2>1. SyncInv' /\ OwnerInv'
    BY OwnerStep, IdentifiedSources
  <2>2. RefInv'
    BY RefStep
  <2>3. overlaps' = {}
    BY OverlapsStep
  <2> QED BY <2>1, <2>2, <2>3
<1>3. MappingInv => OneCurrentMapping
  <2> SUFFICES ASSUME MappingInv PROVE OneCurrentMapping
    OBVIOUS
  <2>1. \A v \in vendor_id : [id |-> v.id, symbol |-> v.vendor_instrument_id] \in listing
    BY DEF RefInv, MappingsAreBacked, Backed
  <2>2. ASSUME NEW v \in vendor_id, NEW w \in vendor_id, v.id = w.id PROVE v = w
    <3>1. v.vendor_instrument_id = w.vendor_instrument_id
      <4> DEFINE l == [id |-> v.id, symbol |-> v.vendor_instrument_id]
                 m == [id |-> w.id, symbol |-> w.vendor_instrument_id]
      <4>1. l \in listing /\ m \in listing
        BY <2>1
      <4>2. l.id = m.id
        BY <2>2
      <4>3. m.symbol = l.symbol
        BY <4>1, <4>2, OwnerGivesSymbol DEF OneSymbolPerInstrument
      <4> QED BY <4>3
    <3> QED BY <2>2, <3>1 DEF RefInv, SeedingType, Mappings
  <2> QED BY <2>1, <2>2 DEF OneCurrentMapping
<1> HIDE DEF MappingInv
<1> QED BY <1>1, <1>2, <1>3, PTL DEF Spec
-----------------------------------------------------------------------------
(* The universe that the planner reads.                                    *)

\* The seeds are not held by the funds, so cells 9 and 11 insert different ones.
SeparateSeeds == \A u \in Universes : Holdings[u] \cap Seeds = {}

ListedSymbols == { l.symbol : l \in listing }

SymbolListedOnce == \A l, m \in listing : l.symbol = m.symbol => l = m

\* What is listed by now was so when the run started, or the run has listed it.
RunKnowsListed ==
    /\ sync.phase \in {"instrument", "listing"} => ListedSymbols \subseteq Existing
    /\ sync.phase \in {"membership", "seed"} =>
         ListedSymbols \subseteq Existing \cup Members(sync.answered) \cup (sync.tried \ {sync.seeding})
    /\ sync.seeding # Nothing => /\ sync.phase = "seed"
                                 /\ sync.seeding \in sync.tried \ Existing

UniverseInv == SymbolListedOnce /\ RunKnowsListed

LEMMA UniverseInit == Init => UniverseInv
<1> SUFFICES ASSUME Init PROVE UniverseInv
  OBVIOUS
<1>1. PICK seeds \in SUBSET AsEquity :
        listing = { [id |-> n, symbol |-> SetToSeq(seeds)[n]] : n \in DOMAIN SetToSeq(seeds) }
  BY DEF Init, SyncInit
<1>2. IsFiniteSet(seeds)
  BY SyncAssumption, FS_Subset
<1>3. \A m, n \in DOMAIN SetToSeq(seeds) : SetToSeq(seeds)[m] = SetToSeq(seeds)[n] => m = n
  BY <1>2, SetToSeqOnto
<1>4. SymbolListedOnce
  BY <1>1, <1>3 DEF SymbolListedOnce
<1>5. sync.phase = "idle" /\ sync.seeding = Nothing
  BY DEF Init, SyncInit, IdleSync
<1> QED BY <1>4, <1>5 DEF UniverseInv, RunKnowsListed

\* A symbol that is listed anew was not listed before.
LEMMA SymbolListedOnceStep ==
    ASSUME IdentifiedSources, SeparateSeeds, SyncInv, UniverseInv, [Next]_vars
    PROVE  SymbolListedOnce'
<1>1. CASE UNCHANGED listing
  BY <1>1 DEF UniverseInv, SymbolListedOnce
<1>2. CASE SyncInsertListings
  <2>1. PICK at : listing' = listing \cup { [id |-> at[s], symbol |-> s] : s \in New }
    BY <1>2, InsertListingsEffect
  <2>2. \A s \in New : s \notin ListedSymbols
    BY <1>2 DEF New, UniverseInv, RunKnowsListed, SyncInsertListings
  <2>3. \A l \in listing' : \/ l \in listing /\ l.symbol \notin New
                            \/ l.symbol \in New /\ l = [id |-> at[l.symbol], symbol |-> l.symbol]
    BY <2>1, <2>2 DEF ListedSymbols
  <2> QED BY <2>3 DEF UniverseInv, SymbolListedOnce
<1>3. CASE SyncSeedListing
  <2>1. PICK i \in Ids : /\ listing' = listing \cup {[id |-> i, symbol |-> sync.seeding]}
                         /\ sync.seeding \in Seeds
    BY <1>3, SeedListingEffect
  <2>2. sync.seeding \notin Members(sync.answered)
    BY <2>1 DEF Members, SeparateSeeds, SyncInv, SyncType, SyncState
  <2>3. sync.seeding \notin ListedSymbols
    BY <1>3, <2>2 DEF UniverseInv, RunKnowsListed, SyncSeedListing
  <2>4. \A l \in listing' : \/ l \in listing /\ l.symbol # sync.seeding
                            \/ l = [id |-> i, symbol |-> sync.seeding]
    BY <2>1, <2>3 DEF ListedSymbols
  <2> QED BY <2>4 DEF UniverseInv, SymbolListedOnce
<1>4. SyncNext => UNCHANGED listing \/ SyncInsertListings \/ SyncSeedListing
  BY DEF SyncNext, SyncWork, SyncStart, SyncInsertInstruments, SyncInsertMemberships, SyncCorrectClass,
         SyncSeedInstrument, SyncSeedFeeds, SyncSeedFails, SyncCrash, NextDay, tables
<1> QED BY <1>1, <1>2, <1>3, <1>4, SyncOrNot DEF syncVars, tables

\* At its start a run takes all that is listed for existing.
LEMMA StartKnowsListed ==
    ASSUME SyncInv, NEW answered \in SUBSET Universes, SyncStart(answered)
    PROVE  RunKnowsListed'
<1>1. /\ sync'.existing \in Collected([s \in Symbols |-> ListedAs(s)])
      /\ sync'.seeding = Nothing
  BY SyncStartEffect
<1>2. ListedSymbols' = ListedSymbols
  BY DEF SyncStart, tables, ListedSymbols
<1>3. ListedSymbols \subseteq DOMAIN sync'.existing
  <2>1. \A l \in listing : l.symbol \in Symbols /\ l.id \in ListedAs(l.symbol)
    BY DEF SyncInv, SyncType, Listings, ListedAs
  <2>2. DOMAIN sync'.existing = { s \in Symbols : ListedAs(s) # {} }
    BY <1>1 DEF Collected
  <2> QED BY <2>1, <2>2 DEF ListedSymbols
<1> QED BY <1>1, <1>2, <1>3 DEF RunKnowsListed, Existing

LEMMA GoingOnKnowsListed ==
    ASSUME IdentifiedSources, SyncInv, UniverseInv, SyncGoesOn
    PROVE  RunKnowsListed'
<1>1. Existing' = Existing /\ sync'.answered = sync.answered
  BY SyncGoesOnEffect DEF Existing
<1>2. sync \in SyncState
  BY DEF SyncInv, SyncType
<1>3. CASE SyncInsertInstruments
  <2>1. sync'.phase = "listing" /\ sync'.seeding = sync.seeding /\ sync.phase = "instrument"
        /\ ListedSymbols' = ListedSymbols
    BY <1>2, <1>3 DEF SyncInsertInstruments, SyncState, ListedSymbols
  <2> QED BY <1>1, <2>1 DEF UniverseInv, RunKnowsListed
<1>4. CASE SyncInsertListings
  <2>1. sync'.phase = "membership" /\ sync'.seeding = sync.seeding /\ sync.phase = "listing"
    BY <1>2, <1>4 DEF SyncInsertListings, SyncState
  <2>2. ListedSymbols' \subseteq ListedSymbols \cup New
    BY <1>4, InsertListingsEffect DEF ListedSymbols
  <2>3. New \subseteq Members(sync.answered)
    BY MergedAreMembers DEF New
  <2> QED BY <1>1, <2>1, <2>2, <2>3 DEF UniverseInv, RunKnowsListed
<1>5. CASE SyncInsertMemberships
  <2>1. /\ sync'.phase = "seed" /\ sync'.seeding = sync.seeding /\ sync'.tried = sync.tried
        /\ sync.phase = "membership" /\ ListedSymbols' = ListedSymbols
    BY <1>2, <1>5 DEF SyncInsertMemberships, SyncState, ListedSymbols
  <2> QED BY <1>1, <2>1 DEF UniverseInv, RunKnowsListed
<1>6. CASE SyncSeedListing
  <2>1. /\ sync'.phase = "seed" /\ sync'.seeding = Nothing /\ sync'.tried = sync.tried
        /\ sync.phase = "seed"
    BY <1>2, <1>6 DEF SyncSeedListing, SyncState
  <2>2. ListedSymbols' \subseteq ListedSymbols \cup {sync.seeding}
    BY <1>6, SeedListingEffect DEF ListedSymbols
  <2>3. Nothing \notin sync.tried /\ sync.seeding \in sync.tried
    BY <1>2, <1>6, SyncAssumption DEF SyncState, UniverseInv, RunKnowsListed, SyncSeedListing
  <2> QED BY <1>1, <2>1, <2>2, <2>3 DEF UniverseInv, RunKnowsListed
<1>7. CASE SyncSeedFails
  <2>1. ListedSymbols' = ListedSymbols /\ sync.phase = "seed"
    BY <1>7 DEF SyncSeedFails, tables, ListedSymbols
  <2>2. sync'.phase = "seed" /\ sync'.seeding = Nothing /\ sync.tried \subseteq sync'.tried
    <3>1. CASE sync' = [sync EXCEPT !.seeding = Nothing]
      BY <1>2, <2>1, <3>1 DEF SyncState
    <3>2. ASSUME NEW e, sync.seeding = Nothing, sync' = [sync EXCEPT !.tried = sync.tried \cup {e}]
          PROVE  sync'.phase = "seed" /\ sync'.seeding = Nothing /\ sync.tried \subseteq sync'.tried
      BY <1>2, <2>1, <3>2 DEF SyncState
    <3> QED BY <1>7, <3>1, <3>2 DEF SyncSeedFails
  <2>3. Nothing \notin sync'.tried
    BY <1>7, SyncGoesOnEffect, SyncAssumption DEF SyncGoesOn, SyncState
  <2> QED BY <1>1, <2>1, <2>2, <2>3 DEF UniverseInv, RunKnowsListed
<1>8. ASSUME NEW e \in Seeds, SyncSeedInstrument(e) PROVE RunKnowsListed'
  <2>1. /\ sync.phase = "seed" /\ sync.seeding = Nothing /\ e \notin Existing \cup sync.tried
        /\ sync' = [sync EXCEPT !.seeding = e, !.tried = sync.tried \cup {e}]
        /\ ListedSymbols' = ListedSymbols
    BY <1>8 DEF SyncSeedInstrument, Unseeded, ListedSymbols
  <2>2. sync'.phase = "seed" /\ sync'.seeding = e /\ sync'.tried = sync.tried \cup {e}
    BY <1>2, <2>1 DEF SyncState
  <2>3. sync'.tried \ {sync'.seeding} = sync.tried \ {sync.seeding}
    BY <1>2, <2>1, <2>2, SyncAssumption DEF SyncState
  <2> QED BY <1>1, <2>1, <2>2, <2>3 DEF UniverseInv, RunKnowsListed
<1> QED BY <1>3, <1>4, <1>5, <1>6, <1>7, <1>8 DEF SyncGoesOn

LEMMA UniverseStep ==
    ASSUME IdentifiedSources, SeparateSeeds, SyncInv, UniverseInv, [Next]_vars
    PROVE  UniverseInv'
<1>1. ASSUME NEW answered \in SUBSET Universes, SyncStart(answered) PROVE RunKnowsListed'
  BY <1>1, StartKnowsListed
<1>2. ASSUME SyncGoesOn PROVE RunKnowsListed'
  BY <1>2, GoingOnKnowsListed
<1>3. ASSUME sync' = IdleSync PROVE RunKnowsListed'
  BY <1>3 DEF RunKnowsListed, IdleSync
<1>4. ASSUME UNCHANGED <<sync, listing>> PROVE RunKnowsListed'
  BY <1>4 DEF UniverseInv, RunKnowsListed, ListedSymbols, Existing
<1>5. RunKnowsListed'
  BY <1>1, <1>2, <1>3, <1>4, SyncOrNot
     DEF SyncNext, SyncWork, SyncGoesOn, SyncCorrectClass, SyncSeedFeeds, SyncCrash, NextDay, syncVars, tables
<1> QED BY <1>5, SymbolListedOnceStep DEF UniverseInv

\* Under the same conditions, and if no seed is held by a fund, the planner sees
\* each instrument under one symbol and each symbol once, whatever runs have
\* died: two rows would be two requests for the same bars in one batch.
THEOREM PlannersUniverseIsUnambiguous ==
    ASSUME IdentifiedSources, SeparateSeeds
    PROVE  Spec => []UniverseIsUnambiguous
<1> DEFINE AllInv == SyncInv /\ OwnerInv /\ UniverseInv
<1>1. Init => AllInv
  BY SyncInvInit, OwnerInit, UniverseInit DEF Init
<1>2. AllInv /\ [Next]_vars => AllInv'
  BY OwnerStep, UniverseStep, IdentifiedSources, SeparateSeeds
<1>3. AllInv => UniverseIsUnambiguous
  <2> SUFFICES ASSUME AllInv, NEW r \in ActiveUniverse, NEW s \in ActiveUniverse
               PROVE  r.id = s.id <=> r.symbol = s.symbol
    BY DEF UniverseIsUnambiguous
  <2>1. r \in listing /\ s \in listing
    BY DEF ActiveUniverse
  <2>2. r.id = s.id => r.symbol = s.symbol
    BY <2>1, OwnerGivesSymbol DEF OneSymbolPerInstrument
  <2>3. r.symbol = s.symbol => r = s
    BY <2>1 DEF UniverseInv, SymbolListedOnce
  <2> QED BY <2>2, <2>3
<1> HIDE DEF AllInv
<1> QED BY <1>1, <1>2, <1>3, PTL DEF Spec
=============================================================================

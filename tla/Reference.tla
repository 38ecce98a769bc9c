------------------------------ MODULE Reference ------------------------------
(***************************************************************************)
(* Universe synchronisation and vendor-id seeding over the same reference  *)
(* tables, and what the fetch planner reads of them.                       *)
(***************************************************************************)
EXTENDS VendorSeeding

vars == <<syncVars, seedVars>>

Init == SyncInit /\ SeedingInit

SyncNext == (\E answered \in SUBSET Universes : SyncStart(answered)) \/ SyncWork \/ SyncSeedFails \/ SyncCrash \/ NextDay

Next == (SyncNext /\ UNCHANGED seedVars) \/ SeedingNext

Spec == Init /\ [][Next]_vars

(***************************************************************************)
(* The readers.                                                            *)
(***************************************************************************)
\* DeltaUniverseReader: feed configurations joined with current listings; one
\* InstrumentInfo for each row.
ActiveUniverse == { l \in listing : l.id \in feed }

\* _load_instrument_enrichment: the vendor ids the planner may put in a manifest.
VendorIds(i) == { v.vendor_instrument_id : v \in { w \in vendor_id : w.id = i } }

(***************************************************************************)
(* Safety.                                                                 *)
(***************************************************************************)
\* The rows that a dead run left without a listing are dead for good: nothing
\* refers to them, although later runs of the day read them back by their tag.
NothingRefersToUnlisted ==
    \A i \in Ids : (\A l \in listing : l.id # i) =>
      /\ i \notin feed
      /\ \A m \in membership \cup vendor_id : m.id # i

\* The planner sees each instrument once, under one symbol, and each symbol
\* once: two rows would be two requests for the same bars in one batch.
UniverseIsUnambiguous ==
    \A r, s \in ActiveUniverse : r.id = s.id <=> r.symbol = s.symbol

\* A FIGI identifies: what is listed under it is the symbol it belongs to, and
\* an instrument is not listed under two symbols.
OneSymbolPerInstrument ==
    \A l \in listing :
      /\ instrument[l.id].figi \in {Nothing, l.symbol}
      /\ \A m \in listing : m.id = l.id => m.symbol = l.symbol

\* "Never overwrites existing current mappings": an instrument has one current
\* vendor id, that of its own symbol, whatever number of notebooks, late answers
\* and repeated qualifications there are.
OneCurrentMapping ==
    /\ overlaps = {}
    /\ \A v, w \in vendor_id : v.id = w.id => v = w
    /\ \A v \in vendor_id : [id |-> v.id, symbol |-> v.vendor_instrument_id] \in listing

\* Memberships "so we don't duplicate" and feed configurations "skip if already
\* seeded": no run repeats what an earlier one, dead or not, has written.
AppendedOnce == \A row \in repeated : row \in membership /\ ~row.is_active
=============================================================================

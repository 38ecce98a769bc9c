-------------------------- MODULE CorporateActions --------------------------
(***************************************************************************)
(* The corporate-action saga: the detector opens a candidate for an        *)
(* instrument whose vendor price has left the stored one, the classifier   *)
(* turns it into an audit row and a FORCE_RELOAD command, and the          *)
(* validation notebook seeds the audit table from Yahoo.  A step is one    *)
(* Spark statement; each may raise and each run may die between two.       *)
(*                                                                         *)
(* A candidate_id is <<instrument, n>>, n the number of the INSERT that    *)
(* made it, which also orders detected_at.  A command_id is the position   *)
(* of its row.  reference.corporate_actions has no key: it is a bag.       *)
(***************************************************************************)
EXTENDS Splits, Sequences, FiniteSets, Bags

CONSTANTS
    Instruments,
    Classifiers,     \* the runs of the classifier that may be under way at once
    Prices,          \* closes
    FirstPrices,     \* what every instrument closes at on the first day
    Restatements,    \* the vendor's prices that a later day may bring
    PriceWired,      \* does _fetch_vendor_prices ask anybody, or is it the stub
    YahooHistory,    \* what Yahoo has: records of inst, date, shares, dividend
    Raising,         \* the statements of the classifier that may raise
    LostReplies,     \* the UPDATEs that may raise although they have been committed
    MaxDay,          \* bound: the last day
    MaxDetections,   \* bound: INSERTs of candidates
    MaxCrashes       \* bound: classifier runs that die

Statements == {"dismiss", "action", "command", "select", "update"}

ASSUME CorporateActionsAssumption ==
    /\ Prices \subseteq Nat /\ FirstPrices \in [Instruments -> Prices]
    /\ Restatements \subseteq [Instruments -> Prices] /\ PriceWired \in BOOLEAN
    /\ Raising \subseteq Statements /\ LostReplies \subseteq {"dismiss", "update"}
    /\ MaxDay \in Nat \ {0} /\ MaxDetections \in Nat /\ MaxCrashes \in Nat

VARIABLES
    stored,       \* the close of an instrument's latest Bronze bar
    vendor,       \* the close the vendor has for it today
    candidates,   \* control.corporate_action_candidates: id -> row
    actions,      \* reference.corporate_actions: row -> number of copies
    commands,     \* control.ingestion_command: the instruments to reload, all pending
    detect,       \* the detector's run in progress
    classify,     \* the classifier's runs in progress
    today, crashes

prices == <<stored, vendor>>
tables == <<candidates, actions, commands>>
clock  == <<today, crashes>>
vars   == <<prices, tables, detect, classify, clock>>

MaxRetries == 3
CandidateStatus == {"DETECTED", "CLASSIFIED", "FALSE_POSITIVE", "FAILED"}
NoEvent    == "none"
NoCommand  == 0

CandidateRow(status, retries, event, command, date, ratio) ==
    [status |-> status, retries |-> retries, event |-> event, command |-> command,
     date |-> date, ratio |-> ratio]

With(status) == { c \in DOMAIN candidates : candidates[c].status = status }
Inst(c)      == c[1]
Insert(c)    == c[2]

Inserts      == { Insert(c) : c \in DOMAIN candidates }

IdleDetector   == [phase |-> "idle", bronze |-> <<>>, found |-> <<>>, open |-> {}]
IdleClassifier == [phase |-> "idle", todo |-> {}, retries |-> <<>>, now |-> <<>>, command |-> NoCommand]
-----------------------------------------------------------------------------
(* The detector: detect_and_record.                                        *)

\* _get_latest_bronze_prices.
DetectRead ==
    /\ detect.phase = "idle" /\ Cardinality(Inserts) < MaxDetections
    /\ detect' = [detect EXCEPT !.phase = "compare", !.bronze = stored]
    /\ UNCHANGED <<prices, tables, classify, clock>>

\* The ratios that are over the threshold; the vendor may lack some prices,
\* and the stub of _fetch_vendor_prices lacks them all.
Flagged(bronze, answered) == { i \in answered : Deviates(vendor[i], bronze[i]) }

DetectCompare ==
    /\ detect.phase = "compare"
    /\ \E answered \in IF PriceWired THEN SUBSET Instruments ELSE {{}} :
         LET found == Flagged(detect.bronze, answered)
         IN  detect' = IF found = {} THEN IdleDetector
                       ELSE [detect EXCEPT !.phase = "open",
                               !.found = [i \in found |-> Ratio(vendor[i], detect.bronze[i])]]
    /\ UNCHANGED <<prices, tables, classify, clock>>

\* Mutant of Open: a classified candidate does not count as open.
OnlyDetected == With("DETECTED")

Open == With("DETECTED") \cup With("CLASSIFIED")

\* _get_open_candidate_instrument_ids.
DetectReadOpen ==
    /\ detect.phase = "open"
    /\ detect' = [detect EXCEPT !.phase = "insert", !.open = { Inst(c) : c \in Open }]
    /\ UNCHANGED <<prices, tables, classify, clock>>

\* _write_candidates: one INSERT of the rows that are not open.
DetectInsert ==
    /\ detect.phase = "insert"
    /\ LET new == DOMAIN detect.found \ detect.open
           n   == Cardinality(Inserts) + 1
       IN  candidates' =
             [c \in DOMAIN candidates \cup (new \X {n}) |->
                 IF c \in DOMAIN candidates THEN candidates[c]
                 ELSE CandidateRow("DETECTED", 0, NoEvent, NoCommand, today, detect.found[Inst(c)])]
    /\ detect' = IdleDetector
    /\ UNCHANGED <<prices, actions, commands, classify, clock>>
-----------------------------------------------------------------------------
(* The classifier: process_detected_candidates.                            *)

\* Mutant of Selected: the SELECT leaves out what has been tried.
NeverTried == { c \in With("DETECTED") : candidates[c].retries = 0 }

Selected == With("DETECTED")

Goto(r, phase) == classify' = [classify EXCEPT ![r].phase = phase]

\* On to the next row, or to the handler if the UPDATE raises after its commit.
\* An INSERT that does so is no different from the next statement that raises.
Decided(r, statement) ==
    \/ Goto(r, "next")
    \/ statement \in LostReplies /\ Goto(r, "lost")

\* The SELECT; the rows collected keep the retry_count of this moment.
ClassifyStart(r) ==
    /\ classify[r].phase = "idle"
    /\ classify' = [classify EXCEPT ![r] =
         [IdleClassifier EXCEPT !.phase = "next", !.todo = Selected,
                                !.retries = [c \in Selected |-> candidates[c].retries]]]
    /\ UNCHANGED <<prices, tables, detect, clock>>

\* The next row by detected_at: a known split, or an UPDATE to FALSE_POSITIVE
\* whatever the label of the ratio.
ClassifyNext(r) ==
    /\ classify[r].phase = "next"
    /\ \E c \in classify[r].todo :
         /\ \A d \in classify[r].todo : Insert(c) <= Insert(d)
         /\ classify' = [classify EXCEPT
              ![r].todo  = classify[r].todo \ {c},
              ![r].now   = c,
              ![r].phase = IF Classify(candidates[c].ratio) = {} THEN "dismiss" ELSE "action"]
    /\ UNCHANGED <<prices, tables, detect, clock>>

\* The UPDATE statement of a candidate.
Update(c, row) == candidates' = [candidates EXCEPT ![c] = row]

ClassifyDismiss(r) ==
    /\ classify[r].phase = "dismiss"
    /\ LET c == classify[r].now
       IN  Update(c, [candidates[c] EXCEPT !.status = "FALSE_POSITIVE"])
    /\ Decided(r, "dismiss")
    /\ UNCHANGED <<prices, actions, commands, detect, clock>>

ActionRow(i, date, event, candidate, source) ==
    [inst |-> i, date |-> date, event |-> event, candidate |-> candidate, source |-> source]

\* _write_corporate_action: effective_date is the day of the detection.
ClassifyWriteAction(r) ==
    /\ classify[r].phase = "action"
    /\ LET c == classify[r].now
       IN  \E event \in Classify(candidates[c].ratio) :
             actions' = actions (+) SetToBag({ActionRow(Inst(c), candidates[c].date, event, c, "ibkr")})
    /\ Goto(r, "command")
    /\ UNCHANGED <<prices, candidates, commands, detect, clock>>

\* Mutant of ClassifyIssue: a reload that is pending anyway is not repeated,
\* and the command it returned is forgotten.
IssueOnce(r) ==
    /\ classify[r].phase = "command"
    /\ IF \E n \in DOMAIN commands : commands[n] = Inst(classify[r].now)
       THEN Goto(r, "update") /\ UNCHANGED commands
       ELSE Goto(r, "select") /\ commands' = Append(commands, Inst(classify[r].now))
    /\ UNCHANGED <<prices, candidates, actions, detect, clock>>

\* _issue_force_reload, the INSERT.
ClassifyIssue(r) ==
    /\ classify[r].phase = "command"
    /\ commands' = Append(commands, Inst(classify[r].now))
    /\ Goto(r, "select")
    /\ UNCHANGED <<prices, candidates, actions, detect, clock>>

CommandsFor(i) == { n \in DOMAIN commands : commands[n] = i }

\* _issue_force_reload, the SELECT of the latest pending command.
ClassifySelect(r) ==
    /\ classify[r].phase = "select"
    /\ \E n \in CommandsFor(Inst(classify[r].now)) :
         /\ \A m \in CommandsFor(Inst(classify[r].now)) : m <= n
         /\ classify' = [classify EXCEPT ![r].phase = "update", ![r].command = n]
    /\ UNCHANGED <<prices, tables, detect, clock>>

ClassifyUpdate(r) ==
    /\ classify[r].phase = "update"
    /\ LET c == classify[r].now
       IN  \E event \in Classify(candidates[c].ratio) :
             Update(c, [candidates[c] EXCEPT !.status  = "CLASSIFIED", !.event = event.type,
                                             !.command = classify[r].command])
    /\ Decided(r, "update")
    /\ UNCHANGED <<prices, actions, commands, detect, clock>>

\* Mutant of Counted: a failed attempt is not counted.
NotCounted(r) == classify[r].retries[classify[r].now]

Counted(r) == classify[r].retries[classify[r].now] + 1

\* A statement raised and the handler ran: given up at the third failure,
\* whose number is not written.
ClassifyRaises(r) ==
    /\ classify[r].phase \in Raising \cup {"lost"}
    /\ LET c == classify[r].now
       IN  Update(c, IF Counted(r) >= MaxRetries
                     THEN [candidates[c] EXCEPT !.status = "FAILED"]
                     ELSE [candidates[c] EXCEPT !.status = "DETECTED", !.retries = Counted(r)])
    /\ Goto(r, "next")
    /\ UNCHANGED <<prices, actions, commands, detect, clock>>

ClassifyEnd(r) ==
    /\ classify[r].phase = "next" /\ classify[r].todo = {}
    /\ classify' = [classify EXCEPT ![r] = IdleClassifier]
    /\ UNCHANGED <<prices, tables, detect, clock>>

\* The run dies, or the handler's own UPDATE raises.
ClassifyDies(r) ==
    /\ classify[r].phase # "idle" /\ crashes < MaxCrashes
    /\ classify' = [classify EXCEPT ![r] = IdleClassifier]
    /\ crashes' = crashes + 1
    /\ UNCHANGED <<prices, tables, detect, today>>
-----------------------------------------------------------------------------
(* The validation notebook, steps 5 and 6.                                 *)

\* get_corporate_actions: splits and dividends up to today.  An instrument
\* whose fetch fails has no events.
YahooRows(answered) ==
    { ActionRow(h.inst, h.date, IF h.dividend THEN Dividend ELSE FromYahoo(h.shares), <<>>, "yahoo") :
        h \in { g \in YahooHistory : g.inst \in answered /\ g.date <= today } }

\* WHERE NOT EXISTS: same instrument, day and type of event.
Logged(row) == \E a \in BagToSet(actions) :
    a.inst = row.inst /\ a.date = row.date /\ a.event.type = row.event.type

Seed ==
    /\ \E answered \in SUBSET Instruments :
         actions' = actions (+) SetToBag({ row \in YahooRows(answered) : ~Logged(row) })
    /\ actions' # actions
    /\ UNCHANGED <<prices, candidates, commands, detect, classify, clock>>
-----------------------------------------------------------------------------
(* What happens around the saga.                                           *)

\* A day passes; the vendor restates its history after an event, or the
\* market moves.
NextDay ==
    /\ today < MaxDay /\ today' = today + 1
    /\ vendor' \in Restatements
    /\ UNCHANGED <<stored, tables, detect, classify, crashes>>

\* The daily load appends a bar at the vendor's level.
Load(i) ==
    /\ stored[i] # vendor[i]
    /\ stored' = [stored EXCEPT ![i] = vendor[i]]
    /\ UNCHANGED <<vendor, tables, detect, classify, clock>>

DetectWork == DetectRead \/ DetectCompare \/ DetectReadOpen \/ DetectInsert

ClassifyWork(r) ==
    \/ ClassifyNext(r) \/ ClassifyDismiss(r) \/ ClassifyWriteAction(r) \/ ClassifyIssue(r)
    \/ ClassifySelect(r) \/ ClassifyUpdate(r) \/ ClassifyRaises(r) \/ ClassifyEnd(r)

Init ==
    /\ stored = FirstPrices /\ vendor = FirstPrices
    /\ candidates = <<>> /\ actions = EmptyBag /\ commands = <<>>
    /\ detect = IdleDetector /\ classify = [r \in Classifiers |-> IdleClassifier]
    /\ today = 1 /\ crashes = 0

Next ==
    \/ DetectWork \/ Seed
    \/ \E r \in Classifiers : ClassifyStart(r) \/ ClassifyWork(r) \/ ClassifyDies(r)
    \/ NextDay \/ \E i \in Instruments : Load(i)

Spec == Init /\ [][Next]_vars

\* A run that was started gets on with it.  Nothing obliges anybody to start
\* one: no job does, although detector.py:147 says that BronzeIngestionJob.run()
\* "dispatches to the classifier".
FairSpec == Spec /\ \A r \in Classifiers : WF_vars(ClassifyWork(r))
-----------------------------------------------------------------------------
\* Type correctness of the three tables and the runs.
TypeOK ==
    /\ stored \in [Instruments -> Prices] /\ vendor \in [Instruments -> Prices]
    /\ DOMAIN candidates \subseteq Instruments \X (1 .. MaxDetections)
    /\ \A c \in DOMAIN candidates :
         /\ candidates[c].status \in CandidateStatus
         /\ candidates[c].retries \in 0 .. MaxRetries - 1
         /\ candidates[c].command \in {NoCommand} \cup DOMAIN commands
    /\ IsABag(actions)
    /\ commands \in Seq(Instruments)

\* At most one candidate of an instrument is open, although the detector
\* reads the open ones before it inserts and the classifier runs meanwhile.
OneOpenCandidate ==
    \A c, d \in With("DETECTED") \cup With("CLASSIFIED") : Inst(c) = Inst(d) => c = d

\* A CLASSIFIED candidate has left both its marks: an audit row of its own
\* and a FORCE_RELOAD of its instrument that its row points at.
ClassifiedIsBacked ==
    \A c \in With("CLASSIFIED") :
        /\ \E a \in BagToSet(actions) :
             a.candidate = c /\ a.inst = Inst(c) /\ a.event.type = candidates[c].event
        /\ candidates[c].command \in DOMAIN commands
        /\ commands[candidates[c].command] = Inst(c)

\* The factor that an audit row of the classifier applies to history is what the
\* prices had done, up to the tolerance, and not its reciprocal.
FactorFitsPrices ==
    \A a \in BagToSet(actions) : a.source = "ibkr" =>
        LET r == candidates[a.candidate].ratio
            x == r.num * a.event.factor.den
            y == r.den * a.event.factor.num
        IN  Distance(x, y) * Percent <= (Tolerance + 1) * x

\* A failed attempt leaves its rows behind, and the next one repeats them;
\* but a candidate is logged at most once per attempt that was counted, that
\* died, or that is under way.
LoggedOncePerAttempt ==
    \A a \in BagToSet(actions) : a.source = "ibkr" =>
        actions[a] <= candidates[a.candidate].retries + 1 + crashes

\* A candidate that left DETECTED never changes its status again.
SagaOnlyAdvances ==
    [][\A c \in DOMAIN candidates :
         candidates[c].status # "DETECTED" => candidates'[c].status = candidates[c].status]_candidates

\* If the classifier is run again and again, by hand, no candidate stays DETECTED
\* for ever: it is classified, dismissed, or given up after three failures, and
\* neither the failures nor the candidates that are tried before it prevent this.
RunAgainAndAgain == []<>(\E r \in Classifiers : classify[r].phase # "idle")

CandidateIsDecided ==
    RunAgainAndAgain =>
      \A c \in Instruments \X (1 .. MaxDetections) : c \in With("DETECTED") ~> c \notin With("DETECTED")
=============================================================================

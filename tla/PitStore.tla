------------------------------ MODULE PitStore ------------------------------
(***************************************************************************)
(* The point-in-time store (se-store) under overlapping runs of `se scan`  *)
(* (main.rs): bars, macro observations and features of one ticker and one  *)
(* series, what each upsert keeps of them, and what a read at a decision   *)
(* bar sees.  A run fetches over HTTP, then writes; it reads, then writes; *)
(* another run may do anything in between.  The live providers revise what *)
(* they have published, the mock never does, and a store may have been     *)
(* scanned with either.  Days are trading days.                            *)
(***************************************************************************)
EXTENDS Integers, Sequences, FiniteSets, SequencesExt

CONSTANTS
  Scans,       \* processes of the command
  Lag,         \* the publication lag the live adapter assumes (fred_spec)
  MaxLookback, \* bound on lookbacks
  LastDay, MaxRevision,
  MaxScans,    \* bound on the scans ever begun
  Unknown      \* no value

ASSUME PitAssumption ==
  /\ Lag \in Nat /\ {MaxLookback, LastDay} \subseteq Nat \ {0}
  /\ {MaxRevision, MaxScans} \subseteq Nat

BarDays == 1..LastDay
Providers == {"live", "mock"}

(* What a provider answered for a date, by how often it had been revised.  *)
Answers == [by : Providers, revision : 0..MaxRevision]

VARIABLES
  today,
  revision,   \* how often the live providers have revised what they published
  bars,       \* rows [ts, asOf, value], one per ts
  macro,      \* rows [ts, asOf, value], one per (ts, asOf)
  features,   \* rows [key, decision, asOf, value], one per (key, decision, asOf)
  begunScans, \* number of scans begun
  scan,       \* each process: pc, provider, how far it reads, last bar, what it holds
  overlapped  \* history: a scan was begun while another was running

pitVars == <<today, revision, bars, macro, features, begunScans, scan, overlapped>>

NoScan == [pc |-> "off", provider |-> "mock", to |-> 0, last |-> 0, held |-> {}]

PitTypeOK ==
  /\ today \in BarDays /\ revision \in 0..MaxRevision
  /\ bars \subseteq [ts : BarDays, asOf : BarDays, value : Answers]
  /\ macro \subseteq [ts : BarDays, asOf : 1..(LastDay + Lag), value : Answers]
  /\ features \subseteq [key : {"aum_raw", "derived"}, decision : BarDays,
                         asOf : BarDays, value : Answers \cup {Unknown}]
  /\ begunScans \in 0..MaxScans
  /\ scan \in [Scans -> [pc : {"off", "bars", "profile", "macro", "points",
                               "derive", "features"},
                         provider : Providers, to : 0..LastDay, last : 0..LastDay,
                         held : SUBSET Answers]]
  /\ overlapped \in BOOLEAN

PitInit ==
  /\ today = 1 /\ revision = 0
  /\ bars = {} /\ macro = {} /\ features = {}
  /\ begunScans = 0 /\ scan = [p \in Scans |-> NoScan]
  /\ overlapped = FALSE

-----------------------------------------------------------------------------
(* INSERT ... ON CONFLICT (key) DO UPDATE; a key is a set of columns.      *)
Upsert(table, rows, key) ==
  {r \in table : \A n \in rows : \E column \in key : n[column] # r[column]} \cup rows

BarKey == {"ts"}

(* Mutant: one row per date, as for bars.                                  *)
MacroKeyOfBars == {"ts"}

MacroKey == {"ts", "asOf"}
FeatureKey == {"key", "decision", "asOf"}

(* ts <= cutoff AND as_of <= cutoff.                                       *)
Knowable(table, cutoff) == {r \in table : r.ts <= cutoff /\ r.asOf <= cutoff}

(* ORDER BY ts: rows of which no two share their ts, oldest first.         *)
ByTs(rows) ==
  CHOOSE s \in [1..Cardinality(rows) -> rows] :
    \A i, j \in DOMAIN s : i < j => s[i].ts < s[j].ts

(* Mutant: the limit is applied to the ascending order.                    *)
OldestFirst(rows, lookback) ==
  LET s == ByTs(rows) IN
  SubSeq(s, 1, IF lookback >= Len(s) THEN Len(s) ELSE lookback)

(* The newest `lookback` of these rows, oldest first.                      *)
Newest(rows, lookback) ==
  LET s == ByTs(rows) IN
  SubSeq(s, IF lookback >= Len(s) THEN 1 ELSE Len(s) - lookback + 1, Len(s))

(* PitContext::bars and bars_for.                                          *)
BarsAt(cutoff, lookback) == Newest(Knowable(bars, cutoff), lookback)

(* DISTINCT ON (ts) ... ORDER BY ts DESC, as_of DESC.                      *)
NewestVintages(table, cutoff) ==
  {r \in Knowable(table, cutoff) :
     \A x \in Knowable(table, cutoff) : x.ts = r.ts => x.asOf <= r.asOf}

MacroHistory(cutoff, lookback) == Newest(NewestVintages(macro, cutoff), lookback)

(* ORDER BY ts DESC, as_of DESC LIMIT 1.                                   *)
MacroValueAsOf(cutoff) ==
  LET seen == Knowable(macro, cutoff)
      top == {r \in seen : \A x \in seen :
                x.ts < r.ts \/ (x.ts = r.ts /\ x.asOf <= r.asOf)}
  IN  IF top = {} THEN Unknown ELSE (CHOOSE r \in top : TRUE).value

KnowableFeatures(cutoff) ==
  {r \in features : r.decision <= cutoff /\ r.asOf <= cutoff}

(* PitContext::features: DISTINCT ON (feature_key) ... ORDER BY            *)
(* feature_key, decision_ts DESC, as_of DESC.                              *)
FeaturesAt(cutoff) ==
  {r \in KnowableFeatures(cutoff) :
     \A x \in KnowableFeatures(cutoff) : x.key = r.key =>
       x.decision < r.decision \/ (x.decision = r.decision /\ x.asOf <= r.asOf)}

(* PitContext::feature: ORDER BY decision_ts DESC, as_of DESC LIMIT 1.     *)
FeatureAt(cutoff, key) ==
  LET seen == {r \in KnowableFeatures(cutoff) : r.key = key}
      top == {r \in seen : \A x \in seen : x.decision < r.decision
                             \/ (x.decision = r.decision /\ x.asOf <= r.asOf)}
  IN  IF top = {} THEN Unknown ELSE (CHOOSE r \in top : TRUE).value

-----------------------------------------------------------------------------
NextDay == /\ today < LastDay /\ today' = today + 1
           /\ UNCHANGED <<revision, bars, macro, features, begunScans, scan, overlapped>>

(* The live providers replace values they have published.                  *)
Revise == /\ revision < MaxRevision /\ revision' = revision + 1
          /\ UNCHANGED <<today, bars, macro, features, begunScans, scan, overlapped>>

(* The answer to a request made now: MockProvider is a function of dates.  *)
Answer(provider) ==
  [by |-> provider, revision |-> IF provider = "live" THEN revision ELSE 0]

(* daily_bars of the days up to `to`, of which the provider may still lack *)
(* the newest.                                                             *)
FetchBars(p, provider, to) ==
  /\ scan[p].pc = "off" /\ begunScans < MaxScans /\ to <= today
  /\ begunScans' = begunScans + 1
  /\ \E last \in {to - 1, to} \cap BarDays :
       scan' = [scan EXCEPT ![p] = [pc |-> "bars", provider |-> provider, to |-> to,
                                    last |-> last, held |-> {Answer(provider)}]]
  /\ overlapped' = (overlapped \/ \E q \in Scans : scan[q].pc # "off")
  /\ UNCHANGED <<today, revision, bars, macro, features>>

(* Mutant: a bar is knowable from the day it is fetched.                   *)
BarWrittenToday(d, answer) == [ts |-> d, asOf |-> today, value |-> answer]

(* upsert_bars: as_of is the bar's own close.                              *)
BarWritten(d, answer) == [ts |-> d, asOf |-> d, value |-> answer]

WriteBars(p) ==
  /\ scan[p].pc = "bars"
  /\ bars' = Upsert(bars, {BarWritten(d, x) : d \in 1..scan[p].last, x \in scan[p].held},
                    BarKey)
  /\ scan' = [scan EXCEPT ![p] = [@ EXCEPT !.pc = "profile", !.held = {}]]
  /\ UNCHANGED <<today, revision, macro, features, begunScans, overlapped>>

WriteFeatures(key, day, values) ==
  features' = Upsert(features, [key : {key}, decision : {day}, asOf : {day}, value : values],
                     FeatureKey)

(* etf_profile, written as of the last bar fetched; without a profile      *)
(* nothing is written.  What it says is left out.                          *)
ScanProfile(p) ==
  /\ scan[p].pc = "profile"
  /\ WriteFeatures("aum_raw", scan[p].last, {Unknown}) \/ UNCHANGED features
  /\ scan' = [scan EXCEPT ![p].pc = "macro"]
  /\ UNCHANGED <<today, revision, bars, macro, begunScans, overlapped>>

(* fred_spec; MockProvider dates an observation by its day.                *)
LagOf(provider) == IF provider = "live" THEN Lag ELSE 0

(* macro_series up to `to`: the points published by now, or the series is  *)
(* unavailable and skipped.                                                *)
FetchMacro(p) ==
  LET s == scan[p]
      published == IF today - LagOf(s.provider) < s.to THEN today - LagOf(s.provider) ELSE s.to
  IN
  /\ s.pc = "macro"
  /\ \/ /\ published >= 1
        /\ scan' = [scan EXCEPT ![p] = [@ EXCEPT !.pc = "points", !.to = published,
                                              !.held = {Answer(s.provider)}]]
     \/ scan' = [scan EXCEPT ![p].pc = "derive"]
  /\ UNCHANGED <<today, revision, bars, macro, features, begunScans, overlapped>>

(* fetch_series: as_of is the reference date plus a fixed lag, so that a   *)
(* revised value comes under the key of the one it replaces.               *)
MacroWritten(d, provider, answer) ==
  [ts |-> d, asOf |-> d + LagOf(provider), value |-> answer]

WriteMacro(p) ==
  LET s == scan[p] IN
  /\ s.pc = "points"
  /\ macro' = Upsert(macro, {MacroWritten(d, s.provider, x) : d \in 1..s.to, x \in s.held},
                     MacroKey)
  /\ scan' = [scan EXCEPT ![p] = [@ EXCEPT !.pc = "derive", !.held = {}]]
  /\ UNCHANGED <<today, revision, bars, features, begunScans, overlapped>>

(* Mutant: the feature is computed from a fresh fetch.                     *)
FetchedValues(d) == {Answer("live")}

(* From the latest bar, if any is knowable.                                *)
DerivedValues(d) == {b.value : b \in Range(BarsAt(d, 1))}

(* The modules read the store as of the last bar fetched ...               *)
ReadStore(p) ==
  /\ scan[p].pc = "derive"
  /\ scan' = [scan EXCEPT ![p] = [@ EXCEPT !.pc = "features",
                                           !.held = DerivedValues(scan[p].last)]]
  /\ UNCHANGED <<today, revision, bars, macro, features, begunScans, overlapped>>

(* ... and their features are persisted for that bar.                      *)
WriteDerived(p) ==
  /\ scan[p].pc = "features"
  /\ WriteFeatures("derived", scan[p].last, scan[p].held)
  /\ scan' = [scan EXCEPT ![p] = NoScan]
  /\ UNCHANGED <<today, revision, bars, macro, begunScans, overlapped>>

(* A kill or a failure; a nightly ingest ends after its macro points.      *)
StopScan(p) ==
  /\ scan[p].pc # "off" /\ scan' = [scan EXCEPT ![p] = NoScan]
  /\ UNCHANGED <<today, revision, bars, macro, features, begunScans, overlapped>>

PitNext ==
  \/ NextDay \/ Revise
  \/ \E p \in Scans :
       \/ WriteBars(p) \/ ScanProfile(p)
       \/ FetchMacro(p) \/ WriteMacro(p) \/ ReadStore(p)
       \/ WriteDerived(p) \/ StopScan(p)
       \/ \E provider \in Providers, to \in BarDays : FetchBars(p, provider, to)

PitSpec == PitInit /\ [][PitNext]_pitVars

-----------------------------------------------------------------------------
(* An answer is no older than another of the same provider.                *)
NoOlder(new, old) == new.by = old.by => old.revision <= new.revision

(* Reproducibility: what a decision read at its bar, a later read at that  *)
(* cutoff finds again.  However scans overlap, stop and change provider,   *)
(* no step takes a date out of the view of a past bar, or goes back to an  *)
(* earlier vintage of it.  Its value is no older than it was as long as no *)
(* two scans overlap; it is not always the same value (EveryVintageIsKept).*)
Succeeds(new, old) ==
  /\ new.ts = old.ts /\ old.asOf <= new.asOf
  /\ ~overlapped => NoOlder(new.value, old.value)

PastViewsOnlyMoveForward ==
  [][\A c \in BarDays :
       /\ \A r \in Knowable(bars, c) : \E n \in Knowable(bars', c) : Succeeds(n, r)
       /\ \A r \in NewestVintages(macro, c) :
            \E n \in NewestVintages(macro', c) : Succeeds(n, r)]_pitVars

(* The reads agree at every cutoff: a feature asked for by key is the one  *)
(* the list of features shows, macro_value_as_of is the end of every       *)
(* history, each date is in a history once, in its newest vintage, and a   *)
(* longer history only adds older dates.                                   *)
PitReadsAgree ==
  \A c \in BarDays :
    /\ \A r \in FeaturesAt(c) : FeatureAt(c, r.key) = r.value
    /\ \A n \in 1..MaxLookback :
         LET h == MacroHistory(c, n) IN
         /\ MacroValueAsOf(c) = IF h = <<>> THEN Unknown ELSE Last(h).value
         /\ \A i, j \in DOMAIN h : i < j => h[i].ts < h[j].ts
         /\ \A i \in DOMAIN h, r \in Knowable(macro, c) :
              r.ts = h[i].ts => r.asOf <= h[i].asOf
         /\ IsSuffix(h, MacroHistory(c, n + 1))

(* Wherever a derived feature is shown, the bar it was computed from is    *)
(* shown too; and as long as no two scans overlap, the bar is not older    *)
(* than the feature, whatever was revised or killed half way.              *)
FeaturesFollowTheirBars ==
  \A r \in features : r.key = "derived" =>
    \A c \in r.decision..LastDay :
      \E b \in Knowable(bars, c) :
        b.ts = r.decision /\ (~overlapped => NoOlder(b.value, r.value))

(* upsert_macro (store.rs:142) "preserves every vintage".                  *)
EveryVintageIsKept == [][macro \subseteq macro']_pitVars
=============================================================================

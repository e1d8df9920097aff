------------------------------- MODULE Search -------------------------------
(***************************************************************************)
(* se-search: the population search.  Every `se search`, and the Search    *)
(* step of every `se nightly`, is one run of PopulationManager::evolve:    *)
(* MaxGen generations of up to PerGen genomes; each genome is evaluated    *)
(* through the ML worker, persisted, and after the generation promoted,    *)
(* kept or retired.  Runs share the strategies table and nothing else; a   *)
(* run keeps its own genome-to-id map, its own set of seen signatures and  *)
(* its own survivors, all lost when the process ends.                      *)
(*                                                                         *)
(* The breeding operators (mutate, crossover, fresh seeds) are abstracted  *)
(* to what admit_unique lets through: any repetition-free sequence of      *)
(* genomes this run has not created before.                                *)
(***************************************************************************)
EXTENDS StrategyTable, Sequences

CONSTANTS
  Runs,    \* search processes; each executes evolve once
  Thin,    \* genomes with fewer than MIN_ENTRIES_TO_VALIDATE entries
  MaxGen,  \* generations
  PerGen,  \* genomes evaluated per generation
  NoId     \* a signature without a strategy id yet

ASSUME SearchAssumption ==
  /\ Thin \subseteq Genomes
  /\ IsFiniteSet(Genomes)
  /\ NoId \notin Ids
  /\ MaxGen \in Nat \ {0}
  /\ PerGen \in Nat \ {0}

Steps == {"idle", "build", "evaluate", "score", "select", "done", "crashed"}

Evaluated == [id : Ids, genome : Genomes, score : ScoreSpace \cup {NoScore},
              trials : Nat]

VARIABLES
  pc,         \* where each run is in evolve
  gen,        \* generations completed
  cohort,     \* genomes of the current generation
  pos,        \* next index of cohort, then of evaluated
  survivors,  \* genomes carried into the next generation
  kept,       \* survivors pushed so far by select_survivors
  seen,       \* seen_signatures
  idFor,      \* id_for_signature: genome -> id, or NoId
  evaluated,  \* this generation's evaluations, in order
  board       \* all_evaluated of the finished generations

runVars == <<pc, gen, cohort, pos, survivors, kept, seen, idFor, evaluated, board>>
searchVars == <<tableVars, runVars>>

SeqRange(s) == {s[i] : i \in DOMAIN s}

RepetitionFree(s) == \A i, j \in DOMAIN s : s[i] = s[j] => i = j

SearchTypeOK ==
  /\ TableTypeOK
  /\ pc \in [Runs -> Steps]
  /\ gen \in [Runs -> 0..MaxGen]
  /\ cohort \in [Runs -> Seq(Genomes)]
  /\ pos \in [Runs -> Nat]
  /\ survivors \in [Runs -> Seq(Genomes)]
  /\ kept \in [Runs -> Seq(Genomes)]
  /\ seen \in [Runs -> SUBSET Genomes]
  /\ idFor \in [Runs -> [Genomes -> Ids \cup {NoId}]]
  /\ evaluated \in [Runs -> Seq(Evaluated)]
  /\ board \in [Runs -> Seq(Evaluated)]

SearchInit ==
  /\ TableInit
  /\ pc = [r \in Runs |-> "idle"]
  /\ gen = [r \in Runs |-> 0]
  /\ cohort = [r \in Runs |-> <<>>]
  /\ pos = [r \in Runs |-> 1]
  /\ survivors = [r \in Runs |-> <<>>]
  /\ kept = [r \in Runs |-> <<>>]
  /\ seen = [r \in Runs |-> {}]
  /\ idFor = [r \in Runs |-> [g \in Genomes |-> NoId]]
  /\ evaluated = [r \in Runs |-> <<>>]
  /\ board = [r \in Runs |-> <<>>]

-----------------------------------------------------------------------------
(* Repetition-free sequences over S of length at most n.                   *)
Candidates(S, n) ==
  UNION {{s \in [1..k -> S] : RepetitionFree(s)} : k \in 0..n}

(* Ids some run has already minted; StrategyId::new is a random UUID.      *)
Minted == {id \in Ids : \E r \in Runs, g \in Genomes : idFor[r][g] = id}

(* Mutant: a fresh id for every evaluation.                                *)
AlwaysFreshId(r, g) == Ids \ Minted

(* Mutant: a stored row of the same genome lends its id to a new run.      *)
ReuseStoredId(r, g) ==
  IF idFor[r][g] # NoId THEN {idFor[r][g]}
  ELSE (Ids \ Minted) \cup {id \in Stored : strategies[id].genome = g}

(* The id a genome is persisted under: the one this run gave its signature *)
(* first, else a fresh one.                                                *)
IdChoices(r, g) ==
  IF idFor[r][g] # NoId THEN {idFor[r][g]} ELSE Ids \ Minted

(* Mutant: the genome in hand is not counted yet.                          *)
TrialsBefore(ids) == Cardinality({g \in Genomes : ids[g] # NoId}) - 1

(* n_search_trials: distinct genomes evaluated so far, this one included.  *)
Trials(ids) == Cardinality({g \in Genomes : ids[g] # NoId})

(* A thin genome never reaches the worker; any other evaluation may fail   *)
(* (worker error, no OOS observations) and is then logged and skipped.     *)
Outcomes(g) == IF g \in Thin THEN {NoScore} ELSE ScoreSpace \cup {NoScore}

(* Mutant: duplicates are refused within a generation only.                *)
FreshThisGeneration(r) == Genomes \ SeqRange(survivors[r])

(* Genomes admit_unique lets into the pool: never created in this run.     *)
FreshGenomes(r) == Genomes \ (seen[r] \cup SeqRange(survivors[r]))

-----------------------------------------------------------------------------
Begin(r) ==
  /\ pc[r] = "idle"
  /\ pc' = [pc EXCEPT ![r] = "build"]
  /\ UNCHANGED <<tableVars, gen, cohort, pos, survivors, kept, seen, idFor, evaluated, board>>

(* next_generation: the survivors first, unconditionally, then new genomes *)
(* up to PerGen; only the signatures kept are marked seen.                 *)
NextGeneration(r) ==
  /\ pc[r] = "build"
  /\ \E fresh \in Candidates(FreshGenomes(r), PerGen - Len(survivors[r])) :
       LET genomes == survivors[r] \o fresh IN
       /\ cohort' = [cohort EXCEPT ![r] = genomes]
       /\ seen' = [seen EXCEPT ![r] = @ \cup SeqRange(genomes)]
       /\ pc' = [pc EXCEPT ![r] = IF genomes = <<>> THEN "select" ELSE "evaluate"]
  /\ pos' = [pos EXCEPT ![r] = 1]
  /\ UNCHANGED <<tableVars, gen, survivors, kept, idFor, evaluated, board>>

(* After the last genome of the cohort the run goes on to the selection.   *)
Advance(r, last) ==
  /\ pc' = [pc EXCEPT ![r] = IF last THEN "select" ELSE "evaluate"]
  /\ pos' = [pos EXCEPT ![r] = IF last THEN 1 ELSE @ + 1]

(* evaluate_genome, then the first statement of persist: the row is        *)
(* written with the status of Strategy::new, "candidate", whatever the row *)
(* said before.  A scored genome still has its score to insert.            *)
EvaluateAndUpsert(r) ==
  /\ pc[r] = "evaluate"
  /\ LET g == cohort[r][pos[r]] IN
     \E id \in IdChoices(r, g), sc \in Outcomes(g) :
       LET ids == [idFor[r] EXCEPT ![g] = id] IN
       /\ idFor' = [idFor EXCEPT ![r] = ids]
       /\ UpsertStrategy(id, g, "candidate")
       /\ evaluated' = [evaluated EXCEPT ![r] =
            Append(@, [id |-> id, genome |-> g, score |-> sc, trials |-> Trials(ids)])]
       /\ IF sc = NoScore
          THEN Advance(r, pos[r] = Len(cohort[r]))
          ELSE pc' = [pc EXCEPT ![r] = "score"] /\ UNCHANGED pos
  /\ UNCHANGED <<oosLatest, gen, cohort, survivors, kept, seen, board>>

(* The second statement of persist.                                        *)
InsertScore(r) ==
  /\ pc[r] = "score"
  /\ LET ev == evaluated[r][Len(evaluated[r])] IN InsertOosScore(ev.id, ev.score)
  /\ Advance(r, pos[r] = Len(cohort[r]))
  /\ UNCHANGED <<strategies, touched, gen, cohort, survivors, kept, seen, idFor, evaluated, board>>

(* select_survivors, one evaluated genome at a time: a promotable one is   *)
(* promoted and carried forward, a survivor keeps its row and is carried   *)
(* forward, a scored failure is retired, an unscored one is left alone.    *)
Selecting(r) == pc[r] = "select" /\ pos[r] <= Len(evaluated[r])

Carry(r, g) == kept' = [kept EXCEPT ![r] = Append(@, g)]

Select(r) ==
  /\ Selecting(r)
  /\ LET ev == evaluated[r][pos[r]] IN
     \/ /\ Promotable(ev.genome, ev.score)
        /\ UpdateStatus(ev.id, "promoted")
        /\ Carry(r, ev.genome)
     \/ /\ ~Promotable(ev.genome, ev.score)
        /\ Survives(ev.score)
        /\ Carry(r, ev.genome)
        /\ UNCHANGED <<strategies, touched>>
     \/ /\ ev.score # NoScore
        /\ ~Survives(ev.score)
        /\ UpdateStatus(ev.id, "retired")
        /\ UNCHANGED kept
     \/ /\ ev.score = NoScore
        /\ UNCHANGED <<strategies, touched, kept>>
  /\ pos' = [pos EXCEPT ![r] = @ + 1]
  /\ UNCHANGED <<oosLatest, pc, gen, cohort, survivors, seen, idFor, evaluated, board>>

(* Mutant: one generation too many.                                        *)
AfterOneMore(n) == IF n <= MaxGen THEN "build" ELSE "done"

(* Where the generation loop goes after n generations.                     *)
AfterGeneration(n) == IF n < MaxGen THEN "build" ELSE "done"

FinishGeneration(r) ==
  /\ pc[r] = "select"
  /\ pos[r] > Len(evaluated[r])
  /\ survivors' = [survivors EXCEPT ![r] = kept[r]]
  /\ kept' = [kept EXCEPT ![r] = <<>>]
  /\ board' = [board EXCEPT ![r] = @ \o evaluated[r]]
  /\ evaluated' = [evaluated EXCEPT ![r] = <<>>]
  /\ gen' = [gen EXCEPT ![r] = @ + 1]
  /\ pc' = [pc EXCEPT ![r] = AfterGeneration(gen[r] + 1)]
  /\ UNCHANGED <<tableVars, cohort, pos, seen, idFor>>

(* A store error propagates with `?`, or the process is killed: the run    *)
(* ends where it stands and every later statement is never executed.       *)
Abort(r) ==
  /\ pc[r] \notin {"idle", "done", "crashed"}
  /\ pc' = [pc EXCEPT ![r] = "crashed"]
  /\ UNCHANGED <<tableVars, gen, cohort, pos, survivors, kept, seen, idFor, evaluated, board>>

Evolve(r) ==
  \/ Begin(r)
  \/ NextGeneration(r)
  \/ EvaluateAndUpsert(r)
  \/ InsertScore(r)
  \/ Select(r)
  \/ FinishGeneration(r)

SearchNext == \E r \in Runs : Evolve(r) \/ Abort(r)

SearchSpec == SearchInit /\ [][SearchNext]_searchVars

-----------------------------------------------------------------------------
(* Every evaluation of the run so far, in order.                           *)
History(r) == board[r] \o evaluated[r]

(* The status select_survivors leaves an evaluation with.                  *)
Verdict(ev) ==
  IF Promotable(ev.genome, ev.score) THEN "promoted"
  ELSE IF Survives(ev.score) \/ ev.score = NoScore THEN "candidate" ELSE "retired"

(* Within a run a signature keeps the id it was first given and no id is   *)
(* ever shared by two signatures or by two runs, so carrying an elite      *)
(* forward updates its one row (population.rs, id_for_signature).          *)
OneIdPerSignature ==
  /\ \A r \in Runs : \A i, j \in DOMAIN History(r) :
       History(r)[i].genome = History(r)[j].genome
         <=> History(r)[i].id = History(r)[j].id
  /\ \A r, q \in Runs : r # q =>
       \A i \in DOMAIN History(r), j \in DOMAIN History(q) :
         History(r)[i].id # History(q)[j].id

(* When a run has finished, each strategy it evaluated has the status its  *)
(* LAST evaluation earned, however often it was promoted or kept earlier   *)
(* in the run as an elite.                                                 *)
FinishedRunMatchesVerdict ==
  \A r \in Runs : pc[r] = "done" =>
    \A i \in DOMAIN board[r] :
      (\A j \in DOMAIN board[r] : j > i => board[r][j].id # board[r][i].id)
        => HasStatus(board[r][i].id, Verdict(board[r][i]))

(* n_search_trials deflates the DSR: it is the number of DISTINCT genomes  *)
(* evaluated so far in the run, re-scored elites not counted again.        *)
TrialsCountDistinctGenomes ==
  \A r \in Runs : \A i \in DOMAIN History(r) :
    History(r)[i].trials = Cardinality({History(r)[j].genome : j \in 1..i})

(* A crash leaves a usable scoreboard (population.rs:7): the newest score  *)
(* stored for a strategy of a finished generation is one this run computed *)
(* in that generation or later, never an older one and never none.         *)
ScoreboardDurable ==
  \A r \in Runs : \A i \in DOMAIN board[r] :
    board[r][i].score # NoScore =>
      \E j \in i..Len(History(r)) :
        /\ History(r)[j].id = board[r][i].id
        /\ History(r)[j].score # NoScore
        /\ oosLatest[board[r][i].id] = History(r)[j].score

(* A genome the survivor rule killed is not revived by a later generation  *)
(* of any run: no step takes a row out of retired.                         *)
RetiredStaysRetired ==
  [][\A id \in Ids : HasStatus(id, "retired") => HasStatus(id, "retired")']_searchVars

(* population.rs:287 says a genome whose validation fails is skipped: a    *)
(* strategy that was promoted keeps its status through a failed re-scoring.*)
SkippedEvaluationKeepsPromotion ==
  [][\A r \in Runs : EvaluateAndUpsert(r) =>
       LET ev == evaluated'[r][Len(evaluated'[r])] IN
       ev.score = NoScore /\ HasStatus(ev.id, "promoted")
         => strategies'[ev.id].status = "promoted"]_searchVars

(* population.rs:405 promises a leaderboard without repetition: among the  *)
(* evaluations a finished run returns, which leaderboard(n) filters and    *)
(* cuts, no scored strategy stands twice.                                  *)
LeaderboardShowsEachOnce ==
  \A r \in Runs : pc[r] = "done" =>
    \A i, j \in DOMAIN board[r] :
      board[r][i].id = board[r][j].id /\ NoScore \notin {board[r][i].score, board[r][j].score}
        => i = j

-----------------------------------------------------------------------------
(* The inductive strengthening the proofs rest on, one named part per      *)
(* fact.  An id belongs to one signature of one run, for ever.             *)
IdsDisjoint ==
  \A r, q \in Runs : \A g, h \in Genomes :
    idFor[r][g] = idFor[q][h] /\ idFor[r][g] # NoId => r = q /\ g = h

(* Every row of the table was written under an id some run has minted.     *)
StoredIsMinted == Stored \subseteq Minted

(* What a run has evaluated carries the id of its signature.               *)
OwnIds(r) ==
  /\ \A i \in 1..Len(evaluated[r]) : evaluated[r][i].id = idFor[r][evaluated[r][i].genome]
  /\ \A i \in 1..Len(board[r]) : board[r][i].id = idFor[r][board[r][i].genome]

(* The evaluations of the current generation are a prefix of its cohort,   *)
(* and a cohort never holds a signature twice.                             *)
EvaluatedIsPrefix(r) ==
  /\ RepetitionFree(cohort[r])
  /\ RepetitionFree(survivors[r])
  /\ Len(evaluated[r]) <= Len(cohort[r])
  /\ \A i \in 1..Len(evaluated[r]) : evaluated[r][i].genome = cohort[r][i]

(* Where the indices stand at each program point.                          *)
Progress(r) ==
  /\ pc[r] \notin {"done", "crashed"} => gen[r] < MaxGen
  /\ pc[r] \in {"idle", "build", "evaluate", "score"} => kept[r] = <<>>
  /\ pc[r] \in {"idle", "build", "done"} => evaluated[r] = <<>>
  /\ pc[r] = "evaluate" => pos[r] \in 1..Len(cohort[r]) /\ Len(evaluated[r]) = pos[r] - 1
  /\ pc[r] = "score" => pos[r] \in 1..Len(cohort[r]) /\ Len(evaluated[r]) = pos[r]

(* Survivors pushed so far are genomes already selected on.                *)
KeptAreSelected(r) ==
  /\ RepetitionFree(kept[r])
  /\ pc[r] = "select" =>
       /\ pos[r] \in 1..(Len(evaluated[r]) + 1)
       /\ \A k \in 1..Len(kept[r]) : \E j \in 1..(pos[r] - 1) : evaluated[r][j].genome = kept[r][k]

(* A scored evaluation is in the table under its genome, with that score   *)
(* the newest one; the row whose score is still to be inserted is no       *)
(* longer promoted.                                                        *)
Persisted(r) ==
  /\ pc[r] = "score" =>
       LET ev == evaluated[r][Len(evaluated[r])] IN
       /\ ev.score # NoScore
       /\ strategies[ev.id] # NoRow
       /\ strategies[ev.id].genome = ev.genome
       /\ strategies[ev.id].status # "promoted"
  /\ pc[r] \in {"evaluate", "score", "select"} =>
       \A i \in 1..Len(evaluated[r]) :
         evaluated[r][i].score # NoScore /\ (pc[r] = "score" => i < Len(evaluated[r])) =>
           /\ strategies[evaluated[r][i].id] # NoRow
           /\ strategies[evaluated[r][i].id].genome = evaluated[r][i].genome
           /\ oosLatest[evaluated[r][i].id] = evaluated[r][i].score

RunInvariant(r) ==
  /\ OwnIds(r)
  /\ EvaluatedIsPrefix(r)
  /\ Progress(r)
  /\ KeptAreSelected(r)
  /\ Persisted(r)

SearchInvariant ==
  /\ SearchTypeOK
  /\ PromotedHasPassingScore
  /\ IdsDisjoint
  /\ StoredIsMinted
  /\ \A r \in Runs : RunInvariant(r)

(* What is true of the searches as long as nothing else writes statuses.   *)
(* The signatures with an id are those evaluated so far.                   *)
SignaturesEvaluated(r) ==
  \A g \in Genomes :
    idFor[r][g] # NoId <=> \E j \in 1..Len(History(r)) : History(r)[j].genome = g

(* A row carries the verdict on its strategy's last evaluation, from the   *)
(* moment select_survivors has passed it, and is a candidate before.       *)
VerdictStands(r) ==
  /\ \A i \in 1..Len(board[r]) :
       (\A j \in 1..Len(History(r)) : j > i => History(r)[j].id # board[r][i].id)
         => HasStatus(board[r][i].id, Verdict(board[r][i]))
  /\ \A i \in 1..Len(evaluated[r]) :
       LET ev == evaluated[r][i] IN
       /\ pc[r] \in {"evaluate", "score"} => HasStatus(ev.id, "candidate")
       /\ pc[r] = "select" => HasStatus(ev.id, IF i < pos[r] THEN Verdict(ev) ELSE "candidate")

(* A run that has retired a signature never has it in hand again: it is    *)
(* seen, and neither a survivor nor in the cohort.                         *)
RetiredAreGone(r) ==
  /\ SeqRange(cohort[r]) \subseteq seen[r]
  /\ \A g \in Genomes : idFor[r][g] # NoId => g \in seen[r]
  /\ \A g \in Genomes : idFor[r][g] # NoId /\ HasStatus(idFor[r][g], "retired") =>
       /\ pc[r] \in {"idle", "build"} => g \notin SeqRange(survivors[r])
       /\ pc[r] \in {"evaluate", "score"} => g \notin SeqRange(cohort[r])
       /\ pc[r] = "select" => g \notin SeqRange(kept[r])

StatusInvariant ==
  /\ SearchInvariant
  /\ \A r \in Runs : SignaturesEvaluated(r) /\ VerdictStands(r) /\ RetiredAreGone(r)
=============================================================================

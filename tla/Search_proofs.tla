--------------------------- MODULE Search_proofs ---------------------------
(***************************************************************************)
(* Proofs about Search, for any number of runs, genomes, ids, generations  *)
(* and genomes per generation.  SearchInvariant is inductive and survives  *)
(* other writers that only condemn (Lifecycle_proofs); StatusInvariant     *)
(* adds what holds while the runs have the table to themselves.  The rest  *)
(* is read off these two.                                                  *)
(***************************************************************************)
EXTENDS Search, FiniteSetTheorems, TLAPS

(* The count behind n_search_trials is a number: genomes are finitely many.*)
LEMMA TrialsIsNat ==
  ASSUME NEW ids
  PROVE  Trials(ids) \in Nat
<1>1. IsFiniteSet(Genomes)
  BY SearchAssumption
<1>2. {g \in Genomes : ids[g] # NoId} \subseteq Genomes
  OBVIOUS
<1> QED
  BY <1>1, <1>2, FS_Subset, FS_CardinalityType DEF Trials

(* next_generation builds a repetition-free cohort of genomes.             *)
LEMMA CohortIsSound ==
  ASSUME NEW r \in Runs, SearchInvariant,
         NEW fresh \in Candidates(FreshGenomes(r), PerGen - Len(survivors[r]))
  PROVE  /\ survivors[r] \o fresh \in Seq(Genomes)
         /\ RepetitionFree(survivors[r] \o fresh)
<1>1. /\ survivors[r] \in Seq(Genomes)
      /\ RepetitionFree(survivors[r])
  BY DEF SearchInvariant, SearchTypeOK, RunInvariant, EvaluatedIsPrefix
<1>2. PICK k \in 0..(PerGen - Len(survivors[r])) :
        fresh \in {s \in [1..k -> FreshGenomes(r)] : RepetitionFree(s)}
  BY DEF Candidates
<1>3. /\ fresh \in Seq(FreshGenomes(r))
      /\ Len(fresh) = k
      /\ RepetitionFree(fresh)
  <2>1. k \in Nat
    BY <1>1, <1>2, SearchAssumption
  <2> QED
    BY <1>2, <2>1
<1>4. FreshGenomes(r) \subseteq Genomes
  BY DEF FreshGenomes
<1>5. \A i \in 1..Len(fresh) : fresh[i] \in Genomes /\ fresh[i] \notin SeqRange(survivors[r])
  BY <1>3 DEF FreshGenomes
<1>6. \A i \in 1..Len(fresh), j \in 1..Len(survivors[r]) : fresh[i] # survivors[r][j]
  BY <1>1, <1>5 DEF SeqRange
<1>7. fresh \in Seq(Genomes)
  BY <1>3, <1>4
<1> DEFINE c == survivors[r] \o fresh
<1>8. /\ c \in Seq(Genomes)
      /\ DOMAIN c = 1..(Len(survivors[r]) + Len(fresh))
      /\ \A i \in 1..Len(survivors[r]) : c[i] = survivors[r][i]
      /\ \A i \in DOMAIN c : i > Len(survivors[r]) =>
            i - Len(survivors[r]) \in 1..Len(fresh) /\ c[i] = fresh[i - Len(survivors[r])]
  BY <1>1, <1>7
<1>9. ASSUME NEW i \in DOMAIN c, NEW j \in DOMAIN c, c[i] = c[j]
      PROVE  i = j
  <2>1. CASE i <= Len(survivors[r]) /\ j <= Len(survivors[r])
    <3>1. i \in 1..Len(survivors[r]) /\ j \in 1..Len(survivors[r])
      BY <1>1, <1>8, <1>9, <2>1
    <3> QED
      BY <1>1, <1>8, <1>9, <3>1 DEF RepetitionFree
  <2>2. CASE i > Len(survivors[r]) /\ j > Len(survivors[r])
    <3>1. i - Len(survivors[r]) = j - Len(survivors[r])
      BY <1>3, <1>8, <1>9, <2>2 DEF RepetitionFree
    <3> QED
      BY <3>1, <1>1, <1>8, <1>7
  <2>3. CASE i <= Len(survivors[r]) /\ j > Len(survivors[r])
    <3>1. i \in 1..Len(survivors[r])
      BY <1>1, <1>8, <2>3, <1>7
    <3> QED
      BY <1>6, <1>8, <1>9, <2>3, <3>1
  <2>4. CASE i > Len(survivors[r]) /\ j <= Len(survivors[r])
    <3>1. j \in 1..Len(survivors[r])
      BY <1>1, <1>8, <2>4, <1>7
    <3> QED
      BY <1>6, <1>8, <1>9, <2>4, <3>1
  <2>5. i \in Nat /\ j \in Nat /\ Len(survivors[r]) \in Nat
    BY <1>1, <1>7, <1>8
  <2> QED
    BY <2>1, <2>2, <2>3, <2>4, <2>5
<1> QED
  BY <1>8, <1>9 DEF RepetitionFree

(* The id an evaluation is persisted under belongs to no other signature   *)
(* of any run, and is the one the run gave this signature, if it did.      *)
LEMMA ChosenIdIsOwn ==
  ASSUME SearchInvariant, NEW r \in Runs, NEW g \in Genomes, NEW id \in IdChoices(r, g)
  PROVE  /\ id \in Ids
         /\ \A q \in Runs, h \in Genomes : idFor[q][h] = id => q = r /\ h = g
         /\ idFor[r][g] # NoId => id = idFor[r][g]
<1>1. idFor \in [Runs -> [Genomes -> Ids \cup {NoId}]] /\ IdsDisjoint
  BY DEF SearchInvariant, SearchTypeOK
<1>2. CASE idFor[r][g] # NoId
  BY <1>1, <1>2 DEF IdChoices, IdsDisjoint
<1>3. CASE idFor[r][g] = NoId
  BY <1>1, <1>3 DEF IdChoices, Minted
<1> QED
  BY <1>2, <1>3

-----------------------------------------------------------------------------
(* A step that leaves a run's variables alone, and the rows and scores of  *)
(* what it has evaluated, keeps the run's part of the invariant.           *)
LEMMA UntouchedRun ==
  ASSUME NEW q \in Runs, RunInvariant(q),
         pc'[q] = pc[q], gen'[q] = gen[q], cohort'[q] = cohort[q], pos'[q] = pos[q],
         survivors'[q] = survivors[q], kept'[q] = kept[q], idFor'[q] = idFor[q],
         evaluated'[q] = evaluated[q], board'[q] = board[q],
         pc[q] = "score" => Len(evaluated[q]) \in 1..Len(evaluated[q]),
         \A i \in 1..Len(evaluated[q]) :
           /\ strategies'[evaluated[q][i].id] = strategies[evaluated[q][i].id]
           /\ oosLatest'[evaluated[q][i].id] = oosLatest[evaluated[q][i].id]
  PROVE  RunInvariant(q)'
<1>1. OwnIds(q)'
  BY DEF RunInvariant, OwnIds
<1>2. EvaluatedIsPrefix(q)'
  BY DEF RunInvariant, EvaluatedIsPrefix, RepetitionFree
<1>3. Progress(q)'
  BY DEF RunInvariant, Progress
<1>4. KeptAreSelected(q)'
  BY DEF RunInvariant, KeptAreSelected, RepetitionFree
<1>5. Persisted(q)'
  <2> DEFINE n == Len(evaluated[q])
  <2>1. Persisted(q)
    BY DEF RunInvariant
  <2>2. CASE pc[q] = "score"
    <3>1. /\ strategies'[evaluated[q][n].id] = strategies[evaluated[q][n].id]
          /\ n \in 1..n
      BY <2>2
    <3>2. LET ev == evaluated'[q][Len(evaluated'[q])] IN
          /\ ev.score # NoScore
          /\ strategies'[ev.id] # NoRow
          /\ strategies'[ev.id].genome = ev.genome
          /\ strategies'[ev.id].status # "promoted"
      BY <2>1, <2>2, <3>1 DEF Persisted
    <3> QED
      BY <2>1, <2>2, <3>2 DEF Persisted
  <2>3. CASE pc[q] # "score"
    BY <2>1, <2>3 DEF Persisted
  <2> QED
    BY <2>2, <2>3
<1> QED
  BY <1>1, <1>2, <1>3, <1>4, <1>5 DEF RunInvariant

(* While a score is owed, the evaluation it belongs to is there.           *)
LEMMA OwedEvaluationExists ==
  ASSUME SearchInvariant, NEW q \in Runs, pc[q] = "score"
  PROVE  Len(evaluated[q]) \in 1..Len(evaluated[q])
BY DEF SearchInvariant, SearchTypeOK, RunInvariant, Progress

(* The id of an evaluation is none that another run has given out.         *)
LEMMA OwnIdIsForeign ==
  ASSUME SearchInvariant, NEW q \in Runs, NEW r \in Runs, q # r,
         NEW i \in 1..Len(evaluated[r]), NEW h \in Genomes
  PROVE  evaluated[r][i].id # idFor[q][h]
<1>1. /\ evaluated[r][i] \in Evaluated
      /\ NoId \notin Ids
  BY SearchAssumption DEF SearchInvariant, SearchTypeOK
<1>2. evaluated[r][i].id = idFor[r][evaluated[r][i].genome]
  BY DEF SearchInvariant, RunInvariant, OwnIds
<1>3. IdsDisjoint
  BY DEF SearchInvariant
<1> QED
  BY <1>1, <1>2, <1>3 DEF IdsDisjoint, Evaluated

(* Within a generation, two evaluations have two signatures and two ids.   *)
LEMMA EvaluationsDoNotShareIds ==
  ASSUME SearchInvariant, NEW r \in Runs,
         NEW i \in 1..Len(evaluated[r]), NEW j \in 1..Len(evaluated[r]), i # j
  PROVE  /\ evaluated[r][i].genome # evaluated[r][j].genome
         /\ evaluated[r][i].id # evaluated[r][j].id
<1>1. /\ evaluated[r][i] \in Evaluated
      /\ evaluated[r][j] \in Evaluated
      /\ cohort[r] \in Seq(Genomes)
      /\ evaluated[r] \in Seq(Evaluated)
      /\ NoId \notin Ids
  BY SearchAssumption DEF SearchInvariant, SearchTypeOK
<1>2. EvaluatedIsPrefix(r)
  BY DEF SearchInvariant, RunInvariant
<1>3. i \in DOMAIN cohort[r] /\ j \in DOMAIN cohort[r]
  BY <1>1, <1>2 DEF EvaluatedIsPrefix
<1>4. evaluated[r][i].genome # evaluated[r][j].genome
  BY <1>2, <1>3 DEF EvaluatedIsPrefix, RepetitionFree
<1>5. /\ evaluated[r][i].id = idFor[r][evaluated[r][i].genome]
      /\ evaluated[r][j].id = idFor[r][evaluated[r][j].genome]
      /\ IdsDisjoint
  BY DEF SearchInvariant, RunInvariant, OwnIds
<1> QED
  BY <1>1, <1>4, <1>5 DEF IdsDisjoint, Evaluated

-----------------------------------------------------------------------------
(* What a step evaluates is a record of the declared shape.                *)
LEMMA NewEvaluationIsTyped ==
  ASSUME SearchInvariant, NEW r \in Runs, NEW g \in Genomes,
         NEW id \in Ids, NEW sc \in Outcomes(g), NEW ids
  PROVE  [id |-> id, genome |-> g, score |-> sc, trials |-> Trials(ids)] \in Evaluated
BY TrialsIsNat DEF Evaluated, Outcomes

(* Neither the status update nor the move to the next genome leaves the    *)
(* types.                                                                  *)
LEMMA UpdateStatusIsTyped ==
  ASSUME TableTypeOK, NEW id \in Ids, NEW st \in Status, UpdateStatus(id, st)
  PROVE  /\ strategies' \in [Ids -> Row \cup {NoRow}]
         /\ touched' \in SUBSET Ids
<1>1. CASE id \in Stored
  <2>1. strategies[id] \in Row
    BY <1>1 DEF TableTypeOK, Stored
  <2>2. [strategies[id] EXCEPT !.status = st] \in Row
    BY <2>1 DEF Row
  <2>3. /\ strategies' = [strategies EXCEPT ![id] = [strategies[id] EXCEPT !.status = st]]
        /\ touched' = touched \cup {id}
    BY <1>1 DEF UpdateStatus
  <2> QED
    BY <2>2, <2>3 DEF TableTypeOK
<1>2. CASE id \notin Stored
  BY <1>2 DEF UpdateStatus, TableTypeOK
<1> QED
  BY <1>1, <1>2

LEMMA AdvanceIsTyped ==
  ASSUME SearchTypeOK, NEW r \in Runs, NEW last \in BOOLEAN, Advance(r, last)
  PROVE  /\ pc' \in [Runs -> Steps]
         /\ pos' \in [Runs -> Nat]
<1>1. CASE last
  BY <1>1 DEF SearchTypeOK, Advance, Steps
<1>2. CASE ~last
  BY <1>2 DEF SearchTypeOK, Advance, Steps
<1> QED
  BY <1>1, <1>2

(* Every step of every run keeps the variables well typed.                 *)
LEMMA TypeStep ==
  ASSUME SearchInvariant, NEW r \in Runs, Evolve(r) \/ Abort(r)
  PROVE  SearchTypeOK'
<1> USE DEF SearchTypeOK, TableTypeOK
<1>0. SearchTypeOK /\ Progress(r) /\ EvaluatedIsPrefix(r)
  BY DEF SearchInvariant, RunInvariant
<1>1. CASE Begin(r)
  BY <1>0, <1>1 DEF Begin, tableVars, Steps
<1>2. CASE NextGeneration(r)
  <2>1. PICK fresh \in Candidates(FreshGenomes(r), PerGen - Len(survivors[r])) :
          LET genomes == survivors[r] \o fresh IN
          /\ cohort' = [cohort EXCEPT ![r] = genomes]
          /\ seen' = [seen EXCEPT ![r] = @ \cup SeqRange(genomes)]
          /\ pc' = [pc EXCEPT ![r] = IF genomes = <<>> THEN "select" ELSE "evaluate"]
    BY <1>2 DEF NextGeneration
  <2>2. survivors[r] \o fresh \in Seq(Genomes)
    BY <2>1, CohortIsSound
  <2>3. SeqRange(survivors[r] \o fresh) \subseteq Genomes
    BY <2>2 DEF SeqRange
  <2> QED
    BY <1>0, <1>2, <2>1, <2>2, <2>3 DEF NextGeneration, tableVars, Steps
<1>3. CASE EvaluateAndUpsert(r)
  <2> DEFINE g == cohort[r][pos[r]]
  <2>1. g \in Genomes
    BY <1>0, <1>3 DEF EvaluateAndUpsert, Progress
  <2>2. PICK id \in IdChoices(r, g), sc \in Outcomes(g) :
          LET ids == [idFor[r] EXCEPT ![g] = id] IN
          /\ idFor' = [idFor EXCEPT ![r] = ids]
          /\ UpsertStrategy(id, g, "candidate")
          /\ evaluated' = [evaluated EXCEPT ![r] =
               Append(@, [id |-> id, genome |-> g, score |-> sc, trials |-> Trials(ids)])]
          /\ IF sc = NoScore
             THEN Advance(r, pos[r] = Len(cohort[r]))
             ELSE pc' = [pc EXCEPT ![r] = "score"] /\ UNCHANGED pos
    BY <1>3 DEF EvaluateAndUpsert
  <2>3. id \in Ids
    BY <2>1, ChosenIdIsOwn
  <2>4. [id |-> id, genome |-> g, score |-> sc,
         trials |-> Trials([idFor[r] EXCEPT ![g] = id])] \in Evaluated
    BY <2>1, <2>3, NewEvaluationIsTyped
  <2>5. evaluated' \in [Runs -> Seq(Evaluated)]
    BY <1>0, <2>2, <2>4
  <2>6. idFor' \in [Runs -> [Genomes -> Ids \cup {NoId}]]
    BY <1>0, <2>1, <2>2, <2>3
  <2>7. /\ strategies' \in [Ids -> Row \cup {NoRow}]
        /\ touched' \in SUBSET Ids
    BY <1>0, <2>1, <2>2, <2>3 DEF UpsertStrategy, Row, Status
  <2>8. /\ pc' \in [Runs -> Steps]
        /\ pos' \in [Runs -> Nat]
    <3>1. CASE sc = NoScore
      BY <1>0, <2>2, <3>1, AdvanceIsTyped
    <3>2. CASE sc # NoScore
      BY <1>0, <2>2, <3>2 DEF Steps
    <3> QED
      BY <3>1, <3>2
  <2> QED
    BY <1>0, <1>3, <2>5, <2>6, <2>7, <2>8 DEF EvaluateAndUpsert
<1>4. CASE InsertScore(r)
  <2>1. /\ Len(evaluated[r]) \in 1..Len(evaluated[r])
        /\ evaluated[r][Len(evaluated[r])] \in Evaluated
    BY <1>0, <1>4, OwedEvaluationExists DEF InsertScore
  <2>2. oosLatest' \in [Ids -> ScoreSpace \cup {NoScore}]
    BY <1>0, <1>4, <2>1 DEF InsertScore, InsertOosScore, Evaluated
  <2>3. /\ pc' \in [Runs -> Steps]
        /\ pos' \in [Runs -> Nat]
    BY <1>0, <1>4, AdvanceIsTyped DEF InsertScore
  <2> QED
    BY <1>0, <1>4, <2>2, <2>3 DEF InsertScore
<1>5. CASE Select(r)
  <2>1. /\ pos[r] \in 1..Len(evaluated[r])
        /\ evaluated[r][pos[r]] \in Evaluated
    BY <1>0, <1>5 DEF Select, Selecting, SearchInvariant, RunInvariant, KeptAreSelected
  <2> DEFINE ev == evaluated[r][pos[r]]
  <2>2. \A st \in Status : UpdateStatus(ev.id, st) =>
          /\ strategies' \in [Ids -> Row \cup {NoRow}]
          /\ touched' \in SUBSET Ids
    BY <1>0, <2>1, UpdateStatusIsTyped DEF Evaluated
  <2>3. /\ strategies' \in [Ids -> Row \cup {NoRow}]
        /\ touched' \in SUBSET Ids
    BY <1>0, <1>5, <2>2 DEF Select, Status
  <2>4. kept' \in [Runs -> Seq(Genomes)]
    <3>1. Carry(r, ev.genome) \/ kept' = kept
      BY <1>5 DEF Select
    <3>2. ev.genome \in Genomes
      BY <2>1 DEF Evaluated
    <3>3. Append(kept[r], ev.genome) \in Seq(Genomes)
      BY <1>0, <3>2
    <3> QED
      BY <1>0, <3>1, <3>3 DEF Carry
  <2>5. /\ pos' = [pos EXCEPT ![r] = @ + 1]
        /\ UNCHANGED <<oosLatest, pc, gen, cohort, survivors, seen, idFor, evaluated, board>>
    BY <1>5 DEF Select
  <2> QED
    BY <1>0, <2>3, <2>4, <2>5
<1>6. CASE FinishGeneration(r)
  BY <1>0, <1>6, SearchAssumption DEF FinishGeneration, AfterGeneration, tableVars, Steps, Progress
<1>7. CASE Abort(r)
  BY <1>0, <1>7 DEF Abort, tableVars, Steps
<1> QED
  BY <1>1, <1>2, <1>3, <1>4, <1>5, <1>6, <1>7 DEF Evolve

-----------------------------------------------------------------------------
(* What evaluate_genome and the first statement of persist come down to.   *)
LEMMA EvaluateAndUpsertEffect ==
  ASSUME SearchInvariant, NEW r \in Runs, EvaluateAndUpsert(r)
  PROVE  LET g == cohort[r][pos[r]] IN
         \E id \in IdChoices(r, g), sc \in ScoreSpace \cup {NoScore} :
           /\ g \in Genomes
           /\ id \in Ids
           /\ idFor' = [idFor EXCEPT ![r] = [idFor[r] EXCEPT ![g] = id]]
           /\ strategies' = [strategies EXCEPT ![id] = [genome |-> g, status |-> "candidate"]]
           /\ \E trials \in Nat :
                /\ trials = Trials(idFor'[r])
                /\ evaluated'[r] = Append(evaluated[r],
                     [id |-> id, genome |-> g, score |-> sc, trials |-> trials])
           /\ \/ /\ sc = NoScore
                 /\ Advance(r, pos[r] = Len(cohort[r]))
              \/ /\ sc # NoScore
                 /\ pc' = [pc EXCEPT ![r] = "score"]
                 /\ pos' = pos
           /\ \A q \in Runs \ {r} : evaluated'[q] = evaluated[q]
           /\ UNCHANGED <<oosLatest, gen, cohort, survivors, kept, seen, board>>
<1> DEFINE g == cohort[r][pos[r]]
<1>0. SearchTypeOK /\ Progress(r)
  BY DEF SearchInvariant, RunInvariant
<1>1. g \in Genomes
  BY <1>0 DEF EvaluateAndUpsert, Progress, SearchTypeOK
<1>2. PICK id \in IdChoices(r, g), sc \in Outcomes(g) :
        LET ids == [idFor[r] EXCEPT ![g] = id] IN
        /\ idFor' = [idFor EXCEPT ![r] = ids]
        /\ UpsertStrategy(id, g, "candidate")
        /\ evaluated' = [evaluated EXCEPT ![r] =
             Append(@, [id |-> id, genome |-> g, score |-> sc, trials |-> Trials(ids)])]
        /\ IF sc = NoScore
           THEN Advance(r, pos[r] = Len(cohort[r]))
           ELSE pc' = [pc EXCEPT ![r] = "score"] /\ UNCHANGED pos
  BY DEF EvaluateAndUpsert
<1>3. id \in Ids
  BY <1>1, ChosenIdIsOwn
<1>4. Trials([idFor[r] EXCEPT ![g] = id]) \in Nat
  BY TrialsIsNat
<1>5. sc \in ScoreSpace \cup {NoScore}
  BY DEF Outcomes
<1>6. strategies' = [strategies EXCEPT ![id] = [genome |-> g, status |-> "candidate"]]
  BY <1>2 DEF UpsertStrategy
<1>7. /\ evaluated'[r] = Append(evaluated[r],
           [id |-> id, genome |-> g, score |-> sc, trials |-> Trials([idFor[r] EXCEPT ![g] = id])])
      /\ \A q \in Runs \ {r} : evaluated'[q] = evaluated[q]
  BY <1>0, <1>2 DEF SearchTypeOK
<1>8. /\ UNCHANGED <<oosLatest, gen, cohort, survivors, kept, seen, board>>
      /\ idFor'[r] = [idFor[r] EXCEPT ![g] = id]
  BY <1>0, <1>2 DEF EvaluateAndUpsert, SearchTypeOK
<1>9. \/ /\ sc = NoScore
         /\ Advance(r, pos[r] = Len(cohort[r]))
      \/ /\ sc # NoScore
         /\ pc' = [pc EXCEPT ![r] = "score"]
         /\ pos' = pos
  BY <1>2
<1> QED
  BY <1>1, <1>2, <1>3, <1>4, <1>5, <1>6, <1>7, <1>8, <1>9

(* select_survivors changes one row at most, its status only, and says     *)
(* "promoted" only on a promotable result.                                 *)
LEMMA SelectEffect ==
  ASSUME SearchInvariant, NEW r \in Runs, Select(r)
  PROVE  LET ev == evaluated[r][pos[r]] IN
         /\ pos[r] \in 1..Len(evaluated[r])
         /\ ev \in Evaluated
         /\ \/ strategies' = strategies
            \/ /\ strategies[ev.id] # NoRow
               /\ ev.score # NoScore
               /\ \E st \in {"promoted", "retired"} :
                    /\ strategies' = [strategies EXCEPT ![ev.id] = [@ EXCEPT !.status = st]]
                    /\ st = "promoted" => Promotable(ev.genome, ev.score)
         /\ Carry(r, ev.genome) \/ kept' = kept
         /\ pos' = [pos EXCEPT ![r] = @ + 1]
         /\ UNCHANGED <<oosLatest, pc, gen, cohort, survivors, seen, idFor, evaluated, board>>
<1> DEFINE ev == evaluated[r][pos[r]]
<1>1. /\ pos[r] \in 1..Len(evaluated[r])
      /\ ev \in Evaluated
  BY DEF Select, Selecting, SearchInvariant, SearchTypeOK, RunInvariant, KeptAreSelected
<1>2. \/ UpdateStatus(ev.id, "promoted") /\ Promotable(ev.genome, ev.score)
      \/ UpdateStatus(ev.id, "retired") /\ ev.score # NoScore
      \/ UNCHANGED <<strategies, touched>>
  BY DEF Select
<1>3. Promotable(ev.genome, ev.score) => ev.score # NoScore
  BY DEF Promotable
<1>4. ASSUME NEW st, UpdateStatus(ev.id, st), strategies' # strategies
      PROVE  /\ strategies[ev.id] # NoRow
             /\ strategies' = [strategies EXCEPT ![ev.id] = [@ EXCEPT !.status = st]]
  BY <1>4 DEF UpdateStatus, Stored
<1>5. \/ strategies' = strategies
      \/ /\ strategies[ev.id] # NoRow
         /\ ev.score # NoScore
         /\ \E st \in {"promoted", "retired"} :
              /\ strategies' = [strategies EXCEPT ![ev.id] = [@ EXCEPT !.status = st]]
              /\ st = "promoted" => Promotable(ev.genome, ev.score)
  BY <1>2, <1>3, <1>4
<1>6. Carry(r, ev.genome) \/ kept' = kept
  BY DEF Select
<1>7. /\ pos' = [pos EXCEPT ![r] = @ + 1]
      /\ UNCHANGED <<oosLatest, pc, gen, cohort, survivors, seen, idFor, evaluated, board>>
  BY DEF Select
<1> QED
  BY <1>1, <1>5, <1>6, <1>7

(* Ids stay owned: a new id comes from outside every run's map.            *)
LEMMA IdsStep ==
  ASSUME SearchInvariant, NEW r \in Runs, Evolve(r) \/ Abort(r)
  PROVE  IdsDisjoint'
<1>0. IdsDisjoint /\ SearchTypeOK
  BY DEF SearchInvariant
<1>1. CASE EvaluateAndUpsert(r)
  <2> DEFINE g == cohort[r][pos[r]]
  <2>1. PICK id \in IdChoices(r, g) :
          g \in Genomes /\ idFor' = [idFor EXCEPT ![r] = [idFor[r] EXCEPT ![g] = id]]
    BY <1>1, EvaluateAndUpsertEffect
  <2>2. \A q \in Runs, h \in Genomes : idFor[q][h] = id => q = r /\ h = g
    BY <2>1, ChosenIdIsOwn
  <2>3. \A q \in Runs, h \in Genomes :
          idFor'[q][h] = IF q = r /\ h = g THEN id ELSE idFor[q][h]
    BY <1>0, <2>1 DEF SearchTypeOK
  <2> QED
    BY <1>0, <2>1, <2>2, <2>3 DEF IdsDisjoint
<1>2. CASE idFor' = idFor
  BY <1>0, <1>2 DEF IdsDisjoint
<1> QED
  BY <1>1, <1>2 DEF Evolve, Abort, Begin, NextGeneration, InsertScore, Select, FinishGeneration

(* A row is only ever created under an id that has just been minted.       *)
LEMMA StoredStep ==
  ASSUME SearchInvariant, NEW r \in Runs, Evolve(r) \/ Abort(r)
  PROVE  StoredIsMinted'
<1>0. SearchTypeOK /\ StoredIsMinted
  BY DEF SearchInvariant
<1> SUFFICES ASSUME NEW p \in Ids, strategies'[p] # NoRow
             PROVE  \E q \in Runs, h \in Genomes : idFor'[q][h] = p
  BY DEF StoredIsMinted, Stored, Minted
<1>1. strategies[p] # NoRow => \E q \in Runs, h \in Genomes : idFor[q][h] = p
  BY <1>0 DEF StoredIsMinted, Stored, Minted
<1>2. CASE EvaluateAndUpsert(r)
  <2> DEFINE g == cohort[r][pos[r]]
  <2>1. PICK id \in IdChoices(r, g) :
          /\ g \in Genomes
          /\ idFor' = [idFor EXCEPT ![r] = [idFor[r] EXCEPT ![g] = id]]
          /\ strategies' = [strategies EXCEPT ![id] = [genome |-> g, status |-> "candidate"]]
    BY <1>2, EvaluateAndUpsertEffect
  <2>2. idFor[r][g] # NoId => id = idFor[r][g]
    BY <2>1, ChosenIdIsOwn
  <2>3. idFor'[r][g] = id
    BY <1>0, <2>1 DEF SearchTypeOK
  <2>4. CASE p = id
    BY <2>1, <2>3, <2>4
  <2>5. CASE p # id
    <3>1. strategies[p] # NoRow
      BY <1>0, <2>1, <2>5 DEF SearchTypeOK, TableTypeOK
    <3>2. PICK q \in Runs, h \in Genomes : idFor[q][h] = p
      BY <1>1, <3>1
    <3>3. ~(q = r /\ h = g)
      BY <2>2, <2>5, <3>2, SearchAssumption
    <3>4. idFor'[q][h] = idFor[q][h]
      BY <1>0, <2>1, <3>3 DEF SearchTypeOK
    <3> QED
      BY <3>2, <3>4
  <2> QED
    BY <2>4, <2>5
<1>3. CASE Select(r)
  <2>1. /\ idFor' = idFor
        /\ \/ strategies' = strategies
           \/ /\ strategies[evaluated[r][pos[r]].id] # NoRow
              /\ \E st \in {"promoted", "retired"} :
                   strategies' = [strategies EXCEPT ![evaluated[r][pos[r]].id] =
                                    [@ EXCEPT !.status = st]]
    BY <1>3, SelectEffect
  <2>2. strategies[p] # NoRow
    BY <1>0, <2>1 DEF SearchTypeOK, TableTypeOK
  <2> QED
    BY <1>1, <2>1, <2>2
<1>4. CASE UNCHANGED <<strategies, idFor>>
  BY <1>1, <1>4
<1> QED
  BY <1>2, <1>3, <1>4
     DEF Evolve, Abort, Begin, NextGeneration, InsertScore, FinishGeneration, tableVars

(* No step leaves a promoted strategy without a passing newest score.      *)
LEMMA TableStep ==
  ASSUME SearchInvariant, NEW r \in Runs, Evolve(r) \/ Abort(r)
  PROVE  PromotedHasPassingScore'
<1>0. SearchTypeOK /\ PromotedHasPassingScore /\ RunInvariant(r)
  BY DEF SearchInvariant
<1> SUFFICES ASSUME NEW p \in Ids, strategies'[p] # NoRow, strategies'[p].status = "promoted"
             PROVE  Promotable(strategies'[p].genome, oosLatest'[p])
  BY DEF PromotedHasPassingScore, PromotedIds, HasStatus, Stored
<1> DEFINE WasPromoted == strategies[p] # NoRow /\ strategies[p].status = "promoted"
<1>1. WasPromoted => Promotable(strategies[p].genome, oosLatest[p])
  BY <1>0 DEF PromotedHasPassingScore, PromotedIds, HasStatus, Stored
<1>2. CASE UNCHANGED <<strategies, oosLatest>>
  BY <1>1, <1>2
<1>3. CASE EvaluateAndUpsert(r)
  <2>1. PICK id \in Ids, g \in Genomes :
          /\ strategies' = [strategies EXCEPT ![id] = [genome |-> g, status |-> "candidate"]]
          /\ oosLatest' = oosLatest
    BY <1>3, EvaluateAndUpsertEffect
  <2>2. p # id
    BY <1>0, <2>1 DEF SearchTypeOK, TableTypeOK
  <2> QED
    BY <1>1, <2>1, <2>2
<1>4. CASE InsertScore(r)
  <2> DEFINE ev == evaluated[r][Len(evaluated[r])]
  <2>1. strategies[ev.id].status # "promoted"
    BY <1>0, <1>4 DEF InsertScore, RunInvariant, Persisted
  <2>2. strategies' = strategies /\ oosLatest' = [oosLatest EXCEPT ![ev.id] = ev.score]
    BY <1>4 DEF InsertScore, InsertOosScore
  <2>3. p # ev.id
    BY <2>1, <2>2
  <2> QED
    BY <1>1, <2>2, <2>3
<1>5. CASE Select(r)
  <2> DEFINE ev == evaluated[r][pos[r]]
  <2>1. /\ pos[r] \in 1..Len(evaluated[r])
        /\ ev \in Evaluated
        /\ oosLatest' = oosLatest
    BY <1>5, SelectEffect
  <2>2. CASE strategies' = strategies
    BY <1>1, <2>1, <2>2
  <2>3. CASE strategies' # strategies
    <3>1. PICK st \in {"promoted", "retired"} :
            /\ strategies[ev.id] # NoRow
            /\ ev.score # NoScore
            /\ strategies' = [strategies EXCEPT ![ev.id] = [@ EXCEPT !.status = st]]
            /\ st = "promoted" => Promotable(ev.genome, ev.score)
      BY <1>5, <2>3, SelectEffect
    <3>2. ev.id \in Ids
      BY <2>1 DEF Evaluated
    <3>3. CASE p # ev.id
      BY <1>1, <2>1, <3>1, <3>2, <3>3
    <3>4. CASE p = ev.id
      <4>1. strategies[p] \in Row
        BY <1>0, <3>1, <3>4 DEF SearchTypeOK, TableTypeOK
      <4>2. /\ strategies'[p].genome = strategies[p].genome
            /\ strategies'[p].status = st
        BY <1>0, <3>1, <3>2, <3>4, <4>1 DEF SearchTypeOK, TableTypeOK, Row
      <4>3. /\ strategies[p].genome = ev.genome
            /\ oosLatest[p] = ev.score
        BY <1>0, <1>5, <2>1, <3>1, <3>4 DEF RunInvariant, Persisted, Select, Selecting
      <4> QED
        BY <2>1, <3>1, <4>2, <4>3
    <3> QED
      BY <3>3, <3>4
  <2> QED
    BY <2>2, <2>3
<1> QED
  BY <1>2, <1>3, <1>4, <1>5
     DEF Evolve, Abort, Begin, NextGeneration, FinishGeneration, tableVars

-----------------------------------------------------------------------------
(* A step of one run writes no variable of another run.                    *)
LEMMA OtherRunsAreUntouched ==
  ASSUME SearchInvariant, NEW r \in Runs, Evolve(r) \/ Abort(r), NEW q \in Runs, q # r
  PROVE  /\ pc'[q] = pc[q] /\ gen'[q] = gen[q] /\ cohort'[q] = cohort[q] /\ pos'[q] = pos[q]
         /\ survivors'[q] = survivors[q] /\ kept'[q] = kept[q] /\ seen'[q] = seen[q]
         /\ idFor'[q] = idFor[q] /\ evaluated'[q] = evaluated[q] /\ board'[q] = board[q]
<1>0. SearchTypeOK
  BY DEF SearchInvariant
<1> USE DEF SearchTypeOK
<1>1. CASE Begin(r)
  BY <1>0, <1>1 DEF Begin
<1>2. CASE NextGeneration(r)
  BY <1>0, <1>2 DEF NextGeneration
<1>3. CASE EvaluateAndUpsert(r)
  BY <1>0, <1>3 DEF EvaluateAndUpsert, Advance
<1>4. CASE InsertScore(r)
  BY <1>0, <1>4 DEF InsertScore, Advance
<1>5. CASE Select(r)
  <2>1. /\ Carry(r, evaluated[r][pos[r]].genome) \/ kept' = kept
        /\ pos' = [pos EXCEPT ![r] = @ + 1]
        /\ UNCHANGED <<oosLatest, pc, gen, cohort, survivors, seen, idFor, evaluated, board>>
    BY <1>5, SelectEffect
  <2>2. kept'[q] = kept[q] /\ pos'[q] = pos[q]
    BY <1>0, <2>1 DEF Carry
  <2> QED
    BY <2>1, <2>2
<1>6. CASE FinishGeneration(r)
  BY <1>0, <1>6 DEF FinishGeneration
<1>7. CASE Abort(r)
  BY <1>0, <1>7 DEF Abort
<1> QED
  BY <1>1, <1>2, <1>3, <1>4, <1>5, <1>6, <1>7 DEF Evolve

(* Nor a row or a score under an id of another run.                        *)
LEMMA OtherRowsAreUntouched ==
  ASSUME SearchInvariant, NEW r \in Runs, Evolve(r) \/ Abort(r), NEW q \in Runs, q # r,
         NEW h \in Genomes, NEW mine \in Ids, mine = idFor[q][h]
  PROVE  /\ strategies'[mine] = strategies[mine]
         /\ oosLatest'[mine] = oosLatest[mine]
<1>0. SearchTypeOK /\ IdsDisjoint /\ OwnIds(r) /\ mine # NoId
  BY SearchAssumption DEF SearchInvariant, RunInvariant
<1>1. CASE EvaluateAndUpsert(r)
  <2>1. PICK id \in IdChoices(r, cohort[r][pos[r]]) :
          /\ cohort[r][pos[r]] \in Genomes
          /\ strategies' = [strategies EXCEPT ![id] =
               [genome |-> cohort[r][pos[r]], status |-> "candidate"]]
          /\ oosLatest' = oosLatest
    BY <1>1, EvaluateAndUpsertEffect
  <2>2. id # mine
    BY <2>1, ChosenIdIsOwn
  <2> QED
    BY <1>0, <2>1, <2>2 DEF SearchTypeOK, TableTypeOK
<1>2. CASE InsertScore(r)
  <2>1. Len(evaluated[r]) \in 1..Len(evaluated[r])
    BY <1>2, OwedEvaluationExists DEF InsertScore
  <2>2. evaluated[r][Len(evaluated[r])].id # mine
    BY <2>1, OwnIdIsForeign
  <2>3. /\ strategies' = strategies
        /\ oosLatest' = [oosLatest EXCEPT ![evaluated[r][Len(evaluated[r])].id] =
                           evaluated[r][Len(evaluated[r])].score]
    BY <1>2 DEF InsertScore, InsertOosScore
  <2> QED
    BY <2>2, <2>3
<1>3. CASE Select(r)
  <2>1. pos[r] \in 1..Len(evaluated[r])
    BY <1>3, SelectEffect
  <2>2. evaluated[r][pos[r]].id # mine
    BY <2>1, OwnIdIsForeign
  <2>3. oosLatest' = oosLatest
    BY <1>3, SelectEffect
  <2>4. \/ strategies' = strategies
        \/ \E st \in {"promoted", "retired"} :
             strategies' = [strategies EXCEPT ![evaluated[r][pos[r]].id] = [@ EXCEPT !.status = st]]
    BY <1>3, SelectEffect
  <2>5. strategies'[mine] = strategies[mine]
    BY <1>0, <2>2, <2>4 DEF SearchTypeOK, TableTypeOK
  <2> QED
    BY <2>3, <2>5
<1>4. CASE UNCHANGED <<strategies, oosLatest>>
  BY <1>4
<1> QED
  BY <1>1, <1>2, <1>3, <1>4
     DEF Evolve, Abort, Begin, NextGeneration, FinishGeneration, tableVars

(* So the other runs' parts of the invariant stand.                        *)
LEMMA OtherRunsStep ==
  ASSUME SearchInvariant, NEW r \in Runs, Evolve(r) \/ Abort(r), NEW q \in Runs, q # r
  PROVE  RunInvariant(q)'
<1>0. SearchTypeOK /\ RunInvariant(q)
  BY DEF SearchInvariant
<1>1. ASSUME NEW i \in 1..Len(evaluated[q])
      PROVE  /\ strategies'[evaluated[q][i].id] = strategies[evaluated[q][i].id]
             /\ oosLatest'[evaluated[q][i].id] = oosLatest[evaluated[q][i].id]
  <2>1. /\ evaluated[q][i] \in Evaluated
        /\ evaluated[q][i].id = idFor[q][evaluated[q][i].genome]
    BY <1>0 DEF SearchTypeOK, RunInvariant, OwnIds
  <2> QED
    BY <2>1, OtherRowsAreUntouched DEF Evaluated
<1> QED
  BY <1>0, <1>1, OtherRunsAreUntouched, UntouchedRun, OwedEvaluationExists

(* Each action keeps the part of the invariant of the run that takes it.   *)
LEMMA BeginStep ==
  ASSUME SearchInvariant, NEW r \in Runs, Begin(r)
  PROVE  RunInvariant(r)'
<1>1. SearchTypeOK /\ RunInvariant(r)
  BY DEF SearchInvariant
<1> QED
  BY <1>1 DEF Begin, tableVars, SearchTypeOK, RunInvariant, OwnIds, EvaluatedIsPrefix,
     Progress, KeptAreSelected, Persisted, RepetitionFree

LEMMA AbortStep ==
  ASSUME SearchInvariant, NEW r \in Runs, Abort(r)
  PROVE  RunInvariant(r)'
<1>1. SearchTypeOK /\ RunInvariant(r)
  BY DEF SearchInvariant
<1> QED
  BY <1>1 DEF Abort, tableVars, SearchTypeOK, RunInvariant, OwnIds, EvaluatedIsPrefix,
     Progress, KeptAreSelected, Persisted, RepetitionFree

LEMMA NextGenerationStep ==
  ASSUME SearchInvariant, NEW r \in Runs, NextGeneration(r)
  PROVE  RunInvariant(r)'
<1>0. SearchTypeOK /\ RunInvariant(r)
  BY DEF SearchInvariant
<1>1. PICK fresh \in Candidates(FreshGenomes(r), PerGen - Len(survivors[r])) :
        LET genomes == survivors[r] \o fresh IN
        /\ cohort' = [cohort EXCEPT ![r] = genomes]
        /\ pc' = [pc EXCEPT ![r] = IF genomes = <<>> THEN "select" ELSE "evaluate"]
  BY DEF NextGeneration
<1> DEFINE genomes == survivors[r] \o fresh
<1>2. genomes \in Seq(Genomes) /\ RepetitionFree(genomes)
  BY <1>1, CohortIsSound
<1>3. /\ cohort'[r] = genomes
      /\ pc'[r] = IF genomes = <<>> THEN "select" ELSE "evaluate"
      /\ pos'[r] = 1
      /\ evaluated'[r] = <<>> /\ kept'[r] = <<>>
      /\ survivors' = survivors /\ idFor' = idFor /\ board' = board /\ gen' = gen
      /\ pc[r] = "build"
  BY <1>0, <1>1 DEF NextGeneration, SearchTypeOK, RunInvariant, Progress
<1>4. OwnIds(r)'
  BY <1>0, <1>3 DEF RunInvariant, OwnIds
<1>5. EvaluatedIsPrefix(r)'
  BY <1>0, <1>2, <1>3 DEF RunInvariant, EvaluatedIsPrefix, RepetitionFree
<1>6. Progress(r)'
  BY <1>0, <1>2, <1>3 DEF RunInvariant, Progress
<1>7. KeptAreSelected(r)'
  BY <1>0, <1>3 DEF KeptAreSelected, RepetitionFree
<1>8. Persisted(r)'
  BY <1>0, <1>3 DEF Persisted
<1> QED
  BY <1>4, <1>5, <1>6, <1>7, <1>8 DEF RunInvariant

(* An element of a concatenation comes from one of the two sequences.      *)
LEMMA ConcatElement ==
  ASSUME NEW S, NEW s \in Seq(S), NEW t \in Seq(S), NEW i \in 1..Len(s \o t)
  PROVE  \/ i \in 1..Len(s) /\ (s \o t)[i] = s[i]
         \/ i - Len(s) \in 1..Len(t) /\ (s \o t)[i] = t[i - Len(s)]
OBVIOUS

LEMMA FinishGenerationStep ==
  ASSUME SearchInvariant, NEW r \in Runs, FinishGeneration(r)
  PROVE  RunInvariant(r)'
<1>0. SearchTypeOK /\ RunInvariant(r)
  BY DEF SearchInvariant
<1>1. /\ survivors'[r] = kept[r] /\ kept'[r] = <<>>
      /\ board'[r] = board[r] \o evaluated[r]
      /\ evaluated'[r] = <<>>
      /\ gen'[r] = gen[r] + 1
      /\ pc'[r] = IF gen[r] + 1 < MaxGen THEN "build" ELSE "done"
      /\ cohort' = cohort /\ idFor' = idFor
      /\ evaluated[r] \in Seq(Evaluated) /\ board[r] \in Seq(Evaluated)
  BY <1>0 DEF FinishGeneration, AfterGeneration, SearchTypeOK
<1>2. OwnIds(r)'
  <2>1. ASSUME NEW i \in 1..Len(board[r] \o evaluated[r])
        PROVE  (board[r] \o evaluated[r])[i].id = idFor[r][(board[r] \o evaluated[r])[i].genome]
    <3>1. OwnIds(r)
      BY <1>0 DEF RunInvariant
    <3>2. CASE i \in 1..Len(board[r]) /\ (board[r] \o evaluated[r])[i] = board[r][i]
      BY <3>1, <3>2 DEF OwnIds
    <3>3. CASE /\ i - Len(board[r]) \in 1..Len(evaluated[r])
               /\ (board[r] \o evaluated[r])[i] = evaluated[r][i - Len(board[r])]
      BY <3>1, <3>3 DEF OwnIds
    <3> QED
      <4>1. \/ /\ i \in 1..Len(board[r])
               /\ (board[r] \o evaluated[r])[i] = board[r][i]
            \/ /\ i - Len(board[r]) \in 1..Len(evaluated[r])
               /\ (board[r] \o evaluated[r])[i] = evaluated[r][i - Len(board[r])]
        BY <1>1, ConcatElement
      <4> QED
        BY <3>2, <3>3, <4>1
  <2>2. \A i \in 1..Len(board'[r]) : board'[r][i].id = idFor'[r][board'[r][i].genome]
    BY <1>1, <2>1
  <2>3. Len(evaluated'[r]) = 0
    BY <1>1
  <2> QED
    BY <2>2, <2>3 DEF OwnIds
<1>3. EvaluatedIsPrefix(r)'
  BY <1>0, <1>1 DEF RunInvariant, EvaluatedIsPrefix, KeptAreSelected, RepetitionFree, SearchTypeOK
<1>4. Progress(r)'
  BY <1>0, <1>1 DEF Progress
<1>5. KeptAreSelected(r)'
  BY <1>0, <1>1 DEF KeptAreSelected, RepetitionFree
<1>6. Persisted(r)'
  BY <1>0, <1>1 DEF Persisted
<1> QED
  BY <1>2, <1>3, <1>4, <1>5, <1>6 DEF RunInvariant

(* The id just persisted is none of the ids this generation used before,   *)
(* and the signature evaluated is none of its signatures.                  *)
LEMMA NewEvaluationIsOwn ==
  ASSUME SearchInvariant, NEW r \in Runs, pc[r] = "evaluate",
         NEW id \in IdChoices(r, cohort[r][pos[r]]), cohort[r][pos[r]] \in Genomes,
         NEW i \in 1..Len(evaluated[r])
  PROVE  /\ evaluated[r][i].id # id
         /\ evaluated[r][i].genome # cohort[r][pos[r]]
<1>1. /\ EvaluatedIsPrefix(r) /\ Progress(r) /\ OwnIds(r)
      /\ evaluated[r] \in Seq(Evaluated) /\ cohort[r] \in Seq(Genomes)
  BY DEF SearchInvariant, RunInvariant, SearchTypeOK
<1>2. /\ pos[r] \in 1..Len(cohort[r])
      /\ i \in 1..Len(cohort[r])
      /\ i # pos[r]
  BY <1>1 DEF Progress
<1>3. evaluated[r][i].genome # cohort[r][pos[r]]
  BY <1>1, <1>2 DEF EvaluatedIsPrefix, RepetitionFree
<1>4. /\ evaluated[r][i] \in Evaluated
      /\ evaluated[r][i].id = idFor[r][evaluated[r][i].genome]
  BY <1>1 DEF OwnIds
<1> QED
  BY <1>3, <1>4, ChosenIdIsOwn DEF Evaluated

LEMMA EvaluateAndUpsertStep ==
  ASSUME SearchInvariant, NEW r \in Runs, EvaluateAndUpsert(r)
  PROVE  RunInvariant(r)'
<1>0. SearchTypeOK /\ RunInvariant(r) /\ pc[r] = "evaluate"
  BY DEF SearchInvariant, EvaluateAndUpsert
<1> DEFINE g == cohort[r][pos[r]]
<1>1. PICK id \in IdChoices(r, g), sc \in ScoreSpace \cup {NoScore} :
        /\ g \in Genomes
        /\ id \in Ids
        /\ idFor' = [idFor EXCEPT ![r] = [idFor[r] EXCEPT ![g] = id]]
        /\ strategies' = [strategies EXCEPT ![id] = [genome |-> g, status |-> "candidate"]]
        /\ \E trials \in Nat :
             /\ trials = Trials(idFor'[r])
             /\ evaluated'[r] = Append(evaluated[r],
                  [id |-> id, genome |-> g, score |-> sc, trials |-> trials])
        /\ \/ /\ sc = NoScore
              /\ Advance(r, pos[r] = Len(cohort[r]))
           \/ /\ sc # NoScore
              /\ pc' = [pc EXCEPT ![r] = "score"]
              /\ pos' = pos
        /\ \A q \in Runs \ {r} : evaluated'[q] = evaluated[q]
        /\ UNCHANGED <<oosLatest, gen, cohort, survivors, kept, seen, board>>
  BY EvaluateAndUpsertEffect
<1>2. PICK trials \in Nat :
        evaluated'[r] = Append(evaluated[r],
          [id |-> id, genome |-> g, score |-> sc, trials |-> trials])
  BY <1>1
<1> DEFINE ev == [id |-> id, genome |-> g, score |-> sc, trials |-> trials]
<1> DEFINE n == Len(evaluated[r])
<1>3. /\ pos[r] \in 1..Len(cohort[r]) /\ n = pos[r] - 1 /\ n \in Nat
      /\ kept[r] = <<>> /\ gen[r] < MaxGen
      /\ Len(cohort[r]) \in Nat
  BY <1>0 DEF RunInvariant, Progress, SearchTypeOK
<1>4. /\ ev \in Evaluated
      /\ evaluated[r] \in Seq(Evaluated)
  BY <1>0, <1>1, <1>2 DEF Evaluated, SearchTypeOK
<1>5. /\ Len(evaluated'[r]) = n + 1
      /\ evaluated'[r][n + 1] = ev
      /\ \A i \in 1..n : evaluated'[r][i] = evaluated[r][i]
  BY <1>2, <1>4
<1>6. \A i \in 1..n : evaluated[r][i].id # id /\ evaluated[r][i].genome # g
  BY <1>0, <1>1, NewEvaluationIsOwn
<1>7. /\ \A i \in 1..n : evaluated[r][i] \in Evaluated
      /\ \A i \in 1..Len(board[r]) : board[r][i] \in Evaluated
  BY <1>0, <1>4 DEF SearchTypeOK
<1>8. \A h \in Genomes : idFor'[r][h] = IF h = g THEN id ELSE idFor[r][h]
  BY <1>0, <1>1 DEF SearchTypeOK
<1>9. OwnIds(r)'
  <2>1. \A i \in 1..Len(evaluated'[r]) : evaluated'[r][i].id = idFor'[r][evaluated'[r][i].genome]
    <3>1. evaluated'[r][n + 1].id = idFor'[r][evaluated'[r][n + 1].genome]
      BY <1>1, <1>5, <1>8
    <3>2. \A i \in 1..n : evaluated'[r][i].id = idFor'[r][evaluated'[r][i].genome]
      <4> SUFFICES ASSUME NEW i \in 1..n
                   PROVE  evaluated[r][i].id = idFor'[r][evaluated[r][i].genome]
        BY <1>5
      <4>1. evaluated[r][i].genome \in Genomes /\ evaluated[r][i].genome # g
        BY <1>6, <1>7 DEF Evaluated
      <4>2. evaluated[r][i].id = idFor[r][evaluated[r][i].genome]
        BY <1>0 DEF RunInvariant, OwnIds
      <4> QED
        BY <1>8, <4>1, <4>2
    <3> QED
      BY <1>3, <1>5, <3>1, <3>2
  <2>2. ASSUME NEW i \in 1..Len(board[r])
        PROVE  board[r][i].id = idFor'[r][board[r][i].genome]
    <3>1. /\ board[r][i].id = idFor[r][board[r][i].genome]
          /\ board[r][i].id \in Ids
          /\ board[r][i].genome \in Genomes
      BY <1>0, <1>7 DEF RunInvariant, OwnIds, Evaluated
    <3>2. board[r][i].id # NoId
      BY <3>1, SearchAssumption
    <3>3. idFor[r][g] # NoId => id = idFor[r][g]
      BY <1>1, ChosenIdIsOwn
    <3> QED
      BY <1>8, <3>1, <3>2, <3>3
  <2> QED
    BY <1>1, <2>1, <2>2 DEF OwnIds
<1>10. EvaluatedIsPrefix(r)'
  <2>1. /\ RepetitionFree(cohort[r]) /\ RepetitionFree(survivors[r])
        /\ \A i \in 1..n : evaluated[r][i].genome = cohort[r][i]
    BY <1>0 DEF RunInvariant, EvaluatedIsPrefix
  <2>2. evaluated'[r][n + 1].genome = cohort[r][n + 1]
    BY <1>3, <1>5
  <2>3. Len(evaluated'[r]) <= Len(cohort[r])
    BY <1>3, <1>5
  <2>4. \A i \in 1..Len(evaluated'[r]) : evaluated'[r][i].genome = cohort[r][i]
    <3>1. \A i \in 1..n : evaluated'[r][i].genome = cohort[r][i]
      BY <1>5, <2>1
    <3>2. \A i \in 1..(n + 1) : i \in 1..n \/ i = n + 1
      BY <1>3
    <3> QED
      BY <1>5, <2>2, <3>1, <3>2
  <2> QED
    BY <1>1, <2>1, <2>3, <2>4 DEF EvaluatedIsPrefix, RepetitionFree
<1>11. \/ /\ pc'[r] = "score" /\ pos'[r] = pos[r] /\ sc # NoScore
       \/ /\ pc'[r] = "evaluate" /\ pos'[r] = pos[r] + 1 /\ pos[r] # Len(cohort[r]) /\ sc = NoScore
       \/ /\ pc'[r] = "select" /\ pos'[r] = 1 /\ sc = NoScore
  <2>1. CASE sc = NoScore
    <3>1. CASE pos[r] = Len(cohort[r])
      BY <1>0, <1>1, <2>1, <3>1 DEF Advance, SearchTypeOK
    <3>2. CASE pos[r] # Len(cohort[r])
      BY <1>0, <1>1, <2>1, <3>2 DEF Advance, SearchTypeOK
    <3> QED
      BY <3>1, <3>2
  <2>2. CASE sc # NoScore
    BY <1>0, <1>1, <2>2 DEF SearchTypeOK
  <2> QED
    BY <2>1, <2>2
<1>12. Progress(r)'
  BY <1>1, <1>3, <1>5, <1>11 DEF Progress
<1>13. KeptAreSelected(r)'
  BY <1>1, <1>3, <1>5, <1>11 DEF KeptAreSelected, RepetitionFree
<1>14. Persisted(r)'
  <2>1. pc'[r] = "score" => ev.score # NoScore
    BY <1>11
  <2>2. /\ strategies'[ev.id] # NoRow
        /\ strategies'[ev.id].genome = ev.genome
        /\ strategies'[ev.id].status # "promoted"
    <3>1. strategies'[ev.id] = [genome |-> ev.genome, status |-> "candidate"]
      BY <1>0, <1>1 DEF SearchTypeOK, TableTypeOK
    <3>2. strategies'[ev.id] \in Row
      BY <1>1, <3>1 DEF Row, Status
    <3> QED
      BY <3>1, <3>2, RowAssumption
  <2>3. ASSUME NEW i \in 1..n, evaluated[r][i].score # NoScore
        PROVE  /\ strategies'[evaluated[r][i].id] # NoRow
               /\ strategies'[evaluated[r][i].id].genome = evaluated[r][i].genome
               /\ oosLatest'[evaluated[r][i].id] = evaluated[r][i].score
    <3>1. strategies'[evaluated[r][i].id] = strategies[evaluated[r][i].id]
      BY <1>0, <1>1, <1>6, <1>7 DEF SearchTypeOK, TableTypeOK, Evaluated
    <3> QED
      BY <1>0, <1>1, <2>3, <3>1 DEF RunInvariant, Persisted
  <2>4. \A i \in 1..Len(evaluated'[r]) :
          evaluated'[r][i].score # NoScore /\ (pc'[r] = "score" => i < Len(evaluated'[r])) =>
            i \in 1..n
    BY <1>3, <1>5, <1>11
  <2> QED
    BY <1>5, <2>1, <2>2, <2>3, <2>4 DEF Persisted
<1> QED
  BY <1>9, <1>10, <1>12, <1>13, <1>14 DEF RunInvariant

LEMMA InsertScoreStep ==
  ASSUME SearchInvariant, NEW r \in Runs, InsertScore(r)
  PROVE  RunInvariant(r)'
<1> DEFINE n == Len(evaluated[r])
<1> DEFINE ev == evaluated[r][n]
<1>0. SearchTypeOK /\ RunInvariant(r) /\ pc[r] = "score"
  BY DEF SearchInvariant, InsertScore
<1>1. /\ n \in 1..n /\ n = pos[r] /\ pos[r] \in 1..Len(cohort[r]) /\ Len(cohort[r]) \in Nat
      /\ kept[r] = <<>> /\ gen[r] < MaxGen
  BY <1>0, OwedEvaluationExists DEF RunInvariant, Progress, SearchTypeOK
<1>2. /\ oosLatest' = [oosLatest EXCEPT ![ev.id] = ev.score]
      /\ UNCHANGED <<strategies, touched, gen, cohort, survivors, kept, seen, idFor, evaluated, board>>
  BY DEF InsertScore, InsertOosScore
<1>3. \/ pc'[r] = "select" /\ pos'[r] = 1
      \/ pc'[r] = "evaluate" /\ pos'[r] = pos[r] + 1 /\ pos[r] # Len(cohort[r])
  <2>1. CASE pos[r] = Len(cohort[r])
    BY <1>0, <2>1 DEF InsertScore, Advance, SearchTypeOK
  <2>2. CASE pos[r] # Len(cohort[r])
    BY <1>0, <2>2 DEF InsertScore, Advance, SearchTypeOK
  <2> QED
    BY <2>1, <2>2
<1>4. OwnIds(r)'
  BY <1>0, <1>2 DEF RunInvariant, OwnIds
<1>5. EvaluatedIsPrefix(r)'
  BY <1>0, <1>2 DEF RunInvariant, EvaluatedIsPrefix, RepetitionFree
<1>6. Progress(r)'
  BY <1>1, <1>2, <1>3 DEF Progress
<1>7. KeptAreSelected(r)'
  BY <1>1, <1>2, <1>3 DEF KeptAreSelected, RepetitionFree
<1>8. Persisted(r)'
  <2>1. /\ strategies[ev.id].genome = ev.genome
        /\ ev \in Evaluated
    BY <1>0, <1>1 DEF RunInvariant, Persisted, SearchTypeOK
  <2>2. strategies[ev.id] # NoRow
    BY <1>0 DEF RunInvariant, Persisted
  <2>3. oosLatest'[ev.id] = ev.score
    BY <1>0, <1>2, <2>1 DEF SearchTypeOK, TableTypeOK, Evaluated
  <2>4. ASSUME NEW i \in 1..n, evaluated[r][i].score # NoScore, i # n
        PROVE  /\ strategies[evaluated[r][i].id] # NoRow
               /\ strategies[evaluated[r][i].id].genome = evaluated[r][i].genome
               /\ oosLatest'[evaluated[r][i].id] = evaluated[r][i].score
    <3>1. evaluated[r][i].id # ev.id
      BY <1>1, <2>4, EvaluationsDoNotShareIds
    <3>2. i < n
      BY <1>1, <2>4
    <3> QED
      BY <1>0, <1>2, <2>4, <3>1, <3>2 DEF RunInvariant, Persisted
  <2>5. \A i \in 1..n : evaluated[r][i].score # NoScore =>
          /\ strategies[evaluated[r][i].id] # NoRow
          /\ strategies[evaluated[r][i].id].genome = evaluated[r][i].genome
          /\ oosLatest'[evaluated[r][i].id] = evaluated[r][i].score
    <3>1. strategies[ev.id].genome = ev.genome
      BY <2>1
    <3> QED
      BY <2>2, <2>3, <2>4, <3>1
  <2>6. pc'[r] # "score"
    BY <1>3
  <2> QED
    BY <1>2, <2>5, <2>6 DEF Persisted
<1> QED
  BY <1>4, <1>5, <1>6, <1>7, <1>8 DEF RunInvariant

LEMMA SelectStep ==
  ASSUME SearchInvariant, NEW r \in Runs, Select(r)
  PROVE  RunInvariant(r)'
<1> DEFINE n == Len(evaluated[r])
<1> DEFINE ev == evaluated[r][pos[r]]
<1>0. SearchTypeOK /\ RunInvariant(r) /\ pc[r] = "select"
  BY DEF SearchInvariant, Select, Selecting
<1>1. /\ pos[r] \in 1..n
      /\ ev \in Evaluated
      /\ Carry(r, ev.genome) \/ kept' = kept
      /\ pos' = [pos EXCEPT ![r] = @ + 1]
      /\ UNCHANGED <<oosLatest, pc, gen, cohort, survivors, seen, idFor, evaluated, board>>
  BY SelectEffect
<1>2. /\ pos'[r] = pos[r] + 1
      /\ kept'[r] = kept[r] \/ kept'[r] = Append(kept[r], ev.genome)
      /\ kept[r] \in Seq(Genomes)
  BY <1>0, <1>1 DEF SearchTypeOK, Carry
<1>3. OwnIds(r)'
  BY <1>0, <1>1 DEF RunInvariant, OwnIds
<1>4. EvaluatedIsPrefix(r)'
  BY <1>0, <1>1 DEF RunInvariant, EvaluatedIsPrefix, RepetitionFree
<1>5. Progress(r)'
  BY <1>0, <1>1 DEF RunInvariant, Progress
<1>6. KeptAreSelected(r)'
  <2>1. /\ RepetitionFree(kept[r])
        /\ \A k \in 1..Len(kept[r]) : \E j \in 1..(pos[r] - 1) : evaluated[r][j].genome = kept[r][k]
    BY <1>0 DEF RunInvariant, KeptAreSelected
  <2>2. pos'[r] \in 1..(n + 1) /\ n \in Nat
    BY <1>0, <1>1, <1>2 DEF SearchTypeOK
  <2>3. CASE kept'[r] = kept[r]
    <3>1. \A k \in 1..Len(kept'[r]) : \E j \in 1..(pos'[r] - 1) : evaluated[r][j].genome = kept'[r][k]
      BY <1>1, <1>2, <2>1, <2>2, <2>3
    <3> QED
      BY <1>1, <2>1, <2>2, <2>3, <3>1 DEF KeptAreSelected, RepetitionFree
  <2>4. CASE kept'[r] = Append(kept[r], ev.genome)
    <3> DEFINE m == Len(kept[r])
    <3>1. ev.genome \in Genomes
      BY <1>1 DEF Evaluated
    <3>2. /\ m \in Nat
          /\ Len(kept'[r]) = m + 1 /\ DOMAIN kept'[r] = 1..(m + 1) /\ DOMAIN kept[r] = 1..m
          /\ kept'[r][m + 1] = ev.genome
          /\ \A k \in 1..m : kept'[r][k] = kept[r][k]
      BY <1>2, <2>4, <3>1
    <3>3. \A k \in 1..m : kept[r][k] # ev.genome
      <4> SUFFICES ASSUME NEW k \in 1..m PROVE kept[r][k] # ev.genome
        OBVIOUS
      <4>1. PICK j \in 1..(pos[r] - 1) : evaluated[r][j].genome = kept[r][k]
        BY <2>1
      <4>2. j \in 1..n /\ j # pos[r]
        BY <1>1, <2>2
      <4> QED
        BY <1>1, <4>1, <4>2, EvaluationsDoNotShareIds
    <3>4. RepetitionFree(kept'[r])
      BY <2>1, <3>2, <3>3 DEF RepetitionFree
    <3>5. \A k \in 1..Len(kept'[r]) : \E j \in 1..(pos'[r] - 1) : evaluated[r][j].genome = kept'[r][k]
      <4>1. \A k \in 1..m : \E j \in 1..(pos'[r] - 1) : evaluated[r][j].genome = kept'[r][k]
        BY <1>1, <1>2, <2>1, <2>2, <3>2
      <4>2. pos[r] \in 1..(pos'[r] - 1)
        BY <1>1, <1>2, <2>2
      <4>3. \A k \in 1..(m + 1) : k \in 1..m \/ k = m + 1
        BY <3>2
      <4> QED
        BY <3>2, <4>1, <4>2, <4>3
    <3> QED
      BY <1>1, <2>2, <3>4, <3>5 DEF KeptAreSelected, RepetitionFree
  <2> QED
    BY <1>2, <2>3, <2>4
<1>7. Persisted(r)'
  <2>1. \A id \in Ids : strategies[id] # NoRow =>
          strategies'[id] # NoRow /\ strategies'[id].genome = strategies[id].genome
    <3>1. CASE strategies' = strategies
      BY <3>1
    <3>2. CASE strategies' # strategies
      <4>1. PICK st \in {"promoted", "retired"} :
              strategies' = [strategies EXCEPT ![ev.id] = [@ EXCEPT !.status = st]]
        BY <3>2, SelectEffect
      <4>2. ASSUME NEW id \in Ids, strategies[id] # NoRow
            PROVE  strategies'[id] # NoRow /\ strategies'[id].genome = strategies[id].genome
        <5>1. strategies[id] \in Row
          BY <1>0, <4>2 DEF SearchTypeOK, TableTypeOK
        <5>2. /\ [strategies[id] EXCEPT !.status = st] \in Row
              /\ [strategies[id] EXCEPT !.status = st].genome = strategies[id].genome
          BY <5>1 DEF Row, Status
        <5>3. strategies'[id] = strategies[id] \/ strategies'[id] = [strategies[id] EXCEPT !.status = st]
          BY <1>0, <4>1 DEF SearchTypeOK, TableTypeOK
        <5> QED
          BY <4>2, <5>2, <5>3, RowAssumption
      <4> QED
        BY <4>2
    <3> QED
      BY <3>1, <3>2
  <2>2. \A i \in 1..n : evaluated[r][i].id \in Ids
    <3>1. \A i \in 1..n : evaluated[r][i] \in Evaluated
      BY <1>0 DEF SearchTypeOK
    <3> QED
      BY <3>1 DEF Evaluated
  <2> QED
    BY <1>0, <1>1, <2>1, <2>2 DEF RunInvariant, Persisted
<1> QED
  BY <1>3, <1>4, <1>5, <1>6, <1>7 DEF RunInvariant

-----------------------------------------------------------------------------
(* The empty table and the runs that have not begun satisfy the invariant. *)
LEMMA InitSatisfiesInvariant == SearchInit => SearchInvariant
<1> SUFFICES ASSUME SearchInit PROVE SearchInvariant
  OBVIOUS
<1> USE DEF SearchInit, TableInit
<1>1. SearchTypeOK
  <2>1. <<>> \in Seq(Genomes) /\ <<>> \in Seq(Evaluated)
    OBVIOUS
  <2> QED
    BY <2>1, SearchAssumption DEF SearchTypeOK, TableTypeOK, Steps
<1>2. PromotedHasPassingScore
  BY DEF PromotedHasPassingScore, PromotedIds, HasStatus, Stored
<1>3. IdsDisjoint
  BY DEF IdsDisjoint
<1>4. StoredIsMinted
  BY DEF StoredIsMinted, Stored
<1>5. ASSUME NEW r \in Runs
      PROVE  RunInvariant(r)
  BY SearchAssumption DEF RunInvariant, OwnIds, EvaluatedIsPrefix, RepetitionFree,
     Progress, KeptAreSelected, Persisted
<1> QED
  BY <1>1, <1>2, <1>3, <1>4, <1>5 DEF SearchInvariant

(* Every step of any run, a crash included, keeps it.                      *)
LEMMA StepKeepsInvariant == SearchInvariant /\ [SearchNext]_searchVars => SearchInvariant'
<1> SUFFICES ASSUME SearchInvariant, [SearchNext]_searchVars PROVE SearchInvariant'
  OBVIOUS
<1>1. CASE SearchNext
  <2>1. PICK r \in Runs : Evolve(r) \/ Abort(r)
    BY <1>1 DEF SearchNext
  <2>2. SearchTypeOK'
    BY <2>1, TypeStep
  <2>3. PromotedHasPassingScore'
    BY <2>1, TableStep
  <2>4. IdsDisjoint'
    BY <2>1, IdsStep
  <2>5. RunInvariant(r)'
    BY <2>1, BeginStep, NextGenerationStep, EvaluateAndUpsertStep, InsertScoreStep,
       SelectStep, FinishGenerationStep, AbortStep DEF Evolve
  <2>6. \A q \in Runs \ {r} : RunInvariant(q)'
    BY <2>1, OtherRunsStep
  <2>7. StoredIsMinted'
    BY <2>1, StoredStep
  <2> QED
    BY <2>2, <2>3, <2>4, <2>5, <2>6, <2>7 DEF SearchInvariant
<1>2. CASE UNCHANGED searchVars
  <2>1. SearchTypeOK'
    BY <1>2 DEF SearchInvariant, SearchTypeOK, TableTypeOK, searchVars, runVars, tableVars
  <2>2. PromotedHasPassingScore'
    BY <1>2 DEF SearchInvariant, PromotedHasPassingScore, PromotedIds, HasStatus, Stored,
       searchVars, tableVars
  <2>3. IdsDisjoint'
    BY <1>2 DEF SearchInvariant, IdsDisjoint, searchVars, runVars
  <2>4. StoredIsMinted'
    BY <1>2 DEF SearchInvariant, StoredIsMinted, Stored, Minted, searchVars, runVars, tableVars
  <2>5. ASSUME NEW q \in Runs
        PROVE  RunInvariant(q)'
    <3>1. UNCHANGED <<strategies, oosLatest>> /\ UNCHANGED runVars
      BY <1>2 DEF searchVars, tableVars
    <3> QED
      BY <3>1, UntouchedRun, OwedEvaluationExists DEF SearchInvariant, runVars
  <2> QED
    BY <2>1, <2>2, <2>3, <2>4, <2>5 DEF SearchInvariant
<1> QED
  BY <1>1, <1>2

-----------------------------------------------------------------------------
(* The length and the elements of a concatenation.                         *)
LEMMA ConcatFacts ==
  ASSUME NEW S, NEW s \in Seq(S), NEW t \in Seq(S)
  PROVE  /\ s \o t \in Seq(S)
         /\ Len(s) \in Nat /\ Len(t) \in Nat
         /\ Len(s \o t) = Len(s) + Len(t)
         /\ DOMAIN (s \o t) = 1..Len(s \o t)
         /\ \A i \in 1..Len(s) : (s \o t)[i] = s[i]
         /\ \A i \in 1..Len(t) : (s \o t)[Len(s) + i] = t[i]
OBVIOUS

(* The history of a run: its finished generations, then the current one.   *)
LEMMA HistoryFacts ==
  ASSUME SearchTypeOK, NEW r \in Runs
  PROVE  /\ History(r) \in Seq(Evaluated)
         /\ Len(board[r]) \in Nat /\ Len(evaluated[r]) \in Nat /\ Len(History(r)) \in Nat
         /\ Len(History(r)) = Len(board[r]) + Len(evaluated[r])
         /\ DOMAIN History(r) = 1..Len(History(r))
         /\ \A i \in 1..Len(board[r]) : History(r)[i] = board[r][i]
         /\ \A i \in 1..Len(evaluated[r]) : History(r)[Len(board[r]) + i] = evaluated[r][i]
<1>1. board[r] \in Seq(Evaluated) /\ evaluated[r] \in Seq(Evaluated)
  BY DEF SearchTypeOK
<1>2. ASSUME NEW b \in Seq(Evaluated), NEW e \in Seq(Evaluated)
      PROVE
      /\ b \o e \in Seq(Evaluated)
      /\ Len(b) \in Nat /\ Len(e) \in Nat /\ Len(b \o e) \in Nat
      /\ Len(b \o e) = Len(b) + Len(e)
      /\ DOMAIN (b \o e) = 1..Len(b \o e)
      /\ \A i \in 1..Len(b) : (b \o e)[i] = b[i]
      /\ \A i \in 1..Len(e) : (b \o e)[Len(b) + i] = e[i]
  BY ConcatFacts
<1> QED
  BY <1>1, <1>2, Zenon DEF History

(* Where an evaluation of a run stands in its history.                     *)
LEMMA BoardIsHistory ==
  ASSUME SearchTypeOK, NEW r \in Runs, NEW i \in 1..Len(board[r])
  PROVE  /\ History(r)[i] = board[r][i]
         /\ i \in 1..Len(History(r))
<1>1. /\ Len(board[r]) \in Nat /\ Len(evaluated[r]) \in Nat
      /\ Len(History(r)) = Len(board[r]) + Len(evaluated[r])
      /\ History(r)[i] = board[r][i]
  BY HistoryFacts
<1>2. ASSUME NEW b \in Nat, NEW e \in Nat
      PROVE  \A k \in 1..b : k \in 1..(b + e)
  OBVIOUS
<1> QED
  BY <1>1, <1>2, Zenon

LEMMA EvaluatedIsHistory ==
  ASSUME SearchTypeOK, NEW r \in Runs, NEW i \in 1..Len(evaluated[r])
  PROVE  /\ History(r)[Len(board[r]) + i] = evaluated[r][i]
         /\ Len(board[r]) + i \in 1..Len(History(r))
         /\ Len(board[r]) + i > Len(board[r])
<1>1. /\ Len(board[r]) \in Nat /\ Len(evaluated[r]) \in Nat
      /\ Len(History(r)) = Len(board[r]) + Len(evaluated[r])
      /\ History(r)[Len(board[r]) + i] = evaluated[r][i]
  BY HistoryFacts
<1>2. ASSUME NEW b \in Nat, NEW e \in Nat
      PROVE  \A k \in 1..e : b + k \in 1..(b + e) /\ b + k > b
  OBVIOUS
<1> QED
  BY <1>1, <1>2, Zenon

LEMMA HistoryPosition ==
  ASSUME SearchTypeOK, NEW r \in Runs, NEW i \in 1..Len(History(r))
  PROVE  \/ i \in 1..Len(board[r])
         \/ \E k \in 1..Len(evaluated[r]) : i = Len(board[r]) + k
<1>1. /\ Len(board[r]) \in Nat /\ Len(evaluated[r]) \in Nat
      /\ Len(History(r)) = Len(board[r]) + Len(evaluated[r])
  BY HistoryFacts
<1>2. ASSUME NEW b \in Nat, NEW e \in Nat
      PROVE  \A k \in 1..(b + e) : k \in 1..b \/ \E j \in 1..e : k = b + j
  <2>1. \A k \in 1..(b + e) : k \notin 1..b => k - b \in 1..e /\ k = b + (k - b)
    OBVIOUS
  <2> QED
    BY <2>1
<1>3. i \in 1..(Len(board[r]) + Len(evaluated[r]))
  BY <1>1
<1> QED
  BY <1>1, <1>2, <1>3, Zenon

(* What a run has evaluated carries the id the run gave its signature.     *)
LEMMA HistoryIsOwn ==
  ASSUME SearchInvariant, NEW r \in Runs, NEW i \in 1..Len(History(r))
  PROVE  /\ History(r)[i].id = idFor[r][History(r)[i].genome]
         /\ History(r)[i].genome \in Genomes
         /\ History(r)[i].id \in Ids
         /\ History(r)[i].id # NoId
<1>1. /\ board[r] \in Seq(Evaluated) /\ evaluated[r] \in Seq(Evaluated) /\ OwnIds(r)
  BY DEF SearchInvariant, SearchTypeOK, RunInvariant
<1>2. \/ i \in 1..Len(board[r]) /\ History(r)[i] = board[r][i]
      \/ /\ i - Len(board[r]) \in 1..Len(evaluated[r])
         /\ History(r)[i] = evaluated[r][i - Len(board[r])]
  <2>1. \/ i \in 1..Len(board[r]) /\ (board[r] \o evaluated[r])[i] = board[r][i]
        \/ /\ i - Len(board[r]) \in 1..Len(evaluated[r])
           /\ (board[r] \o evaluated[r])[i] = evaluated[r][i - Len(board[r])]
    BY <1>1, ConcatElement DEF History
  <2> QED
    BY <2>1 DEF History
<1>3. History(r)[i] \in Evaluated /\ History(r)[i].id = idFor[r][History(r)[i].genome]
  <2>1. CASE i \in 1..Len(board[r]) /\ History(r)[i] = board[r][i]
    BY <1>1, <2>1 DEF OwnIds
  <2>2. CASE /\ i - Len(board[r]) \in 1..Len(evaluated[r])
             /\ History(r)[i] = evaluated[r][i - Len(board[r])]
    BY <1>1, <2>2 DEF OwnIds
  <2> QED
    BY <1>2, <2>1, <2>2
<1> QED
  BY <1>3, SearchAssumption DEF Evaluated

(* Two evaluations of a run have one id exactly if they have one signature.*)
LEMMA OneSignatureOneId ==
  ASSUME SearchInvariant, NEW r \in Runs,
         NEW i \in 1..Len(History(r)), NEW j \in 1..Len(History(r))
  PROVE  History(r)[i].genome = History(r)[j].genome <=> History(r)[i].id = History(r)[j].id
<1>1. IdsDisjoint
  BY DEF SearchInvariant
<1> QED
  BY <1>1, HistoryIsOwn DEF IdsDisjoint

(* Only an evaluation adds to the history; finish_generation moves it.     *)
LEMMA HistoryStands ==
  ASSUME SearchInvariant, NEW r \in Runs, Evolve(r) \/ Abort(r), ~EvaluateAndUpsert(r)
  PROVE  /\ History(r)' = History(r)
         /\ idFor' = idFor
<1>0. board[r] \in Seq(Evaluated) /\ evaluated[r] \in Seq(Evaluated) /\ SearchTypeOK
  BY DEF SearchInvariant, SearchTypeOK
<1>1. CASE FinishGeneration(r)
  <2>1. board'[r] = board[r] \o evaluated[r] /\ evaluated'[r] = <<>> /\ idFor' = idFor
    BY <1>0, <1>1 DEF FinishGeneration, SearchTypeOK
  <2>2. (board[r] \o evaluated[r]) \o <<>> = board[r] \o evaluated[r]
    BY <1>0
  <2> QED
    BY <2>1, <2>2 DEF History
<1>2. CASE UNCHANGED <<board, evaluated, idFor>>
  BY <1>2 DEF History
<1>3. CASE Select(r)
  BY <1>2, <1>3, SelectEffect
<1> QED
  BY <1>1, <1>2, <1>3 DEF Evolve, Begin, NextGeneration, InsertScore, Abort

(* An evaluation adds one element to it.                                   *)
LEMMA HistoryGrows ==
  ASSUME SearchInvariant, NEW r \in Runs, EvaluateAndUpsert(r), NEW ev \in Evaluated,
         evaluated'[r] = Append(evaluated[r], ev)
  PROVE  LET n == Len(History(r)) IN
         /\ n \in Nat
         /\ Len(History(r)') = n + 1
         /\ \A i \in 1..n : History(r)'[i] = History(r)[i]
         /\ History(r)'[n + 1] = ev
<1>1. /\ board[r] \in Seq(Evaluated) /\ evaluated[r] \in Seq(Evaluated)
      /\ board' = board
  BY DEF SearchInvariant, SearchTypeOK, EvaluateAndUpsert
<1>2. ASSUME NEW b \in Seq(Evaluated), NEW e \in Seq(Evaluated)
      PROVE  /\ Len(b \o e) \in Nat
             /\ Len(b \o Append(e, ev)) = Len(b \o e) + 1
             /\ \A i \in 1..Len(b \o e) : (b \o Append(e, ev))[i] = (b \o e)[i]
             /\ (b \o Append(e, ev))[Len(b \o e) + 1] = ev
  <2>1. Append(e, ev) \in Seq(Evaluated) /\ Len(Append(e, ev)) = Len(e) + 1
    OBVIOUS
  <2>2. /\ Append(e, ev)[Len(e) + 1] = ev
        /\ \A i \in 1..Len(e) : Append(e, ev)[i] = e[i]
    OBVIOUS
  <2>3. /\ Len(b) \in Nat /\ Len(e) \in Nat
        /\ Len(b \o e) = Len(b) + Len(e)
        /\ Len(b \o Append(e, ev)) = Len(b) + (Len(e) + 1)
    BY <2>1
  <2>4. (b \o Append(e, ev))[Len(b \o e) + 1] = ev
    <3>1. Len(e) + 1 \in 1..Len(Append(e, ev))
      BY <2>1, <2>3
    <3>2. (b \o Append(e, ev))[Len(b) + (Len(e) + 1)] = Append(e, ev)[Len(e) + 1]
      BY <2>1, <3>1, ConcatFacts
    <3> QED
      BY <2>2, <2>3, <3>2
  <2>5. ASSUME NEW i \in 1..Len(b \o e)
        PROVE  (b \o Append(e, ev))[i] = (b \o e)[i]
    BY <2>1, <2>2, <2>3
  <2> QED
    BY <2>3, <2>4, <2>5
<1>3. History(r)' = board[r] \o Append(evaluated[r], ev)
  BY <1>1 DEF History
<1> DEFINE h == board[r] \o evaluated[r]
<1> DEFINE k == board[r] \o Append(evaluated[r], ev)
<1>4. /\ Len(h) \in Nat
      /\ Len(k) = Len(h) + 1
      /\ \A i \in 1..Len(h) : k[i] = h[i]
      /\ k[Len(h) + 1] = ev
  BY <1>1, <1>2, Zenon
<1>5. History(r) = h /\ History(r)' = k
  BY <1>3 DEF History
<1> HIDE DEF h, k
<1> QED
  BY <1>4, <1>5

-----------------------------------------------------------------------------
(* No step takes the newest stored score of a finished generation's        *)
(* strategy back to an older one.                                          *)
LEMMA DurableStep ==
  ASSUME SearchInvariant, ScoreboardDurable, NEW r \in Runs, Evolve(r) \/ Abort(r)
  PROVE  ScoreboardDurable'
<1>0. SearchTypeOK
  BY DEF SearchInvariant
<1> SUFFICES ASSUME NEW q \in Runs, NEW i \in DOMAIN board'[q], board'[q][i].score # NoScore
             PROVE  \E j \in i..Len(History(q)') :
                      /\ History(q)'[j].id = board'[q][i].id
                      /\ History(q)'[j].score # NoScore
                      /\ oosLatest'[board'[q][i].id] = History(q)'[j].score
  BY Zenon DEF ScoreboardDurable
<1>1. ASSUME NEW k \in DOMAIN board[q], board[q][k].score # NoScore
      PROVE  \E j \in k..Len(History(q)) :
               /\ k \in 1..Len(board[q]) /\ j \in 1..Len(History(q))
               /\ History(q)[j].id = board[q][k].id
               /\ History(q)[j].score # NoScore
               /\ oosLatest[board[q][k].id] = History(q)[j].score
  <2>1. PICK j \in k..Len(History(q)) :
               /\ History(q)[j].id = board[q][k].id
               /\ History(q)[j].score # NoScore
               /\ oosLatest[board[q][k].id] = History(q)[j].score
    BY <1>1 DEF ScoreboardDurable
  <2>2. k \in 1..Len(board[q]) /\ board[q] \in Seq(Evaluated)
    BY <1>0 DEF SearchTypeOK
  <2>3. j \in 1..Len(History(q))
    BY <1>0, <2>1, <2>2, HistoryFacts
  <2> QED
    BY <2>1, <2>2, <2>3
<1>2. CASE /\ board'[q] = board[q] /\ History(q)' = History(q)
           /\ oosLatest'[board'[q][i].id] = oosLatest[board'[q][i].id]
  BY <1>1, <1>2
<1>3. CASE q # r
  <2>1. board'[q] = board[q] /\ evaluated'[q] = evaluated[q] /\ i \in 1..Len(board[q])
    <3>1. board'[q] = board[q] /\ evaluated'[q] = evaluated[q]
      BY <1>3, OtherRunsAreUntouched
    <3>2. board[q] \in Seq(Evaluated)
      BY <1>0 DEF SearchTypeOK
    <3> QED
      BY <3>1, <3>2
  <2>2. i \in 1..Len(History(q)) /\ History(q)[i] = board[q][i]
    BY <1>0, <2>1, BoardIsHistory
  <2>3. oosLatest'[board[q][i].id] = oosLatest[board[q][i].id]
    BY <1>3, <2>2, HistoryIsOwn, OtherRowsAreUntouched
  <2> QED
    BY <1>2, <2>1, <2>3 DEF History
<1>4. CASE q = r /\ EvaluateAndUpsert(r)
  <2>1. /\ board' = board /\ oosLatest' = oosLatest
        /\ \E ev \in Evaluated : evaluated'[r] = Append(evaluated[r], ev)
    BY <1>0, <1>4, EvaluateAndUpsertEffect DEF Evaluated
  <2>2. /\ Len(History(r)) \in Nat
        /\ Len(History(r)') = Len(History(r)) + 1
        /\ \A j \in 1..Len(History(r)) : History(r)'[j] = History(r)[j]
    BY <1>4, <2>1, HistoryGrows
  <2>3. PICK j \in i..Len(History(q)) :
          /\ i \in 1..Len(board[q]) /\ j \in 1..Len(History(q))
          /\ History(q)[j].id = board[q][i].id
          /\ History(q)[j].score # NoScore
          /\ oosLatest[board[q][i].id] = History(q)[j].score
    BY <1>1, <2>1
  <2>4. j \in i..Len(History(r)') /\ History(r)'[j] = History(r)[j]
    BY <1>0, <1>4, <2>2, <2>3
  <2> QED
    BY <1>4, <2>1, <2>3, <2>4
<1>5. CASE q = r /\ InsertScore(r)
  <2> DEFINE n == Len(evaluated[r])
  <2> DEFINE ev == evaluated[r][n]
  <2>1. /\ board' = board /\ evaluated' = evaluated
        /\ oosLatest' = [oosLatest EXCEPT ![ev.id] = ev.score]
    BY <1>5 DEF InsertScore, InsertOosScore
  <2>2. n \in 1..n /\ ev.score # NoScore /\ ev \in Evaluated
    <3>1. n \in 1..n /\ pc[r] = "score"
      BY <1>5, OwedEvaluationExists DEF InsertScore
    <3>2. ev.score # NoScore
      BY <3>1 DEF SearchInvariant, RunInvariant, Persisted
    <3> QED
      BY <1>0, <3>1, <3>2 DEF SearchTypeOK
  <2>3. History(r)' = History(r)
    BY <2>1 DEF History
  <2>4. CASE board[r][i].id = ev.id
    <3>1. i \in 1..Len(board[r])
      <4>1. board[r] \in Seq(Evaluated) /\ i \in DOMAIN board[r]
        BY <1>0, <1>5, <2>1 DEF SearchTypeOK
      <4> QED
        BY <4>1
    <3>2. Len(board[r]) + n \in i..Len(History(r)) /\ History(r)[Len(board[r]) + n] = ev
      <4>1. /\ Len(board[r]) + n \in 1..Len(History(r)) /\ History(r)[Len(board[r]) + n] = ev
            /\ Len(board[r]) + n > Len(board[r])
        BY <1>0, <2>2, EvaluatedIsHistory
      <4> HIDE DEF n
      <4> QED
        BY <3>1, <4>1
    <3>3. oosLatest'[ev.id] = ev.score
      BY <1>0, <2>1, <2>2 DEF SearchTypeOK, TableTypeOK, Evaluated
    <3> QED
      BY <1>5, <2>1, <2>2, <2>3, <2>4, <3>2, <3>3
  <2>5. CASE board[r][i].id # ev.id
    BY <1>2, <1>5, <2>1, <2>3, <2>5
  <2> QED
    BY <2>4, <2>5
<1>6. CASE q = r /\ FinishGeneration(r)
  <2>1. /\ board'[r] = board[r] \o evaluated[r] /\ oosLatest' = oosLatest
        /\ board'[r] = History(r) /\ pc[r] = "select"
    BY <1>0, <1>6 DEF FinishGeneration, SearchTypeOK, History, tableVars
  <2>2. History(r)' = History(r)
    BY <1>6, HistoryStands DEF FinishGeneration, EvaluateAndUpsert
  <2>3. i \in 1..Len(History(r))
    <3>1. History(r) \in Seq(Evaluated) /\ i \in DOMAIN History(r)
      BY <1>0, <1>6, <2>1, HistoryFacts
    <3> QED
      BY <3>1
  <2>4. CASE i \in 1..Len(board[r])
    <3>1. board[r][i] = History(r)[i]
      BY <1>0, <2>4, BoardIsHistory
    <3>2. i \in DOMAIN board[r]
      BY <1>0, <2>4 DEF SearchTypeOK
    <3> QED
      BY <1>1, <1>6, <2>1, <2>2, <3>1, <3>2
  <2>5. ASSUME NEW k \in 1..Len(evaluated[r]), i = Len(board[r]) + k
        PROVE  \E j \in i..Len(History(q)') :
                 /\ History(q)'[j].id = board'[q][i].id
                 /\ History(q)'[j].score # NoScore
                 /\ oosLatest'[board'[q][i].id] = History(q)'[j].score
    <3>1. History(r)[i] = evaluated[r][k]
      BY <1>0, <2>5, EvaluatedIsHistory
    <3>2. evaluated[r][k].score # NoScore
      BY <1>6, <2>1, <3>1
    <3>3. oosLatest[evaluated[r][k].id] = evaluated[r][k].score
      BY <2>1, <3>1, <3>2 DEF SearchInvariant, RunInvariant, Persisted
    <3>4. i \in i..Len(History(r))
      BY <2>3
    <3> QED
      BY <1>6, <2>1, <2>2, <3>1, <3>2, <3>3, <3>4
  <2> QED
    BY <1>0, <2>3, <2>4, <2>5, HistoryPosition
<1>7. CASE q = r /\ Select(r)
  <2>1. UNCHANGED <<board, evaluated, oosLatest>>
    BY <1>7, SelectEffect
  <2> QED
    BY <1>2, <2>1 DEF History
<1>8. CASE q = r /\ UNCHANGED <<board, evaluated, oosLatest>>
  BY <1>2, <1>8 DEF History
<1> QED
  BY <1>3, <1>4, <1>5, <1>6, <1>7, <1>8
     DEF Evolve, Abort, Begin, NextGeneration, tableVars

-----------------------------------------------------------------------------
(* One more evaluation, in terms of the history and the run's id map.      *)
LEMMA EvaluationInHistory ==
  ASSUME SearchInvariant, NEW r \in Runs, EvaluateAndUpsert(r)
  PROVE  \E ev \in Evaluated, id \in Ids :
           /\ ev.id = id
           /\ idFor'[r] = [idFor[r] EXCEPT ![ev.genome] = id]
           /\ id # NoId
           /\ ev.trials = Trials(idFor'[r])
           /\ Len(History(r)) \in Nat
           /\ Len(History(r)') = Len(History(r)) + 1
           /\ \A i \in 1..Len(History(r)) : History(r)'[i] = History(r)[i]
           /\ History(r)'[Len(History(r)) + 1] = ev
<1> DEFINE g == cohort[r][pos[r]]
<1>1. PICK id \in IdChoices(r, g), sc \in ScoreSpace \cup {NoScore} :
        /\ g \in Genomes
        /\ id \in Ids
        /\ idFor' = [idFor EXCEPT ![r] = [idFor[r] EXCEPT ![g] = id]]
        /\ \E trials \in Nat :
             /\ trials = Trials(idFor'[r])
             /\ evaluated'[r] = Append(evaluated[r],
                  [id |-> id, genome |-> g, score |-> sc, trials |-> trials])
  BY EvaluateAndUpsertEffect
<1>2. PICK trials \in Nat :
        /\ trials = Trials(idFor'[r])
        /\ evaluated'[r] = Append(evaluated[r],
             [id |-> id, genome |-> g, score |-> sc, trials |-> trials])
  BY <1>1
<1> DEFINE ev == [id |-> id, genome |-> g, score |-> sc, trials |-> trials]
<1>3. ev \in Evaluated
  BY <1>1, <1>2 DEF Evaluated
<1>4. ev.id = id /\ ev.genome = g /\ ev.trials = trials
  OBVIOUS
<1>5. idFor'[r] = [idFor[r] EXCEPT ![g] = id]
  BY <1>1 DEF SearchInvariant, SearchTypeOK
<1>6. /\ Len(History(r)) \in Nat
      /\ Len(History(r)') = Len(History(r)) + 1
      /\ \A i \in 1..Len(History(r)) : History(r)'[i] = History(r)[i]
      /\ History(r)'[Len(History(r)) + 1] = ev
  BY <1>2, <1>3, HistoryGrows
<1>7. id # NoId
  BY <1>1, SearchAssumption
<1> HIDE DEF ev, g
<1> QED
  BY <1>1, <1>2, <1>3, <1>4, <1>5, <1>6, <1>7

(* A step of another run leaves a run's history and ids as they are.       *)
LEMMA OtherHistoriesStand ==
  ASSUME SearchInvariant, NEW r \in Runs, Evolve(r) \/ Abort(r), NEW q \in Runs, q # r
  PROVE  History(q)' = History(q) /\ idFor'[q] = idFor[q]
BY OtherRunsAreUntouched DEF History

(* The signatures with an id stay those evaluated so far.                  *)
LEMMA SignaturesStep ==
  ASSUME SearchInvariant, NEW r \in Runs, Evolve(r) \/ Abort(r),
         NEW q \in Runs, SignaturesEvaluated(q)
  PROVE  SignaturesEvaluated(q)'
<1>1. CASE History(q)' = History(q) /\ idFor'[q] = idFor[q]
  BY <1>1 DEF SignaturesEvaluated
<1>2. CASE q = r /\ EvaluateAndUpsert(r)
  <2> DEFINE n == Len(History(r))
  <2>1. PICK ev \in Evaluated, id \in Ids :
           /\ ev.id = id
           /\ idFor'[r] = [idFor[r] EXCEPT ![ev.genome] = id]
           /\ id # NoId
           /\ n \in Nat
           /\ Len(History(r)') = n + 1
           /\ \A i \in 1..n : History(r)'[i] = History(r)[i]
           /\ History(r)'[n + 1] = ev
    BY <1>2, EvaluationInHistory
  <2>2. \A g \in Genomes : idFor'[r][g] = IF g = ev.genome THEN id ELSE idFor[r][g]
    BY <2>1 DEF SearchInvariant, SearchTypeOK
  <2>3. \A g : (\E j \in 1..(n + 1) : History(r)'[j].genome = g)
                 <=> g = ev.genome \/ \E j \in 1..n : History(r)[j].genome = g
    <3>1. \A j \in 1..(n + 1) : j \in 1..n \/ j = n + 1
      BY <2>1
    <3>2. n + 1 \in 1..(n + 1) /\ \A j \in 1..n : j \in 1..(n + 1)
      BY <2>1
    <3> HIDE DEF n
    <3> QED
      BY <2>1, <3>1, <3>2
  <2>4. \A g \in Genomes : idFor[r][g] # NoId <=> \E j \in 1..n : History(r)[j].genome = g
    BY <1>2 DEF SignaturesEvaluated
  <2> HIDE DEF n
  <2>5. \A g \in Genomes :
          idFor'[r][g] # NoId <=> \E j \in 1..(n + 1) : History(r)'[j].genome = g
    BY <2>1, <2>2, <2>3, <2>4
  <2> QED
    BY <1>2, <2>1, <2>5 DEF SignaturesEvaluated
<1> QED
  BY <1>1, <1>2, OtherHistoriesStand, HistoryStands

(* The evaluation just made counts the signatures it is the latest of.     *)
LEMMA TrialsStep ==
  ASSUME SearchInvariant, NEW r \in Runs, Evolve(r) \/ Abort(r),
         \A q \in Runs : SignaturesEvaluated(q), TrialsCountDistinctGenomes
  PROVE  TrialsCountDistinctGenomes'
<1> SUFFICES ASSUME NEW q \in Runs, NEW i \in DOMAIN History(q)'
             PROVE  History(q)'[i].trials = Cardinality({History(q)'[j].genome : j \in 1..i})
  BY Zenon DEF TrialsCountDistinctGenomes
<1>1. CASE History(q)' = History(q)
  BY <1>1 DEF TrialsCountDistinctGenomes
<1>2. CASE q = r /\ EvaluateAndUpsert(r)
  <2> DEFINE n == Len(History(r))
  <2>1. PICK ev \in Evaluated, id \in Ids :
           /\ ev.trials = Trials(idFor'[r])
           /\ n \in Nat
           /\ Len(History(r)') = n + 1
           /\ \A j \in 1..n : History(r)'[j] = History(r)[j]
           /\ History(r)'[n + 1] = ev
    BY <1>2, EvaluationInHistory
  <2>2. i \in 1..(n + 1)
    <3>1. History(r)' \in Seq(Evaluated)
      <4>1. SearchTypeOK'
        BY TypeStep
      <4>2. board'[r] \in Seq(Evaluated) /\ evaluated'[r] \in Seq(Evaluated)
        BY <4>1 DEF SearchTypeOK
      <4> QED
        BY <4>2 DEF History
    <3> QED
      BY <1>2, <2>1, <3>1
  <2>3. CASE i \in 1..n
    <3>1. \A j \in 1..i : j \in 1..n
      BY <2>1, <2>3
    <3>2. {History(q)'[j].genome : j \in 1..i} = {History(q)[j].genome : j \in 1..i}
      BY <1>2, <2>1, <3>1
    <3>3. i \in DOMAIN History(r)
      BY <2>3, HistoryFacts DEF SearchInvariant
    <3> QED
      BY <1>2, <2>1, <2>3, <3>2, <3>3 DEF TrialsCountDistinctGenomes
  <2>4. CASE i = n + 1
    <3>1. SignaturesEvaluated(r)'
      BY SignaturesStep
    <3>2. \A g \in Genomes : idFor'[r][g] # NoId <=> \E j \in 1..i : History(r)'[j].genome = g
      BY <2>1, <2>4, <3>1 DEF SignaturesEvaluated
    <3>3. \A j \in 1..i : History(r)'[j].genome \in Genomes
      <4>1. \A j \in 1..n : History(r)'[j].genome \in Genomes
        BY <2>1, HistoryIsOwn
      <4>2. History(r)'[n + 1].genome \in Genomes
        BY <2>1 DEF Evaluated
      <4>3. \A j \in 1..i : j \in 1..n \/ j = n + 1
        BY <2>1, <2>4
      <4> QED
        BY <4>1, <4>2, <4>3
    <3>4. {g \in Genomes : idFor'[r][g] # NoId} = {History(r)'[j].genome : j \in 1..i}
      BY <3>2, <3>3
    <3> QED
      BY <1>2, <2>1, <2>4, <3>4 DEF Trials
  <2> QED
    BY <2>1, <2>2, <2>3, <2>4
<1> QED
  BY <1>1, <1>2, OtherHistoriesStand, HistoryStands

-----------------------------------------------------------------------------
(* What HasStatus says of a row.                                           *)
Says(row, st) == row # NoRow /\ row.status = st

(* select_survivors turns the candidate in hand into its verdict, writes   *)
(* no other row, and carries nothing it retires.                           *)
LEMMA SelectPassesVerdict ==
  ASSUME SearchInvariant, NEW r \in Runs, VerdictStands(r), Select(r)
  PROVE  LET ev == evaluated[r][pos[r]] IN
         /\ ev.id \in Ids
         /\ Says(strategies[ev.id], "candidate")
         /\ Says(strategies'[ev.id], Verdict(ev))
         /\ \A id \in Ids \ {ev.id} : strategies'[id] = strategies[id]
         /\ Verdict(ev) = "retired" => kept' = kept
<1> DEFINE ev == evaluated[r][pos[r]]
<1>1. /\ pos[r] \in 1..Len(evaluated[r])
      /\ ev \in Evaluated
      /\ pc[r] = "select"
  BY SelectEffect DEF Select, Selecting
<1>2. ev.id \in Stored /\ Says(strategies[ev.id], "candidate")
  <2>1. ~(pos[r] < pos[r])
    BY DEF SearchInvariant, SearchTypeOK
  <2> QED
    BY <1>1, <2>1 DEF VerdictStands, HasStatus, Stored, Says
<1>3. /\ ev.id \in Ids
      /\ strategies \in [Ids -> Row \cup {NoRow}]
      /\ strategies[ev.id] \in Row
  BY <1>2 DEF Stored, SearchInvariant, SearchTypeOK, TableTypeOK
<1>4. ASSUME NEW st \in Status, UpdateStatus(ev.id, st)
      PROVE  /\ Says(strategies'[ev.id], st)
             /\ \A id \in Ids \ {ev.id} : strategies'[id] = strategies[id]
  <2>1. strategies' = [strategies EXCEPT ![ev.id] = [strategies[ev.id] EXCEPT !.status = st]]
    BY <1>2, <1>4 DEF UpdateStatus
  <2>2. strategies'[ev.id] = [strategies[ev.id] EXCEPT !.status = st]
    BY <1>3, <2>1
  <2>3. strategies'[ev.id] \in Row /\ strategies'[ev.id].status = st
    BY <1>3, <2>2 DEF Row
  <2> QED
    BY <1>3, <2>1, <2>3, RowAssumption DEF Says
<1>5. CASE Promotable(ev.genome, ev.score) /\ UpdateStatus(ev.id, "promoted")
  <2>1. Verdict(ev) = "promoted"
    BY <1>5 DEF Verdict
  <2> QED
    BY <1>2, <1>3, <1>4, <1>5, <2>1 DEF Status
<1>6. CASE ~Promotable(ev.genome, ev.score) /\ Survives(ev.score) /\ strategies' = strategies
  <2>1. Verdict(ev) = "candidate"
    BY <1>6 DEF Verdict
  <2> QED
    BY <1>2, <1>3, <1>6, <2>1
<1>7. CASE ev.score # NoScore /\ ~Survives(ev.score) /\ UpdateStatus(ev.id, "retired") /\ kept' = kept
  <2>1. Verdict(ev) = "retired"
    BY <1>7 DEF Verdict, Promotable, Survives
  <2> QED
    BY <1>2, <1>3, <1>4, <1>7, <2>1 DEF Status
<1>8. CASE ev.score = NoScore /\ strategies' = strategies
  <2>1. Verdict(ev) = "candidate"
    BY <1>8 DEF Verdict, Promotable
  <2> QED
    BY <1>2, <1>3, <1>8, <2>1
<1> QED
  BY <1>5, <1>6, <1>7, <1>8 DEF Select

LEMMA OtherVerdictsStand ==
  ASSUME SearchInvariant, NEW r \in Runs, Evolve(r) \/ Abort(r), NEW q \in Runs, q # r,
         VerdictStands(q)
  PROVE  VerdictStands(q)'
<1>0. SearchTypeOK
  BY DEF SearchInvariant
<1>1. /\ pc'[q] = pc[q] /\ pos'[q] = pos[q]
      /\ evaluated'[q] = evaluated[q] /\ board'[q] = board[q]
      /\ History(q)' = History(q)
  BY OtherRunsAreUntouched, OtherHistoriesStand
<1>2. \A i \in 1..Len(History(q)) : strategies'[History(q)[i].id] = strategies[History(q)[i].id]
  BY HistoryIsOwn, OtherRowsAreUntouched
<1>3. \A i \in 1..Len(board[q]) : strategies'[board[q][i].id] = strategies[board[q][i].id]
  BY <1>0, <1>2, BoardIsHistory
<1>4. ASSUME NEW i \in 1..Len(evaluated[q])
      PROVE  strategies'[evaluated[q][i].id] = strategies[evaluated[q][i].id]
  <2> DEFINE j == Len(board[q]) + i
  <2>1. j \in 1..Len(History(q)) /\ History(q)[j] = evaluated[q][i]
    BY <1>0, EvaluatedIsHistory
  <2> HIDE DEF j
  <2> QED
    BY <1>2, <2>1
<1> QED
  BY <1>1, <1>3, <1>4 DEF VerdictStands, Verdict, HasStatus, Stored

(* Each action of a run keeps its verdicts standing.                       *)
LEMMA VerdictStep ==
  ASSUME SearchInvariant, NEW r \in Runs, Evolve(r) \/ Abort(r), VerdictStands(r)
  PROVE  VerdictStands(r)'
<1>0. /\ SearchTypeOK /\ RunInvariant(r)
      /\ board[r] \in Seq(Evaluated) /\ evaluated[r] \in Seq(Evaluated)
  BY DEF SearchInvariant, SearchTypeOK
<1>1. CASE Begin(r) \/ NextGeneration(r) \/ Abort(r)
  <2>1. UNCHANGED <<strategies, board, evaluated>> /\ History(r)' = History(r)
    BY <1>1 DEF Begin, NextGeneration, Abort, tableVars, History
  <2>2. \/ Len(evaluated[r]) = 0
        \/ pc'[r] = "crashed"
    BY <1>0, <1>1 DEF Begin, NextGeneration, Abort, RunInvariant, Progress, SearchTypeOK
  <2> QED
    BY <2>1, <2>2 DEF VerdictStands, Verdict, HasStatus, Stored
<1>2. CASE InsertScore(r)
  <2>1. UNCHANGED <<strategies, board, evaluated>> /\ History(r)' = History(r) /\ pc[r] = "score"
    BY <1>2 DEF InsertScore, History
  <2>2. pc'[r] = "select" => pos'[r] = 1
    BY <1>0, <1>2 DEF InsertScore, Advance, SearchTypeOK
  <2>3. \A i \in 1..Len(evaluated[r]) : ~(i < 1)
    BY <1>0
  <2> QED
    BY <2>1, <2>2, <2>3 DEF VerdictStands, Verdict, HasStatus, Stored
<1>3. CASE FinishGeneration(r)
  <2>1. /\ strategies' = strategies
        /\ board'[r] = History(r) /\ evaluated'[r] = <<>>
        /\ History(r)' = History(r)
        /\ pc[r] = "select" /\ pos[r] > Len(evaluated[r])
    BY <1>0, <1>3 DEF FinishGeneration, SearchTypeOK, History, tableVars
  <2>2. ASSUME NEW i \in 1..Len(History(r)),
               \A j \in 1..Len(History(r)) : j > i => History(r)[j].id # History(r)[i].id
        PROVE  HasStatus(History(r)[i].id, Verdict(History(r)[i]))
    <3>1. CASE i \in 1..Len(board[r])
      <4>1. History(r)[i] = board[r][i]
        BY <1>0, <3>1, BoardIsHistory
      <4> QED
        BY <2>2, <3>1, <4>1 DEF VerdictStands
    <3>2. ASSUME NEW k \in 1..Len(evaluated[r]), i = Len(board[r]) + k
          PROVE  HasStatus(History(r)[i].id, Verdict(History(r)[i]))
      <4>1. History(r)[i] = evaluated[r][k]
        BY <1>0, <3>2, EvaluatedIsHistory
      <4>2. k < pos[r]
        BY <1>0, <2>1 DEF SearchTypeOK
      <4> QED
        BY <2>1, <4>1, <4>2 DEF VerdictStands
    <3> QED
      BY <1>0, <3>1, <3>2, HistoryPosition
  <2>3. Len(evaluated'[r]) = 0
    BY <2>1
  <2> DEFINE h == History(r)
  <2>4. /\ \A i \in 1..Len(h) : (\A j \in 1..Len(h) : j > i => h[j].id # h[i].id)
             => h[i].id \in Ids /\ Says(strategies'[h[i].id], Verdict(h[i]))
        /\ board'[r] = h /\ History(r)' = h
    BY <2>1, <2>2 DEF HasStatus, Stored, Says
  <2> HIDE DEF h
  <2> QED
    BY <2>3, <2>4 DEF VerdictStands, Verdict, HasStatus, Stored, Says
<1>4. CASE EvaluateAndUpsert(r)
  <2> DEFINE g == cohort[r][pos[r]]
  <2> DEFINE n == Len(evaluated[r])
  <2> DEFINE m == Len(History(r))
  <2>1. PICK id \in IdChoices(r, g), sc \in ScoreSpace \cup {NoScore} :
          /\ g \in Genomes
          /\ id \in Ids
          /\ idFor' = [idFor EXCEPT ![r] = [idFor[r] EXCEPT ![g] = id]]
          /\ strategies' = [strategies EXCEPT ![id] = [genome |-> g, status |-> "candidate"]]
          /\ \E trials \in Nat :
               /\ trials = Trials(idFor'[r])
               /\ evaluated'[r] = Append(evaluated[r],
                    [id |-> id, genome |-> g, score |-> sc, trials |-> trials])
          /\ \/ /\ sc = NoScore
                /\ Advance(r, pos[r] = Len(cohort[r]))
             \/ /\ sc # NoScore
                /\ pc' = [pc EXCEPT ![r] = "score"]
                /\ pos' = pos
          /\ \A q \in Runs \ {r} : evaluated'[q] = evaluated[q]
          /\ UNCHANGED <<oosLatest, gen, cohort, survivors, kept, seen, board>>
    BY <1>4, EvaluateAndUpsertEffect
  <2>2. PICK trials \in Nat : evaluated'[r] = Append(evaluated[r],
               [id |-> id, genome |-> g, score |-> sc, trials |-> trials])
    BY <2>1
  <2> DEFINE ev == [id |-> id, genome |-> g, score |-> sc, trials |-> trials]
  <2>3. ev \in Evaluated /\ ev.id = id
    BY <2>1, <2>2 DEF Evaluated
  <2>4. /\ m \in Nat
        /\ Len(History(r)') = m + 1
        /\ \A i \in 1..m : History(r)'[i] = History(r)[i]
        /\ History(r)'[m + 1] = ev
    BY <1>4, <2>2, <2>3, HistoryGrows
  <2>5. /\ n \in Nat
        /\ Len(evaluated'[r]) = n + 1
        /\ evaluated'[r][n + 1] = ev
        /\ \A i \in 1..n : evaluated'[r][i] = evaluated[r][i]
    BY <1>0, <2>2, <2>3
  <2>6. \A p \in Ids : strategies'[p] =
          IF p = id THEN [genome |-> g, status |-> "candidate"] ELSE strategies[p]
    BY <1>0, <2>1 DEF SearchTypeOK, TableTypeOK
  <2>7. pc[r] = "evaluate" /\ pc'[r] \in {"evaluate", "score", "select"}
          /\ (pc'[r] = "select" => pos'[r] = 1)
    <3>1. pc[r] = "evaluate"
      BY <1>4 DEF EvaluateAndUpsert
    <3>2. CASE pc' = [pc EXCEPT ![r] = "score"]
      BY <1>0, <3>1, <3>2 DEF SearchTypeOK
    <3>3. CASE Advance(r, pos[r] = Len(cohort[r]))
      BY <1>0, <3>1, <3>3 DEF SearchTypeOK, Advance
    <3> QED
      BY <2>1, <3>1, <3>2, <3>3
  <2>8. Says(strategies'[id], "candidate")
    <3>1. [genome |-> g, status |-> "candidate"] \in Row
      BY <2>1 DEF Row, Status
    <3> QED
      BY <2>1, <2>6, <3>1, RowAssumption DEF Says
  <2>9. \A i \in 1..(n + 1) : evaluated'[r][i].id \in Ids /\ Says(strategies'[evaluated'[r][i].id], "candidate")
    <3>1. ASSUME NEW i \in 1..n
          PROVE  evaluated[r][i].id \in Ids /\ Says(strategies'[evaluated[r][i].id], "candidate")
      <4>1. evaluated[r][i].id # id
        BY <2>1, <2>7, NewEvaluationIsOwn
      <4>2. evaluated[r][i].id \in Ids /\ Says(strategies[evaluated[r][i].id], "candidate")
        BY <2>7 DEF VerdictStands, HasStatus, Stored, Says
      <4> QED
        BY <2>6, <4>1, <4>2
    <3>2. \A i \in 1..(n + 1) : i \in 1..n \/ i = n + 1
      BY <2>5
    <3> HIDE DEF n, ev
    <3> QED
      BY <2>1, <2>3, <2>5, <2>8, <3>1, <3>2
  <2>10. ASSUME NEW i \in 1..Len(board[r]),
                \A j \in 1..(m + 1) : j > i => History(r)'[j].id # board[r][i].id
         PROVE  board[r][i].id \in Ids /\ Says(strategies'[board[r][i].id], Verdict(board[r][i]))
    <3>1. i \in 1..m
      BY <1>0, BoardIsHistory
    <3>2. m + 1 \in 1..(m + 1) /\ m + 1 > i /\ \A j \in 1..m : j \in 1..(m + 1)
      BY <2>4, <3>1
    <3> HIDE DEF m, ev
    <3>3. board[r][i].id # id
      BY <2>3, <2>4, <2>10, <3>2
    <3>4. \A j \in 1..m : j > i => History(r)[j].id # board[r][i].id
      BY <2>4, <2>10, <3>2
    <3>5. board[r][i].id \in Ids /\ Says(strategies[board[r][i].id], Verdict(board[r][i]))
      BY <3>4 DEF VerdictStands, HasStatus, Stored, Says, m
    <3> QED
      BY <2>6, <3>3, <3>5
  <2>11. \A i \in 1..(n + 1) : ~(i < 1)
    BY <2>5
  <2>12. ASSUME NEW i \in 1..Len(board'[r]),
                \A j \in 1..Len(History(r)') : j > i => History(r)'[j].id # board'[r][i].id
         PROVE  HasStatus(board[r][i].id, Verdict(board[r][i]))'
    BY <2>1, <2>4, <2>10, <2>12 DEF HasStatus, Stored, Says, Verdict
  <2>13. ASSUME NEW i \in 1..Len(evaluated'[r])
         PROVE  /\ HasStatus(evaluated[r][i].id, "candidate")'
                /\ pc'[r] = "select" => ~(i < pos'[r])
    BY <2>5, <2>7, <2>9, <2>11 DEF HasStatus, Stored, Says
  <2> HIDE DEF n, m, ev, g
  <2> QED
    BY <2>12, <2>13 DEF VerdictStands
<1>5. CASE Select(r)
  <2> DEFINE ev == evaluated[r][pos[r]]
  <2>1. /\ pos[r] \in 1..Len(evaluated[r]) /\ pc[r] = "select"
        /\ pos'[r] = pos[r] + 1
        /\ UNCHANGED <<pc, evaluated, board>>
        /\ History(r)' = History(r)
    BY <1>0, <1>5, SelectEffect DEF Select, Selecting, History, SearchTypeOK
  <2>2. /\ ev.id \in Ids
        /\ Says(strategies'[ev.id], Verdict(ev))
        /\ \A id \in Ids \ {ev.id} : strategies'[id] = strategies[id]
    BY <1>5, SelectPassesVerdict
  <2>3. ASSUME NEW i \in 1..Len(evaluated[r])
        PROVE  /\ evaluated[r][i].id \in Ids
               /\ Says(strategies'[evaluated[r][i].id],
                       IF i < pos[r] + 1 THEN Verdict(evaluated[r][i]) ELSE "candidate")
    <3>1. evaluated[r][i].id \in Ids
          /\ Says(strategies[evaluated[r][i].id],
                  IF i < pos[r] THEN Verdict(evaluated[r][i]) ELSE "candidate")
      BY <2>1 DEF VerdictStands, HasStatus, Stored, Says
    <3>2. CASE i = pos[r]
      BY <1>0, <2>1, <2>2, <3>2
    <3>3. CASE i # pos[r]
      <4>1. evaluated[r][i].id # ev.id
        BY <2>1, <3>3, EvaluationsDoNotShareIds
      <4>2. i < pos[r] + 1 <=> i < pos[r]
        BY <2>1, <3>3
      <4> QED
        BY <2>2, <3>1, <4>1, <4>2
    <3> QED
      BY <3>2, <3>3
  <2>4. ASSUME NEW i \in 1..Len(board[r]),
               \A j \in 1..Len(History(r)) : j > i => History(r)[j].id # board[r][i].id
        PROVE  board[r][i].id \in Ids /\ Says(strategies'[board[r][i].id], Verdict(board[r][i]))
    <3> DEFINE j == Len(board[r]) + pos[r]
    <3>1. j \in 1..Len(History(r)) /\ History(r)[j] = ev /\ j > i
      <4>1. j \in 1..Len(History(r)) /\ History(r)[j] = ev /\ j > Len(board[r])
        BY <1>0, <2>1, EvaluatedIsHistory
      <4>2. Len(board[r]) \in Nat /\ j \in Int
        BY <1>0, <2>1
      <4> HIDE DEF j
      <4> QED
        BY <4>1, <4>2
    <3> HIDE DEF j
    <3>2. board[r][i].id # ev.id
      BY <2>4, <3>1
    <3>3. board[r][i].id \in Ids /\ Says(strategies[board[r][i].id], Verdict(board[r][i]))
      BY <2>4 DEF VerdictStands, HasStatus, Stored, Says
    <3> QED
      BY <2>2, <3>2, <3>3
  <2> HIDE DEF ev
  <2> QED
    BY <2>1, <2>3, <2>4 DEF VerdictStands, Verdict, HasStatus, Stored, Says
<1> QED
  BY <1>1, <1>2, <1>3, <1>4, <1>5 DEF Evolve

-----------------------------------------------------------------------------
(* Appending an element adds it to the range and nothing else.             *)
LEMMA AppendRange ==
  ASSUME NEW t \in Seq(Genomes), NEW x \in Genomes
  PROVE  SeqRange(Append(t, x)) \subseteq SeqRange(t) \cup {x}
<1> SUFFICES ASSUME NEW i \in DOMAIN Append(t, x)
             PROVE  Append(t, x)[i] \in SeqRange(t) \cup {x}
  BY Zenon DEF SeqRange
<1>1. DOMAIN Append(t, x) = 1..(Len(t) + 1) /\ DOMAIN t = 1..Len(t) /\ Len(t) \in Nat
  OBVIOUS
<1>2. i \in 1..Len(t) \/ i = Len(t) + 1
  BY <1>1
<1> QED
  BY <1>1, <1>2 DEF SeqRange

(* A retired signature stays out of the hands of the run that retired it,  *)
(* whatever the other runs do...                                           *)
LEMMA OtherRetiredStayGone ==
  ASSUME SearchInvariant, NEW r \in Runs, Evolve(r) \/ Abort(r), NEW q \in Runs, q # r,
         RetiredAreGone(q)
  PROVE  RetiredAreGone(q)'
<1>1. /\ pc'[q] = pc[q] /\ cohort'[q] = cohort[q] /\ survivors'[q] = survivors[q]
      /\ kept'[q] = kept[q] /\ seen'[q] = seen[q] /\ idFor'[q] = idFor[q]
  BY OtherRunsAreUntouched
<1>2. ASSUME NEW g \in Genomes, idFor[q][g] # NoId
      PROVE  strategies'[idFor[q][g]] = strategies[idFor[q][g]]
  <2>1. idFor[q][g] \in Ids
    BY <1>2 DEF SearchInvariant, SearchTypeOK
  <2> QED
    BY <2>1, OtherRowsAreUntouched
<1> QED
  BY <1>1, <1>2 DEF RetiredAreGone, HasStatus, Stored, SeqRange

(* ... and whatever it does itself: admit_unique refuses what it has seen, *)
(* and only survivors are carried into the next generation.                *)
LEMMA RetiredStep ==
  ASSUME SearchInvariant, NEW r \in Runs, Evolve(r) \/ Abort(r),
         VerdictStands(r), RetiredAreGone(r)
  PROVE  RetiredAreGone(r)'
<1> DEFINE Gone(g) ==
      /\ pc'[r] \in {"idle", "build"} => g \notin SeqRange(survivors'[r])
      /\ pc'[r] \in {"evaluate", "score"} => g \notin SeqRange(cohort'[r])
      /\ pc'[r] = "select" => g \notin SeqRange(kept'[r])
<1> DEFINE Retired(g) == idFor[r][g] # NoId /\ Says(strategies[idFor[r][g]], "retired")
<1>0. /\ SearchTypeOK /\ Progress(r) /\ KeptAreSelected(r) /\ OwnIds(r)
      /\ SeqRange(cohort[r]) \subseteq seen[r]
      /\ \A g \in Genomes : idFor[r][g] # NoId => g \in seen[r]
      /\ \A g \in Genomes : idFor[r][g] # NoId => idFor[r][g] \in Ids
      /\ SeqRange(<<>>) = {}
  BY DEF SearchInvariant, SearchTypeOK, RunInvariant, RetiredAreGone, SeqRange
<1>1. \A g \in Genomes : Retired(g) =>
        /\ pc[r] \in {"idle", "build"} => g \notin SeqRange(survivors[r])
        /\ pc[r] \in {"evaluate", "score"} => g \notin SeqRange(cohort[r])
        /\ pc[r] = "select" => g \notin SeqRange(kept[r])
  BY <1>0 DEF RetiredAreGone, Says, HasStatus, Stored
<1>2. ASSUME /\ SeqRange(cohort'[r]) \subseteq seen'[r]
             /\ \A g \in Genomes : idFor'[r][g] # NoId => g \in seen'[r]
             /\ \A g \in Genomes : idFor'[r][g] # NoId /\ Says(strategies'[idFor'[r][g]], "retired")
                  => Gone(g)
      PROVE  RetiredAreGone(r)'
  BY <1>2 DEF RetiredAreGone, Says, HasStatus, Stored, SeqRange
<1> HIDE DEF Gone, Retired
<1>3. CASE Begin(r) \/ Abort(r)
  <2>1. UNCHANGED <<strategies, cohort, survivors, kept, seen, idFor>>
    BY <1>3 DEF Begin, Abort, tableVars
  <2>2. \/ pc[r] = "idle" /\ pc'[r] = "build"
        \/ pc'[r] = "crashed"
    BY <1>0, <1>3 DEF Begin, Abort, SearchTypeOK
  <2>3. \A g \in Genomes : Retired(g) => Gone(g)
    BY <1>1, <2>1, <2>2 DEF Gone
  <2> QED
    BY <1>0, <1>2, <2>1, <2>3 DEF Retired
<1>4. CASE NextGeneration(r)
  <2>1. PICK fresh \in Candidates(FreshGenomes(r), PerGen - Len(survivors[r])) :
          LET genomes == survivors[r] \o fresh IN
          /\ cohort' = [cohort EXCEPT ![r] = genomes]
          /\ seen' = [seen EXCEPT ![r] = @ \cup SeqRange(genomes)]
          /\ pc' = [pc EXCEPT ![r] = IF genomes = <<>> THEN "select" ELSE "evaluate"]
    BY <1>4 DEF NextGeneration
  <2> DEFINE genomes == survivors[r] \o fresh
  <2>2. /\ pc[r] = "build" /\ kept[r] = <<>>
        /\ UNCHANGED <<strategies, survivors, kept, idFor>>
    BY <1>0, <1>4 DEF NextGeneration, Progress, tableVars
  <2>3. /\ cohort'[r] = genomes
        /\ seen'[r] = seen[r] \cup SeqRange(genomes)
        /\ pc'[r] \in {"select", "evaluate"}
    BY <1>0, <2>1 DEF SearchTypeOK
  <2>4. SeqRange(genomes) \subseteq SeqRange(survivors[r]) \cup FreshGenomes(r)
    <3>1. PICK k \in 0..(PerGen - Len(survivors[r])) :
            fresh \in {s \in [1..k -> FreshGenomes(r)] : RepetitionFree(s)}
      BY <2>1 DEF Candidates
    <3>2. fresh \in Seq(FreshGenomes(r)) /\ survivors[r] \in Seq(Genomes)
      <4>1. k \in Nat
        BY <1>0, <3>1, SearchAssumption DEF SearchTypeOK
      <4> QED
        BY <1>0, <3>1, <4>1 DEF SearchTypeOK
    <3>3. ASSUME NEW i \in 1..Len(genomes)
          PROVE  genomes[i] \in SeqRange(survivors[r]) \cup FreshGenomes(r)
      <4>1. \/ i \in 1..Len(survivors[r]) /\ genomes[i] = survivors[r][i]
            \/ /\ i - Len(survivors[r]) \in 1..Len(fresh)
               /\ genomes[i] = fresh[i - Len(survivors[r])]
        <5>1. FreshGenomes(r) \subseteq Genomes
          BY DEF FreshGenomes
        <5>2. fresh \in Seq(Genomes)
          BY <3>2, <5>1
        <5> QED
          BY <3>2, <5>2, ConcatElement
      <4>2. 1..Len(survivors[r]) = DOMAIN survivors[r]
        BY <3>2
      <4>3. \A j \in 1..Len(fresh) : fresh[j] \in FreshGenomes(r)
        BY <3>2
      <4> QED
        BY <4>1, <4>2, <4>3 DEF SeqRange
    <3>4. DOMAIN genomes = 1..Len(genomes)
      BY <2>1, CohortIsSound
    <3> QED
      BY <3>3, <3>4 DEF SeqRange
  <2>5. ASSUME NEW g \in Genomes, Retired(g)
        PROVE  Gone(g)
    <3>1. g \in seen[r] /\ g \notin SeqRange(survivors[r])
      BY <1>0, <1>1, <2>2, <2>5 DEF Retired
    <3>2. g \notin SeqRange(cohort'[r])
      BY <2>3, <2>4, <3>1 DEF FreshGenomes
    <3>3. g \notin SeqRange(kept'[r])
      BY <1>0, <2>2
    <3> QED
      BY <2>3, <3>2, <3>3 DEF Gone
  <2>6. SeqRange(cohort'[r]) \subseteq seen'[r]
    BY <2>3
  <2>7. \A g \in Genomes : idFor'[r][g] # NoId => g \in seen'[r]
    BY <1>0, <2>2, <2>3
  <2> QED
    BY <1>2, <2>2, <2>5, <2>6, <2>7 DEF Retired
<1>5. CASE EvaluateAndUpsert(r)
  <2> DEFINE g == cohort[r][pos[r]]
  <2>1. PICK id \in IdChoices(r, g), sc \in ScoreSpace \cup {NoScore} :
          /\ g \in Genomes
          /\ id \in Ids
          /\ idFor' = [idFor EXCEPT ![r] = [idFor[r] EXCEPT ![g] = id]]
          /\ strategies' = [strategies EXCEPT ![id] = [genome |-> g, status |-> "candidate"]]
          /\ \E trials \in Nat :
               /\ trials = Trials(idFor'[r])
               /\ evaluated'[r] = Append(evaluated[r],
                    [id |-> id, genome |-> g, score |-> sc, trials |-> trials])
          /\ \/ /\ sc = NoScore
                /\ Advance(r, pos[r] = Len(cohort[r]))
             \/ /\ sc # NoScore
                /\ pc' = [pc EXCEPT ![r] = "score"]
                /\ pos' = pos
          /\ \A q \in Runs \ {r} : evaluated'[q] = evaluated[q]
          /\ UNCHANGED <<oosLatest, gen, cohort, survivors, kept, seen, board>>
    BY <1>5, EvaluateAndUpsertEffect
  <2>2. \A h \in Genomes : idFor'[r][h] = IF h = g THEN id ELSE idFor[r][h]
    BY <1>0, <2>1 DEF SearchTypeOK
  <2>3. \A p \in Ids : strategies'[p] =
          IF p = id THEN [genome |-> g, status |-> "candidate"] ELSE strategies[p]
    BY <1>0, <2>1 DEF SearchTypeOK, TableTypeOK
  <2>4. \A h \in Genomes : idFor[r][h] = id => h = g
    BY <2>1, ChosenIdIsOwn
  <2>5. /\ pc[r] = "evaluate" /\ kept[r] = <<>> /\ pos[r] \in 1..Len(cohort[r])
        /\ pc'[r] \in {"evaluate", "score", "select"}
    <3>1. pc[r] = "evaluate"
      BY <1>5 DEF EvaluateAndUpsert
    <3>2. pc'[r] \in {"evaluate", "score", "select"}
      BY <1>0, <2>1 DEF SearchTypeOK, Advance
    <3> QED
      BY <1>0, <3>1, <3>2 DEF Progress
  <2>6. g \in seen[r]
    <3>1. pos[r] \in DOMAIN cohort[r]
      BY <1>0, <2>5 DEF SearchTypeOK
    <3> QED
      BY <1>0, <3>1 DEF SeqRange
  <2>7. ASSUME NEW h \in Genomes, idFor'[r][h] # NoId, Says(strategies'[idFor'[r][h]], "retired")
        PROVE  Gone(h)
    <3>1. h # g
      BY <2>1, <2>2, <2>3, <2>7 DEF Says
    <3>2. idFor[r][h] \in Ids /\ idFor[r][h] # id /\ idFor'[r][h] = idFor[r][h]
      BY <1>0, <2>2, <2>4, <2>7, <3>1
    <3>3. Retired(h)
      BY <2>3, <2>7, <3>2 DEF Retired
    <3> QED
      BY <1>0, <1>1, <2>1, <2>5, <3>3 DEF Gone
  <2>8. \A h \in Genomes : idFor'[r][h] # NoId => h \in seen'[r]
    BY <1>0, <2>1, <2>2, <2>6
  <2> HIDE DEF g
  <2>9. cohort' = cohort /\ seen' = seen
    BY <2>1
  <2> QED
    BY <1>0, <1>2, <2>7, <2>8, <2>9
<1>6. CASE InsertScore(r)
  <2>1. /\ UNCHANGED <<strategies, cohort, survivors, kept, seen, idFor>>
        /\ pc[r] = "score" /\ kept[r] = <<>>
    BY <1>0, <1>6 DEF InsertScore, Progress
  <2>2. pc'[r] \in {"evaluate", "select"}
    BY <1>0, <1>6 DEF InsertScore, Advance, SearchTypeOK
  <2>3. \A g \in Genomes : Retired(g) => Gone(g)
    BY <1>0, <1>1, <2>1, <2>2 DEF Gone
  <2> QED
    BY <1>0, <1>2, <2>1, <2>3 DEF Retired
<1>7. CASE Select(r)
  <2> DEFINE ev == evaluated[r][pos[r]]
  <2>1. /\ pos[r] \in 1..Len(evaluated[r]) /\ ev \in Evaluated /\ pc[r] = "select"
        /\ Carry(r, ev.genome) \/ kept' = kept
        /\ UNCHANGED <<pc, cohort, survivors, seen, idFor>>
    BY <1>7, SelectEffect DEF Select, Selecting
  <2>2. /\ Says(strategies[ev.id], "candidate")
        /\ Says(strategies'[ev.id], Verdict(ev))
        /\ \A id \in Ids \ {ev.id} : strategies'[id] = strategies[id]
        /\ Verdict(ev) = "retired" => kept' = kept
    BY <1>7, SelectPassesVerdict
  <2>3. /\ kept[r] \in Seq(Genomes)
        /\ ev.genome \in Genomes
        /\ kept'[r] = kept[r] \/ kept'[r] = Append(kept[r], ev.genome)
        /\ ev.id = idFor[r][ev.genome]
    BY <1>0, <2>1 DEF SearchTypeOK, Carry, Evaluated, OwnIds
  <2>4. SeqRange(kept'[r]) \subseteq SeqRange(kept[r]) \cup {ev.genome}
    <3>1. CASE kept'[r] = kept[r]
      BY <3>1
    <3>2. CASE kept'[r] = Append(kept[r], ev.genome)
      <4>1. SeqRange(Append(kept[r], ev.genome)) \subseteq SeqRange(kept[r]) \cup {ev.genome}
        BY <2>3, AppendRange
      <4> QED
        BY <3>2, <4>1
    <3> QED
      BY <2>3, <3>1, <3>2
  <2>5. ev.genome \notin SeqRange(kept[r])
    <3> SUFFICES ASSUME NEW k \in DOMAIN kept[r], kept[r][k] = ev.genome PROVE FALSE
      BY DEF SeqRange
    <3>1. k \in 1..Len(kept[r])
      BY <2>3
    <3>2. PICK j \in 1..(pos[r] - 1) : evaluated[r][j].genome = kept[r][k]
      BY <1>0, <2>1, <3>1 DEF KeptAreSelected
    <3>3. j \in 1..Len(evaluated[r]) /\ j # pos[r]
      BY <2>1
    <3> QED
      BY <2>1, <3>2, <3>3, EvaluationsDoNotShareIds
  <2>6. ASSUME NEW g \in Genomes, idFor'[r][g] # NoId, Says(strategies'[idFor'[r][g]], "retired")
        PROVE  g \notin SeqRange(kept'[r])
    <3>1. CASE g = ev.genome
      BY <2>1, <2>2, <2>3, <2>5, <2>6, <3>1 DEF Says
    <3>2. CASE g # ev.genome
      <4>1. idFor[r][g] \in Ids \ {ev.id}
        BY <1>0, <2>1, <2>3, <2>6, <3>2 DEF SearchInvariant, IdsDisjoint
      <4>2. Retired(g)
        BY <2>1, <2>2, <2>6, <4>1 DEF Retired
      <4> QED
        BY <1>1, <2>1, <2>4, <3>2, <4>2
    <3> QED
      BY <3>1, <3>2
  <2> HIDE DEF ev
  <2> QED
    BY <1>0, <1>2, <2>1, <2>6 DEF Gone
<1>8. CASE FinishGeneration(r)
  <2>1. /\ UNCHANGED <<strategies, cohort, seen, idFor>>
        /\ pc[r] = "select" /\ pc'[r] \in {"build", "done"}
        /\ survivors'[r] = kept[r]
    BY <1>0, <1>8 DEF FinishGeneration, AfterGeneration, SearchTypeOK, tableVars
  <2>2. \A g \in Genomes : Retired(g) => Gone(g)
    BY <1>1, <2>1 DEF Gone
  <2> QED
    BY <1>0, <1>2, <2>1, <2>2 DEF Retired
<1> QED
  BY <1>3, <1>4, <1>5, <1>6, <1>7, <1>8 DEF Evolve

-----------------------------------------------------------------------------
(* The empty table and the runs that have not begun: nothing is evaluated. *)
LEMMA InitSatisfiesStatusInvariant == SearchInit => StatusInvariant
<1> SUFFICES ASSUME SearchInit PROVE StatusInvariant
  OBVIOUS
<1>1. SearchInvariant
  BY InitSatisfiesInvariant
<1>2. ASSUME NEW r \in Runs
      PROVE  SignaturesEvaluated(r) /\ VerdictStands(r) /\ RetiredAreGone(r)
  <2>1. /\ board[r] = <<>> /\ evaluated[r] = <<>> /\ cohort[r] = <<>>
        /\ \A g \in Genomes : idFor[r][g] = NoId
    BY <1>2 DEF SearchInit
  <2>2. Len(History(r)) = 0
    BY <2>1 DEF History
  <2>3. SignaturesEvaluated(r)
    BY <2>1, <2>2 DEF SignaturesEvaluated
  <2>4. VerdictStands(r)
    BY <2>1 DEF VerdictStands
  <2>5. RetiredAreGone(r)
    BY <2>1 DEF RetiredAreGone, SeqRange
  <2> QED
    BY <2>3, <2>4, <2>5
<1> QED
  BY <1>1, <1>2 DEF StatusInvariant

(* Every step keeps the invariant about statuses too.                      *)
LEMMA StepKeepsStatusInvariant ==
  StatusInvariant /\ [SearchNext]_searchVars => StatusInvariant'
<1> SUFFICES ASSUME StatusInvariant, [SearchNext]_searchVars PROVE StatusInvariant'
  OBVIOUS
<1>0. SearchInvariant'
  BY StepKeepsInvariant DEF StatusInvariant
<1>1. CASE SearchNext
  <2>1. PICK r \in Runs : Evolve(r) \/ Abort(r)
    BY <1>1 DEF SearchNext
  <2>2. ASSUME NEW q \in Runs
        PROVE  SignaturesEvaluated(q)' /\ VerdictStands(q)' /\ RetiredAreGone(q)'
    <3>1. SearchInvariant /\ SignaturesEvaluated(q) /\ VerdictStands(q) /\ RetiredAreGone(q)
      BY DEF StatusInvariant
    <3>2. SignaturesEvaluated(q)'
      BY <2>1, <3>1, SignaturesStep
    <3>3. VerdictStands(q)'
      BY <2>1, <3>1, VerdictStep, OtherVerdictsStand
    <3>4. RetiredAreGone(q)'
      BY <2>1, <3>1, RetiredStep, OtherRetiredStayGone
    <3> QED
      BY <3>2, <3>3, <3>4
  <2> QED
    BY <1>0, <2>2 DEF StatusInvariant
<1>2. CASE UNCHANGED searchVars
  <2>1. UNCHANGED <<strategies, oosLatest>> /\ UNCHANGED runVars
    BY <1>2 DEF searchVars, tableVars
  <2>2. ASSUME NEW q \in Runs
        PROVE  SignaturesEvaluated(q)' /\ VerdictStands(q)' /\ RetiredAreGone(q)'
    <3>1. SignaturesEvaluated(q) /\ VerdictStands(q) /\ RetiredAreGone(q)
      BY DEF StatusInvariant
    <3>2. SignaturesEvaluated(q)'
      BY <2>1, <3>1 DEF SignaturesEvaluated, History, runVars
    <3>3. VerdictStands(q)'
      BY <2>1, <3>1 DEF VerdictStands, Verdict, HasStatus, Stored, History, runVars
    <3>4. RetiredAreGone(q)'
      BY <2>1, <3>1 DEF RetiredAreGone, HasStatus, Stored, SeqRange, runVars
    <3> QED
      BY <3>2, <3>3, <3>4
  <2> QED
    BY <1>0, <2>2 DEF StatusInvariant
<1> QED
  BY <1>1, <1>2

-----------------------------------------------------------------------------
(* The invariant holds of every behaviour of any number of concurrent runs.*)
THEOREM SearchIsInvariant == SearchSpec => []SearchInvariant
<1> QED
  BY InitSatisfiesInvariant, StepKeepsInvariant, PTL DEF SearchSpec

(* Every variable keeps its declared type, generation counters their bound.*)
THEOREM SearchTypeCorrect == SearchSpec => []SearchTypeOK
<1>1. SearchInvariant => SearchTypeOK
  BY DEF SearchInvariant
<1> QED
  BY <1>1, SearchIsInvariant, PTL

(* Whatever the interleaving of any number of runs, and wherever they are  *)
(* aborted, a promoted row of `strategies` has a newest out-of-sample      *)
(* score that passed the gate and the promotion guardrails.                *)
THEOREM PromotionIsEarned == SearchSpec => []PromotedHasPassingScore
<1>1. SearchInvariant => PromotedHasPassingScore
  BY DEF SearchInvariant
<1> QED
  BY <1>1, SearchIsInvariant, PTL

(* A signature has one id in a run, and an id one signature of one run:    *)
(* an elite carried forward is updated in place, never duplicated.         *)
THEOREM OneIdPerSignatureHolds == SearchSpec => []OneIdPerSignature
<1>1. SearchInvariant => OneIdPerSignature
  <2> SUFFICES ASSUME SearchInvariant PROVE OneIdPerSignature
    OBVIOUS
  <2>1. \A r \in Runs : DOMAIN History(r) = 1..Len(History(r))
    BY HistoryFacts DEF SearchInvariant
  <2>2. \A r \in Runs : \A i, j \in 1..Len(History(r)) :
          History(r)[i].genome = History(r)[j].genome <=> History(r)[i].id = History(r)[j].id
    BY OneSignatureOneId
  <2>3. ASSUME NEW r \in Runs, NEW q \in Runs, r # q,
               NEW i \in 1..Len(History(r)), NEW j \in 1..Len(History(q))
        PROVE  History(r)[i].id # History(q)[j].id
    BY <2>3, HistoryIsOwn DEF SearchInvariant, IdsDisjoint
  <2> QED
    BY <2>1, <2>2, <2>3 DEF OneIdPerSignature
<1> QED
  BY <1>1, SearchIsInvariant, PTL

(* While searches alone write statuses, every row says what the newest     *)
(* evaluation of its strategy earned, a run has given ids to exactly the   *)
(* signatures it has evaluated, and it holds none that it retired.         *)
THEOREM StatusIsInvariant == SearchSpec => []StatusInvariant
<1> QED
  BY InitSatisfiesStatusInvariant, StepKeepsStatusInvariant, PTL DEF SearchSpec

(* When a run has finished, each strategy it evaluated carries the verdict *)
(* on its last evaluation.                                                 *)
THEOREM FinishedRunsCarryTheirVerdicts == SearchSpec => []FinishedRunMatchesVerdict
<1>1. StatusInvariant => FinishedRunMatchesVerdict
  <2> SUFFICES ASSUME StatusInvariant, NEW r \in Runs, pc[r] = "done",
                      NEW i \in DOMAIN board[r],
                      \A j \in DOMAIN board[r] : j > i => board[r][j].id # board[r][i].id
               PROVE  HasStatus(board[r][i].id, Verdict(board[r][i]))
    BY DEF FinishedRunMatchesVerdict
  <2>1. /\ board[r] \in Seq(Evaluated) /\ evaluated[r] = <<>> /\ VerdictStands(r)
    BY DEF StatusInvariant, SearchInvariant, SearchTypeOK, RunInvariant, Progress
  <2>2. History(r) = board[r] /\ DOMAIN board[r] = 1..Len(board[r])
    BY <2>1 DEF History
  <2> QED
    BY <2>1, <2>2 DEF VerdictStands
<1> QED
  BY <1>1, StatusIsInvariant, PTL

(* The scoreboard survives a crash at any statement: the newest stored     *)
(* score of a strategy of a finished generation is one its run computed in *)
(* that generation or later.                                               *)
THEOREM ScoreboardSurvivesACrash == SearchSpec => []ScoreboardDurable
<1>1. SearchInit => ScoreboardDurable
  BY DEF SearchInit, ScoreboardDurable
<1>2. SearchInvariant /\ ScoreboardDurable /\ [SearchNext]_searchVars => ScoreboardDurable'
  <2>1. CASE UNCHANGED searchVars
    BY <2>1 DEF ScoreboardDurable, History, searchVars, runVars, tableVars
  <2> QED
    BY <2>1, DurableStep DEF SearchNext
<1> QED
  BY <1>1, <1>2, SearchIsInvariant, PTL DEF SearchSpec

(* The trial count that deflates the Sharpe ratio of an evaluation is the  *)
(* number of distinct signatures its run had evaluated by then.            *)
THEOREM TrialsAreDistinctGenomes == SearchSpec => []TrialsCountDistinctGenomes
<1>1. SearchInit => TrialsCountDistinctGenomes
  BY DEF SearchInit, TrialsCountDistinctGenomes, History
<1>2. StatusInvariant /\ TrialsCountDistinctGenomes /\ [SearchNext]_searchVars
        => TrialsCountDistinctGenomes'
  <2>1. CASE UNCHANGED searchVars
    BY <2>1 DEF TrialsCountDistinctGenomes, History, searchVars, runVars
  <2> QED
    BY <2>1, TrialsStep DEF SearchNext, StatusInvariant
<1> QED
  BY <1>1, <1>2, StatusIsInvariant, PTL DEF SearchSpec

(* No step of any run takes a row out of retired: a run never evaluates    *)
(* again what it retired, and no other run writes the row.                 *)
THEOREM RetiredIsFinal == SearchSpec => RetiredStaysRetired
<1>1. StatusInvariant /\ [SearchNext]_searchVars
        => [\A id \in Ids : HasStatus(id, "retired") => HasStatus(id, "retired")']_searchVars
  <2> SUFFICES ASSUME StatusInvariant, NEW r \in Runs, Evolve(r) \/ Abort(r),
                      NEW p \in Ids, Says(strategies[p], "retired")
               PROVE  Says(strategies'[p], "retired")
    BY DEF SearchNext, HasStatus, Stored, Says
  <2>0. SearchInvariant /\ SearchTypeOK /\ VerdictStands(r) /\ RetiredAreGone(r)
    BY DEF StatusInvariant, SearchInvariant
  <2>1. CASE EvaluateAndUpsert(r)
    <3> DEFINE g == cohort[r][pos[r]]
    <3>1. PICK id \in IdChoices(r, g) :
            /\ g \in Genomes
            /\ strategies' = [strategies EXCEPT ![id] = [genome |-> g, status |-> "candidate"]]
      BY <2>0, <2>1, EvaluateAndUpsertEffect
    <3>2. p # id
      <4> SUFFICES ASSUME p = id PROVE FALSE
        OBVIOUS
      <4>1. PICK q \in Runs, h \in Genomes : idFor[q][h] = id
        BY <2>0 DEF SearchInvariant, StoredIsMinted, Stored, Minted, Says
      <4>2. idFor[r][g] = id
        BY <2>0, <3>1, <4>1, ChosenIdIsOwn
      <4>3. g \notin SeqRange(cohort[r])
        BY <2>0, <2>1, <3>1, <4>2, SearchAssumption
           DEF RetiredAreGone, EvaluateAndUpsert, HasStatus, Stored, Says
      <4>4. pos[r] \in DOMAIN cohort[r]
        BY <2>0, <2>1 DEF SearchInvariant, RunInvariant, Progress, SearchTypeOK, EvaluateAndUpsert
      <4> QED
        BY <4>3, <4>4 DEF SeqRange
    <3> QED
      BY <2>0, <3>1, <3>2 DEF SearchTypeOK, TableTypeOK
  <2>2. CASE Select(r)
    BY <2>0, <2>2, SelectPassesVerdict DEF Says
  <2>3. CASE UNCHANGED strategies
    BY <2>3
  <2> QED
    BY <2>1, <2>2, <2>3
       DEF Evolve, Abort, Begin, NextGeneration, InsertScore, FinishGeneration, tableVars
<1> QED
  BY <1>1, StatusIsInvariant, PTL DEF SearchSpec, RetiredStaysRetired
=============================================================================

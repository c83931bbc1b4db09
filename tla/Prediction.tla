---------------------------- MODULE Prediction ------------------------------
(***************************************************************************)
(* What routing history suggests about the next layer: src/prediction.     *)
(*                                                                         *)
(* A selection is a pair <<layer, expert>>; counters are bags.  Decayed    *)
(* counters and the window's popularity only weigh a candidate's           *)
(* probability, a floating-point number used to order the candidates:      *)
(* PredictDetailed leaves that order open.  Confidence decides what is     *)
(* prefetched and is kept, in percent.                                     *)
(***************************************************************************)
EXTENDS Naturals, Sequences, FiniteSets, Bags, SequencesExt

CONSTANTS RecentWindow,              \* decisions kept in recent_
          MaximumPredictions,        \* AdaptivePredictionConfig
          MinimumConfidence,         \* in percent
          MinimumPrefetchConfidence  \* in percent

SelectionsOf(decision) ==
  [rank \in DOMAIN decision.selected |->
     <<decision.layer, decision.selected[rank]>>]

AddAll(bag, items) == FoldSeq(LAMBDA x, b : b (+) SetToBag({x}), bag, items)

\* Every (from, to) pair, in the order of the two nested loops.
Transitions(from, to) ==
  FlattenSeq([f \in DOMAIN from |-> [t \in DOMAIN to |-> <<from[f], to[t]>>]])

OrderedPair(a, b) == IF b[1] < a[1] \/ (b[1] = a[1] /\ b[2] < a[2])
                       THEN <<b, a>> ELSE <<a, b>>

Pairs(current) ==
  LET lefts == [l \in DOMAIN current |->
                  [r \in 1 .. Len(current) - l |->
                     OrderedPair(current[l], current[l + r])]]
  IN  FlattenSeq(lefts)

\* map[key] = value.
Put(map, key, value) ==
  [x \in DOMAIN map \cup {key} |-> IF x = key THEN value ELSE map[x]]

NoHistory == [decisions |-> 0, frequencies |-> EmptyBag,
              transitions |-> EmptyBag, previous |-> <<>>]

\* ExpertHistory::record: one line of history for all streams together.
HistoryRecord(history, decision) ==
  LET current == SelectionsOf(decision)
  IN  [decisions |-> history.decisions + 1,
       frequencies |-> AddAll(history.frequencies, current),
       transitions |-> AddAll(history.transitions,
                              Transitions(history.previous, current)),
       previous |-> current]

NoDatabase == [observations |-> 0, frequency |-> EmptyBag,
               transitions |-> EmptyBag, cooccurrence |-> EmptyBag,
               previous |-> <<>>, recent |-> <<>>]

PreviousSelections(db, stream) ==
  IF stream \in DOMAIN db.previous THEN db.previous[stream] ELSE <<>>

\* TransitionDatabase::record: transitions follow one stream.
Record(db, decision, stream) ==
  LET current == SelectionsOf(decision)
      recent == Append(db.recent, current)
  IN  [observations |-> db.observations + 1,
       frequency |-> AddAll(db.frequency, current),
       transitions |-> AddAll(db.transitions,
                         Transitions(PreviousSelections(db, stream), current)),
       cooccurrence |-> AddAll(db.cooccurrence, Pairs(current)),
       previous |-> Put(db.previous, stream, current),
       recent |-> IF Len(recent) > RecentWindow THEN Tail(recent) ELSE recent]

\* predictionStatistics: the experts ever seen in the target layer and which
\* of the sources led to each.
PredictionStatistics(db, target, sources) ==
  {[expert |-> x[2], frequency |-> db.frequency[x],
    supported |-> Cardinality({s \in DOMAIN sources :
                                 BagIn(<<sources[s], x>>, db.transitions)})] :
     x \in {y \in BagToSet(db.frequency) : y[1] = target}}

\* log1p(n) / log(9) in percent, capped at one.
Evidence(n) == IF n >= 8 THEN 100 ELSE <<31, 50, 63, 73, 81, 88, 94>>[n]

Confidence(candidate, sourceCount) ==
  (65 * Evidence(candidate.frequency) * sourceCount
     + 3500 * candidate.supported) \div (100 * sourceCount)

\* The predictions for the layer after a decision: every order of the
\* sufficiently confident candidates, cut to the configured maximum.
PredictDetailed(db, layer, selected) ==
  LET sources == IF selected = <<>> THEN PreviousSelections(db, 1)
                 ELSE [rank \in DOMAIN selected |-> <<layer, selected[rank]>>]
      scored == {[expert |-> c.expert, layer |-> layer + 1,
                  confidence |-> Confidence(c, Len(sources))] :
                   c \in PredictionStatistics(db, layer + 1, sources)}
      kept == {p \in scored : p.confidence >= MinimumConfidence}
      count == IF Cardinality(kept) < MaximumPredictions
                 THEN Cardinality(kept) ELSE MaximumPredictions
  IN  IF sources = <<>> THEN {<<>>}
      ELSE {SubSeq(order, 1, count) : order \in SetToSeqs(kept)}

ShouldPrefetch(prediction) ==
  prediction.confidence >= MinimumPrefetchConfidence

NoQuality == [opportunities |-> 0, predictions |-> 0, top1Correct |-> 0,
              topKCovered |-> 0, usefulPredictions |-> 0,
              wastedPredictions |-> 0, suppressedPrefetches |-> 0]

\* pending: the predictions of each stream still to be judged.
NoPredictor == [pending |-> <<>>, quality |-> NoQuality]

Outstanding(predictor, stream) ==
  IF stream \in DOMAIN predictor.pending THEN predictor.pending[stream] ELSE <<>>

Forget(pending, stream) == [s \in DOMAIN pending \ {stream} |-> pending[s]]

\* Mutant of Judge: a useful prediction is counted as wasted too.
JudgeNoElse(predictor, decision, stream) ==
  LET predicted == Outstanding(predictor, stream)
      hits == {i \in DOMAIN predicted : predicted[i].expert \in ToSet(decision.selected)}
  IN  IF predicted = <<>> THEN predictor
      ELSE [pending |-> Forget(predictor.pending, stream),
            quality |-> [predictor.quality EXCEPT
                           !.opportunities = @ + 1,
                           !.usefulPredictions = @ + Cardinality(hits),
                           !.wastedPredictions = @ + Len(predicted)]]

\* The first block of observeAndPrefetch: compare what was predicted for this
\* layer with what was selected.
Judge(predictor, decision, stream) ==
  LET predicted == Outstanding(predictor, stream)
      selected == ToSet(decision.selected)
      hits == {i \in DOMAIN predicted : predicted[i].expert \in selected}
      one(b) == IF b THEN 1 ELSE 0
      q == predictor.quality
  IN  IF predicted = <<>> THEN predictor
      ELSE IF predicted[1].layer # decision.layer THEN predictor
      ELSE [pending |-> Forget(predictor.pending, stream),
            quality |->
              [q EXCEPT !.opportunities = @ + 1,
                        !.top1Correct = @ + one(1 \in hits),
                        !.topKCovered = @ + one(hits # {}),
                        !.usefulPredictions = @ + Cardinality(hits),
                        !.wastedPredictions =
                           @ + Len(predicted) - Cardinality(hits)]]

\* The second block: the new predictions replace the stream's old ones.
Remember(predictor, stream, predictions) ==
  [pending |-> Put(predictor.pending, stream, predictions),
   quality |-> [predictor.quality EXCEPT !.predictions = @ + Len(predictions)]]

\* One prediction not confident enough to be prefetched.
Suppress(predictor) ==
  [predictor EXCEPT !.quality.suppressedPrefetches = @ + 1]
=============================================================================

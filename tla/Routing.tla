------------------------------ MODULE Routing ------------------------------
(***************************************************************************)
(* Top-k expert selection: src/router, experts/ExpertBatch.cpp.            *)
(*                                                                         *)
(* A router score is an integer or NotFinite; only the order of the scores *)
(* and whether the selected ones add up to zero tell two routings apart.   *)
(* Softmax is strictly increasing and positive, so it changes neither the  *)
(* selection nor its order and rules the zero sum out.  An operator that   *)
(* stands for code that may throw returns Refused where the code throws.   *)
(***************************************************************************)
EXTENDS Naturals, Integers, Sequences, FiniteSets, SequencesExt

NotFinite == -1000
Refused == [layer |-> 0, tokens |-> <<>>, groups |-> <<>>]

ConfigValid(c) == c.expertCount > 0 /\ c.topK \in 1 .. c.expertCount

ExpertIds(c) == 0 .. c.expertCount - 1

\* scores[e + 1] is the score of expert e.  Higher scores first, and the
\* smaller id first among equals.
Before(scores, left, right) ==
  \/ scores[left + 1] > scores[right + 1]
  \/ scores[left + 1] = scores[right + 1] /\ left < right

\* The elements of S in order, each once.
Sorted(S, before(_, _)) ==
  CHOOSE s \in SetToSeqs(S) :
    \A i, j \in 1 .. Cardinality(S) : i < j => before(s[i], s[j])

TopK(scores, c) ==
  SubSeq(Sorted(ExpertIds(c), LAMBDA l, r : Before(scores, l, r)), 1, c.topK)

ScoreSum(scores, selected) ==
  FoldSeq(LAMBDA e, sum : sum + scores[e + 1], 0, selected)

RoutesToken(scores, c) ==
  /\ \A e \in ExpertIds(c) : scores[e + 1] # NotFinite
  /\ c.renormalize /\ ~c.softmax => ScoreSum(scores, TopK(scores, c)) # 0

RouteToken(layer, scores, c) ==
  LET selected == TopK(scores, c)
  IN  [layer |-> layer, selected |-> selected,
       weights |-> [rank \in DOMAIN selected |-> scores[selected[rank] + 1]]]

\* The tokens that selected expert e, in token order, with their weights.
TokensOf(decisions, e) ==
  Sorted({t \in DOMAIN decisions :
            \E rank \in DOMAIN decisions[t].selected :
               decisions[t].selected[rank] = e}, <)

WeightOf(decision, e) ==
  decision.weights[CHOOSE rank \in DOMAIN decision.selected :
                     decision.selected[rank] = e]

\* One group per selected expert, ordered by expert id.
Group(decisions) ==
  LET chosen == UNION {ToSet(decisions[t].selected) : t \in DOMAIN decisions}
      order == Sorted(chosen, <)
  IN  [g \in DOMAIN order |->
         LET members == TokensOf(decisions, order[g])
         IN  [expert |-> order[g], tokens |-> members,
              weights |-> [row \in DOMAIN members |->
                             WeightOf(decisions[members[row]], order[g])]]]

\* CpuRouterBackend::routeBatch over one row of scores per token.
CpuRouteBatch(layer, rows, c) ==
  IF ConfigValid(c) /\ \A t \in DOMAIN rows : RoutesToken(rows[t], c)
    THEN LET decisions == [t \in DOMAIN rows |-> RouteToken(layer, rows[t], c)]
         IN  [layer |-> layer, tokens |-> decisions, groups |-> Group(decisions)]
    ELSE Refused

\* The native kernel's answer: topK ids and scores per token, one after the
\* other.  The kernel itself is not part of the model.
RouteTopK(rows, c) ==
  [n \in 1 .. Len(rows) * c.topK |->
     LET row == rows[((n - 1) \div c.topK) + 1]
         expert == TopK(row, c)[((n - 1) % c.topK) + 1]
     IN  [expert |-> expert, score |-> row[expert + 1]]]

\* makeDecision: cut the flat selection into tokens.
MakeDecision(layer, tokenCount, c, selection) ==
  LET entry(t, rank) == selection[(t - 1) * c.topK + rank]
      decisions ==
        [t \in 1 .. tokenCount |->
           [layer |-> layer,
            selected |-> [rank \in 1 .. c.topK |-> entry(t, rank).expert],
            weights |-> [rank \in 1 .. c.topK |-> entry(t, rank).score]]]
  IN  IF /\ Len(selection) = tokenCount * c.topK
         /\ \A n \in DOMAIN selection : selection[n].expert < c.expertCount
        THEN [layer |-> layer, tokens |-> decisions, groups |-> Group(decisions)]
        ELSE Refused

\* CudaRouterBackend::routeBatch: the native kernel where it is available,
\* else the CPU router on copies of the tensors.
CudaRouteBatch(layer, rows, c, native) ==
  IF native /\ ConfigValid(c)
    THEN IF \A t \in DOMAIN rows : RoutesToken(rows[t], c)
           THEN MakeDecision(layer, Len(rows), c, RouteTopK(rows, c))
           ELSE Refused
    ELSE CpuRouteBatch(layer, rows, c)

DecisionValid(d) == d.selected # <<>> /\ Len(d.selected) = Len(d.weights)

BatchValid(b) ==
  /\ b.tokens # <<>>
  /\ \A t \in DOMAIN b.tokens :
       DecisionValid(b.tokens[t]) /\ b.tokens[t].layer = b.layer
  /\ \A g \in DOMAIN b.groups :
       b.groups[g].tokens # <<>> /\ Len(b.groups[g].tokens) = Len(b.groups[g].weights)

\* ExpertBatch::validate, and executeBatch's count of the assignments.
GroupValid(group, tokenCount) ==
  /\ group.tokens # <<>> /\ Len(group.tokens) = Len(group.weights)
  /\ IsInjective(group.tokens)
  /\ \A row \in DOMAIN group.tokens :
       /\ group.tokens[row] <= tokenCount
       /\ group.weights[row] # NotFinite

Assignments(seqs) == FoldSeq(LAMBDA s, n : n + Len(s), 0, seqs)

Dispatchable(b) ==
  /\ \A g \in DOMAIN b.groups : GroupValid(b.groups[g], Len(b.tokens))
  /\ b.groups # <<>>
  /\ Assignments([g \in DOMAIN b.groups |-> b.groups[g].tokens]) =
       Assignments([t \in DOMAIN b.tokens |-> b.tokens[t].selected])
=============================================================================

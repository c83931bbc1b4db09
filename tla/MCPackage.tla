----------------------------- MODULE MCPackage -----------------------------
(***************************************************************************)
(* Package on checkpoints of one layer, two experts, two inputs, a vocab   *)
(* of three: individual and fused experts, tied and separate heads, with   *)
(* and without query and key norms, in one or two shards, with and without *)
(* an index; and the same checkpoints with one thing wrong.                *)
(***************************************************************************)
EXTENDS Package

Config ==
  [supported |-> TRUE, layers |-> 1, experts |-> 2, hidden |-> 2, inter |-> 1, topK |-> 1,
   vocab |-> 3, tied |-> TRUE, heads |-> 1, kvHeads |-> 0, headDim |-> 2, shared |-> FALSE,
   theta |-> 1234567]

T(name, shape) == [name |-> name, shape |-> shape, dtype |-> "FP16"]

Stem ==
  <<T(Name("attention", 0, 0, "q"), <<2, 2>>), T(Name("attention", 0, 0, "k"), <<2, 2>>),
    T(Name("attention", 0, 0, "v"), <<2, 2>>), T(Name("attention", 0, 0, "o"), <<2, 2>>),
    T(Name("norm", 0, 0, "input"), <<2>>), T(Name("norm", 0, 0, "post"), <<2>>),
    T(Name("router", 0, 0, ""), <<2, 2>>),
    T(Embedding, <<3, 2>>), T(FinalNorm, <<2>>)>>
Norms == <<T(Name("qkNorm", 0, 0, "q"), <<2>>), T(Name("qkNorm", 0, 0, "k"), <<2>>)>>
One(e) == <<T(Name("expert", 0, e, "gate"), <<1, 2>>), T(Name("expert", 0, e, "up"), <<1, 2>>),
            T(Name("expert", 0, e, "down"), <<2, 1>>)>>
Separate == One(0) \o One(1)
GateUp(spelling) == T(Name("fused", 0, spelling, "gate_up"), <<2, 2, 2>>)
Joint == <<GateUp(0), T(Name("fused", 0, 0, "down"), <<2, 2, 1>>)>>
Untied == <<T(LMHead, <<3, 2>>)>>

\* A shard holds its tensors one after the other.
Shard(ts) ==
  LET bytes(t) == RequiredBytes(t.shape, t.dtype)
      start(n) == FoldLeft(LAMBDA sum, t : sum + bytes(t), 0, SubSeq(ts, 1, n - 1)) IN
  [header |-> 2, bytes |-> start(Len(ts) + 1),
   tensors |-> [i \in DOMAIN ts |-> [name |-> ts[i].name, shape |-> ts[i].shape,
                                     dtype |-> ts[i].dtype, start |-> start(i),
                                     end |-> start(i) + bytes(ts[i])]]]

Tokens == [present |-> TRUE, entries |-> 3, maximumId |-> 2, special |-> {0}]
Of(config, shards) ==
  [config |-> config, shards |-> [i \in DOMAIN shards |-> Shard(shards[i])], index |-> <<>>,
   path |-> Directory, tokenizer |-> Tokens]
IndexOf(c) == [name \in {t.name : t \in Range(Tensors(c))} |->
                 (CHOOSE t \in Range(Tensors(c)) : t.name = name).file]

Tied == Of(Config, <<Stem \o Norms \o Separate>>)
Split == Of([Config EXCEPT !.tied = FALSE], <<Stem \o One(0), One(1) \o Untied>>)
FusedOne == Of(Config, <<Stem, Joint>>)
Good ==
  {Tied, [Tied EXCEPT !.path = 1], [Split EXCEPT !.index = IndexOf(Split)], FusedOne,
   [Tied EXCEPT !.config.shared = TRUE]}

Without(ts, n) == RemoveAt(ts, n)
Other(ts, n, dtype) == [ts EXCEPT ![n].dtype = dtype]
Damaged ==
  {[Tied EXCEPT !.config.supported = FALSE], [Tied EXCEPT !.config.headDim = 3],
   [Tied EXCEPT !.config.topK = 3], [Tied EXCEPT !.tokenizer.maximumId = 3],
   [Tied EXCEPT !.tokenizer.present = FALSE],
   [Tied EXCEPT !.shards[1].tensors[2].start = @ - 1, !.shards[1].tensors[2].end = @ - 1],
   [Split EXCEPT !.path = 1],
   [Split EXCEPT !.index = [IndexOf(Split) EXCEPT ![Embedding] = 2]],
   Of(Config, <<Stem, Separate, One(1)>>)}
  \cup {Of(Config, <<Without(Stem \o Separate, n)>>) : n \in {1, 5, 7, 8, 12}}
  \cup {Of(Config, <<Other(Stem \o Separate, n, d)>>) : n \in {3, 10}, d \in {"FP32", "INT8"}}
  \cup {Of(Config, <<Stem, ts>>) :
          ts \in {Joint \o Separate, Joint \o <<GateUp(1)>>, Without(Joint, 2),
                  Other(Joint, 2, "BF16")}}

MCCheckpoints == Good \cup Damaged
=============================================================================

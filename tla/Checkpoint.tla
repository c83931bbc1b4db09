----------------------------- MODULE Checkpoint -----------------------------
(***************************************************************************)
(* Importing a Qwen MoE checkpoint: the tensors of its SafeTensors shards, *)
(* the manifest QwenImporter builds from their names, and the checks of    *)
(* CheckpointValidator and QwenCheckpointLoader.                           *)
(*                                                                         *)
(* A checkpoint is its config.json, its shards, the shard index if it has  *)
(* one, its tokenizer and the path it is opened by.  A zero in the config  *)
(* stands for a field the JSON may leave out.  The bytes of a tensor are   *)
(* told apart by the tensor they belong to and their place in it.          *)
(***************************************************************************)
EXTENDS ModelManifest

Directory == 0     \* the path is the directory; a positive one is a shard

\* What config.json, the headers of the shards and the tensor names hold.
TensorName == [kind : STRING, layer : Nat, expert : Nat, role : STRING]
ShardTensor == [name : TensorName, shape : Seq(Nat), dtype : STRING, start : Nat, end : Nat]

IsCheckpoint(ck) ==
  /\ DOMAIN ck = {"config", "shards", "index", "path", "tokenizer"}
  /\ \A f \in {"layers", "experts", "hidden", "inter", "topK", "vocab", "heads", "kvHeads",
               "headDim", "theta"} : ck.config[f] \in Nat
  /\ ck.config.tied \in BOOLEAN /\ ck.config.shared \in BOOLEAN
  /\ ck.shards \in Seq([header : Nat, bytes : Nat, tensors : Seq(ShardTensor)])

\* The numbers of S in ascending order.
Ascending(S) ==
  CHOOSE s \in SetToSeqs(S) : \A i, j \in 1..Cardinality(S) : i < j => s[i] < s[j]

-----------------------------------------------------------------------------
(* SafeTensors::inspectFile and SafeTensorShardManager.                    *)

Inspects(shard) ==
  /\ \A t \in Range(shard.tensors) :
       /\ t.shape # <<>> /\ 0 \notin Range(t.shape)
       /\ t.start < t.end /\ t.end <= shard.bytes
       /\ t.dtype \in DType
       /\ RequiredBytes(t.shape, t.dtype) = t.end - t.start
  /\ \A i, j \in DOMAIN shard.tensors :
       i # j => \/ shard.tensors[i].end <= shard.tensors[j].start
                \/ shard.tensors[j].end <= shard.tensors[i].start

\* The tensors of shard number s, at their place in the file.
ShardTensors(ck, s) ==
  [i \in DOMAIN ck.shards[s].tensors |->
    LET t == ck.shards[s].tensors[i] IN
    [name |-> t.name, file |-> s, offset |-> ck.shards[s].header + t.start,
     size |-> t.end - t.start, dtype |-> t.dtype, shape |-> t.shape,
     quantization |-> NotQuantized]]

Indexed(ck) == ck.path = Directory /\ DOMAIN ck.index # {}

Files(ck) ==
  IF ck.path # Directory THEN {ck.path}
  ELSE IF Indexed(ck) THEN Range(ck.index) ELSE DOMAIN ck.shards

Tensors(ck) ==
  LET files == Ascending(Files(ck))
  IN FlattenSeq([i \in DOMAIN files |-> ShardTensors(ck, files[i])])

FoundIn(ck, name, s) == \E t \in Range(Tensors(ck)) : t.name = name /\ t.file = s

Opens(ck) ==
  /\ Files(ck) # {} /\ Files(ck) \subseteq DOMAIN ck.shards
  /\ \A s \in Files(ck) : Inspects(ck.shards[s])
  /\ LET ts == Tensors(ck) IN \A i, j \in DOMAIN ts : ts[i].name = ts[j].name => i = j
  /\ Indexed(ck) =>
       /\ Cardinality(DOMAIN ck.index) = Len(Tensors(ck))
       /\ \A name \in DOMAIN ck.index : FoundIn(ck, name, ck.index[name])

Parameters(ts) ==
  LET upTo[n \in 0..Len(ts)] == IF n = 0 THEN 0 ELSE upTo[n - 1] + ElementCount(ts[n].shape)
  IN upTo[Len(ts)]

-----------------------------------------------------------------------------
(* QwenImporter::inspect: config.json.                                     *)

OrDefault(v, default) == IF v = 0 THEN default ELSE v

Architecture(c) ==
  LET heads == OrDefault(c.heads, 1)
      headDim == OrDefault(c.headDim, c.hidden \div heads) IN
  [layers |-> c.layers, hidden |-> c.hidden, experts |-> c.experts, topK |-> c.topK,
   heads |-> heads, kvHeads |-> OrDefault(c.kvHeads, heads),
   headDim |-> headDim, projDim |-> headDim,
   vocab |-> c.vocab, tied |-> c.tied, theta |-> OrDefault(c.theta, 10000)]

ConfigImports(c) ==
  /\ c.supported
  /\ c.layers # 0 /\ c.experts # 0 /\ c.hidden # 0 /\ c.inter # 0 /\ c.topK # 0
  /\ c.topK <= c.experts
  /\ c.headDim = 0 => c.hidden % OrDefault(c.heads, 1) = 0
  /\ ValidArchitecture(Architecture(c))

-----------------------------------------------------------------------------
(* QwenImporter::inspect: what the tensor names say.  The two spellings of *)
(* a fused name differ in the name's expert field.                         *)

ModelTensor == {"embedding", "finalNorm", "head"}
LayerTensor == {"expert", "fused", "router", "attention", "qkNorm", "norm"}
Relevant(t) == t.name.kind \in ModelTensor \cup LayerTensor
RelevantTensors(ts) ==
  FlattenSeq([i \in DOMAIN ts |-> IF Relevant(ts[i]) THEN <<ts[i]>> ELSE <<>>])

Fused(ts, layer, role) ==
  {t \in Range(ts) : t.name.kind = "fused" /\ t.name.layer = layer /\ t.name.role = role}
Individual(ts, layer, expert, role) ==
  {t \in Range(ts) : t.name = Name("expert", layer, expert, role)}

FusedShape(c, role) ==
  IF role = "gate_up" THEN <<c.experts, 2 * c.inter, c.hidden>>
                      ELSE <<c.experts, c.hidden, c.inter>>

NameImports(c, t) ==
  t.name.kind \in LayerTensor =>
    /\ t.name.layer < c.layers
    /\ t.name.kind = "router" => t.shape = <<c.experts, c.hidden>>
    /\ t.name.kind = "qkNorm" => c.headDim # 0 /\ t.shape = <<c.headDim>>
    /\ t.name.kind = "expert" =>
         /\ t.name.expert < c.experts
         /\ t.shape = Reverse(ExpertShape(c, t.name.role))

-----------------------------------------------------------------------------
(* QwenImporter::inspect: experts.                                         *)

IndividualLayers(ts) == {t.name.layer : t \in {u \in Range(ts) : u.name.kind = "expert"}}
FusedLayers(ts) == {t.name.layer : t \in {u \in Range(ts) : u.name.kind = "fused"}}
MoELayers(ts) == IndividualLayers(ts) \cup FusedLayers(ts)

FusedImports(c, ts, layer) ==
  /\ \A r \in {"gate_up", "down"} : Cardinality(Fused(ts, layer, r)) = 1
  /\ layer \notin IndividualLayers(ts)
  /\ \A r \in {"gate_up", "down"} : \A t \in Fused(ts, layer, r) : t.shape = FusedShape(c, r)
  /\ \A g \in Fused(ts, layer, "gate_up"), d \in Fused(ts, layer, "down") : g.dtype = d.dtype

ExpertsImport(c, ts) ==
  /\ MoELayers(ts) # {}
  /\ \A l \in IndividualLayers(ts) : \A e \in 0..(c.experts - 1), r \in Role :
       Individual(ts, l, e, r) # {}
  /\ \A l \in FusedLayers(ts) : FusedImports(c, ts, l)
  /\ \A l \in MoELayers(ts) : \E t \in Range(ts) : t.name = Name("router", l, 0, "")

Location(t, at, size, shape) ==
  [tensor |-> t.name, offset |-> t.offset + at, size |-> size, shape |-> shape,
   layout |-> "OUTPUT_INPUT"]

\* The slice of a fused tensor that is one projection of one expert.
FusedSlice(c, t, expert, role) ==
  LET bytes == RequiredBytes(<<c.hidden, c.inter>>, t.dtype)
      at == CASE role = "gate" -> expert * 2 * bytes
              [] role = "up" -> expert * 2 * bytes + bytes
              [] role = "down" -> expert * bytes
  IN Location(t, at, bytes, Reverse(ExpertShape(c, role)))

Projection(c, ts, layer, expert, role) ==
  IF layer \in FusedLayers(ts)
  THEN LET t == CHOOSE u \in Fused(ts, layer, IF role = "down" THEN "down" ELSE "gate_up") : TRUE
       IN FusedSlice(c, t, expert, role)
  ELSE LET t == CHOOSE u \in Individual(ts, layer, expert, role) : TRUE
       IN Location(t, 0, t.size, t.shape)

ExpertMappings(c, ts) ==
  LET layers == Ascending(MoELayers(ts)) IN
  [n \in 1..(Len(layers) * c.experts) |->
    LET l == layers[((n - 1) \div c.experts) + 1]
        e == (n - 1) % c.experts
    IN [layer |-> l, expert |-> e, at |-> [r \in Role |-> Projection(c, ts, l, e, r)]]]

-----------------------------------------------------------------------------
(* QwenImporter::inspect: transformer layers and the model's ends.         *)

Named(ts, name) == IF \E t \in Range(ts) : t.name = name THEN name ELSE NoName

LayerMapping(ts, l) ==
  [layer |-> l,
   at |-> [p \in Attention |-> [tensor |-> Named(ts, Name("attention", l, 0, p)),
                                layout |-> "OUTPUT_INPUT"]],
   qNorm |-> Named(ts, Name("qkNorm", l, 0, "q")), kNorm |-> Named(ts, Name("qkNorm", l, 0, "k")),
   inputNorm |-> Named(ts, Name("norm", l, 0, "input")),
   postNorm |-> Named(ts, Name("norm", l, 0, "post")),
   router |-> Named(ts, Name("router", l, 0, ""))]

HasTransformer(ts) == \E t \in Range(ts) : t.name.kind \in {"attention", "norm"}

LayersImport(c, ts) ==
  HasTransformer(ts) =>
    \A l \in 0..(c.layers - 1) :
      LET m == LayerMapping(ts, l) IN
      /\ \A p \in Attention : m.at[p].tensor # NoName
      /\ NoName \notin {m.inputNorm, m.postNorm, m.router}

Embedding == Name("embedding", 0, 0, "")
FinalNorm == Name("finalNorm", 0, 0, "")
LMHead == Name("head", 0, 0, "")

HasModelIO(ts) == \E t \in Range(ts) : t.name.kind \in ModelTensor
HasTensor(ts, name, shape) == \E t \in Range(ts) : t.name = name /\ t.shape = shape

ModelIOImports(c, ts) ==
  HasModelIO(ts) =>
    /\ c.vocab # 0
    /\ HasTensor(ts, Embedding, <<c.vocab, c.hidden>>)
    /\ HasTensor(ts, FinalNorm, <<c.hidden>>)
    /\ (Named(ts, LMHead) # NoName \/ ~c.tied) => HasTensor(ts, LMHead, <<c.vocab, c.hidden>>)

ModelIO(c, ts) ==
  IF ~HasModelIO(ts) THEN NoIO
  ELSE [embedding |-> Embedding, norm |-> FinalNorm,
        head |-> [tensor |-> IF c.tied THEN Embedding ELSE LMHead, layout |-> "OUTPUT_INPUT"],
        tied |-> c.tied]

Imported(ck) ==
  LET c == ck.config
      ts == Tensors(ck)
      layers == MoELayers(ts)
                  \cup {t.name.layer : t \in {u \in Range(ts) : u.name.kind = "router"}}
      routed == Ascending({l \in layers : Named(ts, Name("router", l, 0, "")) # NoName}) IN
  [config |-> [layers |-> c.layers, experts |-> c.experts, hidden |-> c.hidden,
               inter |-> c.inter, shared |-> c.shared,
               quantized |-> \E t \in Range(ts) : t.dtype = "INT8"],
   arch |-> Architecture(c),
   parameters |-> Parameters(ts),
   router |-> [topK |-> c.topK, experts |-> c.experts, layout |-> "OUTPUT_INPUT",
               tensors |-> [i \in DOMAIN routed |->
                             [layer |-> routed[i], name |-> Name("router", routed[i], 0, "")]]],
   tensors |-> RelevantTensors(ts),
   experts |-> ExpertMappings(c, ts),
   layers |-> IF HasTransformer(ts)
              THEN [l \in 1..c.layers |-> LayerMapping(ts, l - 1)] ELSE <<>>,
   io |-> ModelIO(c, ts)]

\* QwenImporter::inspect returns.
Imports(ck) ==
  /\ ConfigImports(ck.config)
  /\ Opens(ck)
  /\ LET c == ck.config
         ts == Tensors(ck) IN
     /\ \A t \in Range(ts) : NameImports(c, t)
     /\ ExpertsImport(c, ts) /\ LayersImport(c, ts) /\ ModelIOImports(c, ts)
  /\ Validate(Imported(ck))

-----------------------------------------------------------------------------
(* CheckpointValidator::validate and QwenCheckpointLoader::load.           *)

MatchesSource(ck, m) ==
  /\ Validate(m) /\ Opens(ck)
  /\ m.parameters # 0 => m.parameters = Parameters(Tensors(ck))
  /\ \A t \in Range(m.tensors) : t \in Range(Tensors(ck))

TokenizerLoads(ck) ==
  /\ ck.tokenizer.present
  /\ ck.tokenizer.entries \in 1..ck.config.vocab
  /\ ck.tokenizer.maximumId < ck.config.vocab
  /\ \A id \in ck.tokenizer.special : id < ck.config.vocab

LoaderLoads(ck) ==
  /\ Imports(ck)
  /\ LET m == Imported(ck) IN
     /\ m.arch.vocab # 0 /\ m.io # NoIO /\ Len(m.layers) = m.arch.layers
     /\ MatchesSource(ck, m)
  /\ TokenizerLoads(ck)

\* The path the packer is given: the checkpoint's directory.
Root(ck) == [ck EXCEPT !.path = Directory]

-----------------------------------------------------------------------------
(* The bytes of the shards, and what WeightConverter makes of them.        *)

Cell(name, at) == [of |-> name, at |-> at]
Zero == Cell(NoName, 0)

ByteAt(ck, file, position) ==
  LET ts == ShardTensors(ck, file)
      i == CHOOSE i \in DOMAIN ts : position \in ts[i].offset..(ts[i].offset + ts[i].size - 1)
  IN Cell(ts[i].name, position - ts[i].offset)

ReadRange(ck, file, location) ==
  [n \in 1..location.size |-> ByteAt(ck, file, location.offset + n - 1)]

\* A mutant of Transpose that walks the source in the target's order.
TransposeByColumn(bytes, shape, width) ==
  [n \in 1..Len(bytes) |->
    LET rows == shape[1]
        element == (n - 1) \div width
        column == element % shape[2]
        row == element \div shape[2]
    IN bytes[(column * rows + row) * width + ((n - 1) % width) + 1]]

\* Where byte n of the transposed matrix comes from.
Transpose(bytes, shape, width) ==
  [n \in 1..Len(bytes) |->
    LET rows == shape[1]
        columns == shape[2]
        element == (n - 1) \div width
        row == element % rows
        column == element \div rows
    IN bytes[(row * columns + column) * width + ((n - 1) % width) + 1]]

ToInputOutput(bytes, shape, dtype, layout) ==
  IF layout = "INPUT_OUTPUT"
  THEN [bytes |-> bytes, shape |-> shape, dtype |-> dtype]
  ELSE [bytes |-> Transpose(bytes, shape, SizeOf(dtype)), shape |-> Reverse(shape),
        dtype |-> dtype]

\* quantizeInt8: one byte for each element, which now stands for the element.
Quantize(weight) ==
  LET width == SizeOf(weight.dtype) IN
  [bytes |-> [n \in 1..(Len(weight.bytes) \div width) |->
               LET first == weight.bytes[(n - 1) * width + 1]
               IN Cell(first.of, -1 - (first.at \div width))],
   shape |-> weight.shape, dtype |-> "INT8"]
=============================================================================

--------------------------- MODULE ModelManifest ---------------------------
(***************************************************************************)
(* The manifest of a model artifact: which tensors it has, where their     *)
(* bytes are, which of them make up each expert, router, transformer layer *)
(* and the model's input and output, what ModelManifest::validate accepts, *)
(* and how the manifest survives being written as JSON and read back.      *)
(*                                                                         *)
(* A tensor name is a record that says what the name's pattern encodes.    *)
(* Sizes are natural numbers: the code tests every sum and product against *)
(* the 64-bit limit before it uses it.                                     *)
(***************************************************************************)
EXTENDS Integers, Sequences, FiniteSets, SequencesExt

DType == {"FP32", "FP16", "BF16", "INT8"}
SizeOf(dtype) == CASE dtype = "FP32" -> 4
                   [] dtype = "INT8" -> 1
                   [] OTHER -> 2

ElementCount(shape) == FoldLeft(LAMBDA a, b : a * b, 1, shape)
RequiredBytes(shape, dtype) == ElementCount(shape) * SizeOf(dtype)

Role == {"gate", "up", "down"}
Attention == {"q", "k", "v", "o"}

Name(kind, layer, expert, role) ==
  [kind |-> kind, layer |-> layer, expert |-> expert, role |-> role]
NoName == Name("", 0, 0, "")

\* A matrix that maps inputs to outputs is stored with either axis first.
InLayout(inputOutputShape, layout) ==
  IF layout = "INPUT_OUTPUT" THEN inputOutputShape ELSE Reverse(inputOutputShape)

ExpertShape(config, role) ==
  IF role = "down" THEN <<config.inter, config.hidden>> ELSE <<config.hidden, config.inter>>

Quantized == "PER_TENSOR_AFFINE_INT8"
NotQuantized == "none"
NoIO == [embedding |-> NoName, norm |-> NoName,
         head |-> [tensor |-> NoName, layout |-> "OUTPUT_INPUT"], tied |-> FALSE]

Has(m, name) == \E t \in Range(m.tensors) : t.name = name
TensorOf(m, name) == m.tensors[CHOOSE i \in DOMAIN m.tensors : m.tensors[i].name = name]
HasShape(m, name, shape) == Has(m, name) /\ TensorOf(m, name).shape = shape
ExpertOf(m, layer, expert) ==
  m.experts[CHOOSE i \in DOMAIN m.experts :
              m.experts[i].layer = layer /\ m.experts[i].expert = expert]

-----------------------------------------------------------------------------
(* ModelManifest::validate, part by part.                                  *)

ValidArchitecture(a) ==
  /\ a.layers # 0 /\ a.hidden # 0 /\ a.experts # 0
  /\ a.heads # 0 /\ a.kvHeads # 0 /\ a.heads % a.kvHeads = 0
  /\ a.headDim # 0 /\ a.headDim % 2 = 0
  /\ a.topK \in 1..a.experts
  /\ a.theta > 0

ValidDimensions(m) ==
  /\ m.config.layers # 0 /\ m.config.experts # 0
  /\ m.config.hidden # 0 /\ m.config.inter # 0
  /\ m.router.topK \in 1..m.router.experts
  /\ m.router.experts = m.config.experts
  /\ ValidArchitecture(m.arch)
  /\ m.arch.layers = m.config.layers /\ m.arch.hidden = m.config.hidden
  /\ m.arch.experts = m.config.experts /\ m.arch.topK = m.router.topK

ValidTensors(m) ==
  /\ m.tensors # <<>> /\ m.experts # <<>> /\ m.router.tensors # <<>>
  /\ \A i, j \in DOMAIN m.tensors : m.tensors[i].name = m.tensors[j].name => i = j
  /\ \A t \in Range(m.tensors) :
       /\ t.name # NoName /\ t.size # 0
       /\ RequiredBytes(t.shape, t.dtype) = t.size
       /\ (t.dtype = "INT8") = (t.quantization = Quantized)

RouterLayers(m) == {r.layer : r \in Range(m.router.tensors)}

ValidRouter(m) ==
  /\ \A i, j \in DOMAIN m.router.tensors :
       m.router.tensors[i].layer = m.router.tensors[j].layer => i = j
  /\ \A r \in Range(m.router.tensors) :
       /\ r.layer < m.config.layers
       /\ HasShape(m, r.name, InLayout(<<m.config.hidden, m.config.experts>>, m.router.layout))

ValidProjection(m, p, role) ==
  /\ Has(m, p.tensor)
  /\ LET source == TensorOf(m, p.tensor) IN
     /\ p.size # 0 /\ p.offset >= source.offset
     /\ p.offset + p.size <= source.offset + source.size
     /\ RequiredBytes(p.shape, source.dtype) = p.size
     /\ p.shape = InLayout(ExpertShape(m.config, role), p.layout)

DTypeOf(m, p) == TensorOf(m, p.tensor).dtype

ValidExperts(m) ==
  LET at(layer) == {e \in Range(m.experts) : e.layer = layer}
      layers == {e.layer : e \in Range(m.experts)} IN
  /\ \A i, j \in DOMAIN m.experts :
       (m.experts[i].layer = m.experts[j].layer /\ m.experts[i].expert = m.experts[j].expert)
         => i = j
  /\ \A e \in Range(m.experts) :
       /\ e.layer < m.config.layers /\ e.expert < m.config.experts
       /\ \A r \in Role : ValidProjection(m, e.at[r], r)
       /\ \A r \in Role : DTypeOf(m, e.at[r]) = DTypeOf(m, e.at["gate"])
  /\ \A l \in layers : Cardinality(at(l)) = m.config.experts
  /\ layers = RouterLayers(m)
  /\ m.config.quantized = \E e \in Range(m.experts) : DTypeOf(m, e.at["gate"]) = "INT8"

AttentionShape(a, p) ==
  CASE p = "q" -> <<a.hidden, a.heads * a.projDim>>
    [] p = "o" -> <<a.heads * a.projDim, a.hidden>>
    [] OTHER -> <<a.hidden, a.kvHeads * a.projDim>>

ValidLayers(m) ==
  m.layers # <<>> =>
    /\ Len(m.layers) = m.arch.layers
    /\ \A i, j \in DOMAIN m.layers : m.layers[i].layer = m.layers[j].layer => i = j
    /\ \A l \in Range(m.layers) :
         /\ l.layer < m.arch.layers
         /\ \A p \in Attention :
              HasShape(m, l.at[p].tensor, InLayout(AttentionShape(m.arch, p), l.at[p].layout))
         /\ (l.qNorm = NoName) = (l.kNorm = NoName)
         /\ l.qNorm # NoName => /\ HasShape(m, l.qNorm, <<m.arch.projDim>>)
                                /\ HasShape(m, l.kNorm, <<m.arch.projDim>>)
         /\ HasShape(m, l.inputNorm, <<m.arch.hidden>>)
         /\ HasShape(m, l.postNorm, <<m.arch.hidden>>)
         /\ [layer |-> l.layer, name |-> l.router] \in Range(m.router.tensors)

ValidModelIO(m) ==
  m.io # NoIO =>
    /\ m.arch.vocab # 0 /\ m.io.tied = m.arch.tied
    /\ HasShape(m, m.io.embedding, <<m.arch.vocab, m.arch.hidden>>)
    /\ HasShape(m, m.io.norm, <<m.arch.hidden>>)
    /\ HasShape(m, m.io.head.tensor,
                InLayout(<<m.arch.hidden, m.arch.vocab>>, m.io.head.layout))
    /\ m.io.tied => m.io.embedding = m.io.head.tensor /\ m.io.head.layout = "OUTPUT_INPUT"

Validate(m) ==
  /\ ValidDimensions(m) /\ ValidTensors(m) /\ ValidRouter(m)
  /\ ValidExperts(m) /\ ValidLayers(m) /\ ValidModelIO(m)

-----------------------------------------------------------------------------
(* ModelManifest::toJson and load.  Most of the runtime architecture is    *)
(* written as JSON strings, which the readers of JsonValue accept, and     *)
(* ropeTheta with the six digits a stream prints by default.  The          *)
(* dimensions it shares with the model are not written: load takes them    *)
(* from there.                                                             *)

JsonString(v) == [json |-> "string", value |-> v]
JsonNumber(v) == [json |-> "number", value |-> v]

\* n to six significant digits: the smallest power of ten that leaves as many is
\* the unit.
PowersOfTen == {1, 10, 100, 1000, 10000, 100000, 1000000, 10000000, 100000000, 1000000000}

SixDigits(n) ==
  LET unit == {u \in PowersOfTen : n \div 1000000 < u \/ u = 1000000000}
      u == CHOOSE v \in unit : \A w \in unit : v <= w
  IN ((n + u \div 2) \div u) * u

ArchitectureJson(a) ==
  [heads |-> JsonNumber(a.heads), kvHeads |-> JsonString(a.kvHeads),
   headDim |-> JsonString(a.headDim), projDim |-> JsonString(a.projDim),
   vocab |-> JsonString(a.vocab), tied |-> JsonString(a.tied),
   theta |-> JsonString(SixDigits(a.theta))]

ToJson(m) == [m EXCEPT !.arch = ArchitectureJson(m.arch)]

\* A mutant of IsBool for a reader that takes JSON booleans only.
IsStrictBool(j) == j.json = "bool"

IsBool(j) == j.json \in {"bool", "string"} /\ j.value \in BOOLEAN
IsNumber(j) == j.json \in {"number", "string"}

Readable(doc) ==
  /\ IsBool(doc.arch.tied)
  /\ \A f \in {"heads", "kvHeads", "headDim", "projDim", "vocab", "theta"} : IsNumber(doc.arch[f])

FromJson(doc) ==
  LET v(f) == doc.arch[f].value IN
  [doc EXCEPT !.arch =
    [layers |-> doc.config.layers, hidden |-> doc.config.hidden,
     experts |-> doc.config.experts, topK |-> doc.router.topK,
     heads |-> v("heads"), kvHeads |-> v("kvHeads"), headDim |-> v("headDim"),
     projDim |-> v("projDim"), vocab |-> v("vocab"), tied |-> v("tied"),
     theta |-> v("theta")]]

Loads(doc) == Readable(doc) /\ Validate(FromJson(doc))
=============================================================================

------------------------------ MODULE Package ------------------------------
(***************************************************************************)
(* Packing a checkpoint into an artifact directory, and opening it.        *)
(*                                                                         *)
(* A converter (hypermoe_model_convert, or RealCheckpointConverter) writes *)
(* experts.bin, experts.index, manifest.json and its reports one after the *)
(* other into the final directory, verifies the expert store it has        *)
(* written, and removes the directory if anything throws.  It may be       *)
(* killed at any point.  Meanwhile a PackedModelRuntime may open the       *)
(* directory: it reads the manifest, then the static tensors, then opens   *)
(* the expert store, and later loads experts from its mapping.             *)
(***************************************************************************)
EXTENDS Checkpoint

CONSTANTS
  Checkpoints,       \* the checkpoints a conversion may be given
  Tools,             \* of "convert", "real"
  Encodings,         \* of "PRESERVE", "INT8"
  Alignment,         \* where an expert may start in experts.bin
  ExecutionBudget,   \* bytes an expert may have to be executed
  Attempts           \* conversions that are started

ASSUME PackageAssumption ==
  /\ Tools \subseteq {"convert", "real"}
  /\ Encodings \subseteq {"PRESERVE", "INT8"}
  /\ Alignment \in Nat \ {0} /\ ExecutionBudget \in Nat /\ Attempts \in Nat \ {0}

ASSUME CheckpointAssumption == \A c \in Checkpoints : IsCheckpoint(c)

VARIABLES
  ck, tool, encoding,   \* what is converted, by what, into what
  conv,                 \* the converter
  dir,                  \* the output directory
  rt                    \* the runtime that opens it

given == <<ck, tool, encoding>>
vars == <<given, conv, dir, rt>>

-----------------------------------------------------------------------------
(* Files.  A file is absent, being written, whole, or cut short; what a    *)
(* stream still buffers when the process ends is lost.                     *)

FileState == {"absent", "open", "whole", "cut"}
NoFile == [state |-> "absent", data |-> <<>>]
Cut == [state |-> "cut", data |-> <<>>]
Whole(data) == [state |-> "whole", data |-> data]
\* by: the attempt that made the directory (0: someone else), kept for the properties.
NoDirectory == [exists |-> FALSE, by |-> 0, bin |-> NoFile, index |-> NoFile, manifest |-> NoFile]
Foreign == [NoDirectory EXCEPT !.exists = TRUE]
Contents == {"bin", "index", "manifest"}

\* How much of the data may be on disk.
OnDisk(data) == {SubSeq(data, 1, n) : n \in {0, Len(data) \div 2, Len(data)}}

Pc == {"start", "directory", "experts", "routers", "layers", "io", "close",
       "index", "manifest", "verify", "report", "tokenizer", "done", "failed", "crashed"}
Packing == {"experts", "routers", "layers", "io", "close", "index", "manifest", "verify",
            "report", "tokenizer"}

\* The manifest of the checkpoint, which the packer is handed.
Source == conv.source

\* What the packer is called with, and the manifest it begins with.
Job == [manifest |-> Source, from |-> ck, encoding |-> encoding]

NothingPacked(job) ==
  [job.manifest EXCEPT !.tensors = <<>>, !.experts = <<>>, !.router.tensors = <<>>,
                       !.layers = <<>>, !.io = NoIO, !.router.layout = "INPUT_OUTPUT",
                       !.config.quantized = job.encoding = "INT8"]

NoPack == [records |-> <<>>, projections |-> <<>>, manifest |-> <<>>]
Idle(attempt) == [pc |-> "start", attempt |-> attempt, source |-> <<>>, pack |-> NoPack]
Closed == [pc |-> "closed", manifest |-> <<>>, static |-> <<>>, bin |-> <<>>, index |-> <<>>,
           loaded |-> <<>>]

Init ==
  /\ ck \in Checkpoints /\ tool \in Tools /\ encoding \in Encodings
  /\ tool = "convert" => encoding = "PRESERVE"
  /\ conv = Idle(1)
  /\ dir \in {NoDirectory, Foreign}
  /\ rt = Closed

-----------------------------------------------------------------------------
(* ExpertPacker::pack: up to the directory.                                *)

Step(from, to) == conv.pc = from /\ conv' = [conv EXCEPT !.pc = to]
Fails == conv' = [conv EXCEPT !.pc = "failed"]

Import ==
  /\ conv.pc = "start"
  /\ IF IF tool = "real" THEN LoaderLoads(ck) ELSE Imports(ck)
     THEN conv' = [conv EXCEPT !.pc = "directory", !.source = Imported(ck)]
     ELSE Fails
  /\ UNCHANGED <<given, dir, rt>>

\* (A guard that ranges over whole files is compared with TRUE so that TLC evaluates
\* it as one value.)

\* A mutant of MakeDirectory that writes into a directory it finds.
MakeDirectoryAnyway ==
  /\ conv.pc = "directory"
  /\ MatchesSource(Root(ck), Source) = TRUE
  /\ dir' = [dir EXCEPT !.exists = TRUE, !.by = conv.attempt,
                        !.bin = [state |-> "open", data |-> <<>>]]
  /\ conv' = [conv EXCEPT !.pc = "experts", !.pack.manifest = NothingPacked(Job)]
  /\ UNCHANGED <<given, rt>>

MakeDirectory ==
  /\ conv.pc = "directory"
  /\ MatchesSource(Root(ck), Source) = TRUE
  /\ ~dir.exists
  /\ dir' = [dir EXCEPT !.exists = TRUE, !.by = conv.attempt,
                        !.bin = [state |-> "open", data |-> <<>>]]
  /\ conv' = [conv EXCEPT !.pc = "experts", !.pack.manifest = NothingPacked(Job)]
  /\ UNCHANGED <<given, rt>>

\* The prologue throws before the converter owns a directory to remove.
Refuse ==
  /\ conv.pc = "directory"
  /\ ~MatchesSource(Root(ck), Source) \/ dir.exists
  /\ Fails
  /\ UNCHANGED <<given, dir, rt>>

-----------------------------------------------------------------------------
(* ExpertPacker::pack: experts.bin.  The cursor is the length written.     *)

AlignUp(n) == ((n + Alignment - 1) \div Alignment) * Alignment
Padding(n) == [i \in 1..(AlignUp(n) - n) |-> Zero]

\* What is packed so far: the bytes of experts.bin and what was noted of them.
SoFar == [bin |-> dir.bin.data, pack |-> conv.pack]

Becomes(packed, pc) ==
  /\ dir' = [dir EXCEPT !.bin.data = packed.bin]
  /\ conv' = [conv EXCEPT !.pc = pc, !.pack = packed.pack]
  /\ UNCHANGED <<given, rt>>

\* A tensor of the packed manifest: the weight's bytes at an offset of the file.
PackedTensor(name, offset, weight) ==
  [name |-> name, file |-> "experts.bin", offset |-> offset, size |-> Len(weight.bytes),
   dtype |-> weight.dtype, shape |-> weight.shape,
   quantization |-> IF weight.dtype = "INT8" THEN Quantized ELSE NotQuantized]

Converted(job, location) ==
  LET t == TensorOf(job.manifest, location.tensor)
  IN ToInputOutput(ReadRange(job.from, t.file, location), location.shape, t.dtype, location.layout)

Encoded(job, location) ==
  IF job.encoding = "INT8" THEN Quantize(Converted(job, location)) ELSE Converted(job, location)

\* The three projections of an expert, one after the other from start.
PackedProjections(job, expert, start) ==
  LET weight == [r \in Role |-> Encoded(job, expert.at[r])]
      upAt == start + Len(weight["gate"].bytes)
      downAt == upAt + Len(weight["up"].bytes) IN
  [r \in Role |->
    PackedTensor(Name("expert", expert.layer, expert.expert, r),
                 CASE r = "gate" -> start [] r = "up" -> upAt [] r = "down" -> downAt,
                 weight[r])]

PackedLocation(t) ==
  [tensor |-> t.name, offset |-> t.offset, size |-> t.size, shape |-> t.shape,
   layout |-> "INPUT_OUTPUT"]

ExpertBytes(job, expert) ==
  Encoded(job, expert.at["gate"]).bytes \o Encoded(job, expert.at["up"]).bytes
    \o Encoded(job, expert.at["down"]).bytes

\* What the index and the manifest say of an expert whose projections are packed.
ExpertRecord(job, expert, start, at) ==
  [layer |-> expert.layer, expert |-> expert.expert, offset |-> start,
   size |-> Len(ExpertBytes(job, expert)), dtype |-> at["gate"].dtype,
   checksum |-> ExpertBytes(job, expert)]

ProjectionRecord(job, expert, role, t) ==
  [layer |-> expert.layer, expert |-> expert.expert, role |-> role, dtype |-> t.dtype,
   offset |-> t.offset, size |-> t.size, shape |-> t.shape,
   checksum |-> Encoded(job, expert.at[role]).bytes]

ExpertMapping(expert, at) ==
  [layer |-> expert.layer, expert |-> expert.expert,
   at |-> [r \in Role |-> PackedLocation(at[r])]]

\* One more expert, at the next aligned offset.
WithExpert(job, packed) ==
  LET expert == job.manifest.experts[Len(packed.pack.records) + 1]
      start == AlignUp(Len(packed.bin))
      at == PackedProjections(job, expert, start)
      manifest == packed.pack.manifest IN
  [bin |-> packed.bin \o Padding(Len(packed.bin)) \o ExpertBytes(job, expert),
   pack |-> [records |-> Append(packed.pack.records, ExpertRecord(job, expert, start, at)),
             projections |-> packed.pack.projections
               \o <<ProjectionRecord(job, expert, "gate", at["gate"]),
                    ProjectionRecord(job, expert, "up", at["up"]),
                    ProjectionRecord(job, expert, "down", at["down"])>>,
             manifest |-> [manifest EXCEPT
               !.tensors = @ \o <<at["gate"], at["up"], at["down"]>>,
               !.experts = Append(@, ExpertMapping(expert, at))]]]

PackExpert ==
  /\ conv.pc = "experts"
  /\ Becomes(WithExpert(Job, SoFar),
             IF Len(conv.pack.records) + 1 = Len(Source.experts) THEN "routers" ELSE "experts")

\* Static tensors follow the experts without padding, in the order given.
WholeTensor(job, name, layout) ==
  LET t == TensorOf(job.manifest, name)
  IN [tensor |-> name, offset |-> t.offset, size |-> t.size, shape |-> t.shape, layout |-> layout]

Weight(job, name, layout) ==
  LET t == TensorOf(job.manifest, name) IN
  IF Len(t.shape) = 1
  THEN [bytes |-> ReadRange(job.from, t.file, WholeTensor(job, name, layout)), shape |-> t.shape,
        dtype |-> t.dtype]
  ELSE Converted(job, WholeTensor(job, name, layout))

\* items: a sequence of [name, layout]; the file and the packed tensors after them.
WithStatic(job, bin, tensors, items) ==
  LET weight == [i \in DOMAIN items |-> Weight(job, items[i].name, items[i].layout)]
      written(n) == bin \o FlattenSeq([i \in 1..n |-> weight[i].bytes]) IN
  [bin |-> written(Len(items)),
   tensors |-> tensors \o [i \in DOMAIN items |->
                 PackedTensor(items[i].name, Len(written(i - 1)), weight[i])]]

Item(name, layout) == [name |-> name, layout |-> layout]

RouterItems(router) ==
  [i \in DOMAIN router.tensors |-> Item(router.tensors[i].name, router.layout)]

WithRouters(job, packed) ==
  LET router == job.manifest.router
      w == WithStatic(job, packed.bin, packed.pack.manifest.tensors, RouterItems(router)) IN
  [bin |-> w.bin,
   pack |-> [packed.pack EXCEPT
     !.manifest = [@ EXCEPT !.tensors = w.tensors, !.router.tensors = router.tensors]]]

PackRouters ==
  /\ conv.pc = "routers"
  /\ Becomes(WithRouters(Job, SoFar), "layers")

\* A tensor a layer may lack.
Optional(name) == IF name = NoName THEN <<>> ELSE <<Item(name, "")>>

LayerItems(l) ==
  [p \in 1..4 |-> LET b == l.at[<<"q", "k", "v", "o">>[p]] IN Item(b.tensor, b.layout)]
    \o Optional(l.qNorm) \o Optional(l.kNorm) \o Optional(l.inputNorm) \o Optional(l.postNorm)

PackedLayer(l) ==
  [l EXCEPT !.at = [p \in Attention |-> [tensor |-> l.at[p].tensor, layout |-> "INPUT_OUTPUT"]]]

WithLayers(job, packed) ==
  LET layers == job.manifest.layers
      items == FlattenSeq([i \in DOMAIN layers |-> LayerItems(layers[i])])
      w == WithStatic(job, packed.bin, packed.pack.manifest.tensors, items) IN
  [bin |-> w.bin,
   pack |-> [packed.pack EXCEPT
     !.manifest = [@ EXCEPT !.tensors = w.tensors,
                            !.layers = [i \in DOMAIN layers |-> PackedLayer(layers[i])]]]]

PackLayers ==
  /\ conv.pc = "layers"
  /\ Becomes(WithLayers(Job, SoFar), "io")

\* The embedding is read by row and keeps its layout; the head is a matrix.
IOItems(io) ==
  IF io = NoIO THEN <<>>
  ELSE <<Item(io.embedding, "INPUT_OUTPUT"), Item(io.norm, "INPUT_OUTPUT")>>
         \o IF io.tied THEN <<>> ELSE <<Item(io.head.tensor, io.head.layout)>>

PackedIO(io) ==
  IF io = NoIO \/ io.tied THEN io ELSE [io EXCEPT !.head.layout = "INPUT_OUTPUT"]

WithIO(job, packed) ==
  LET w == WithStatic(job, packed.bin, packed.pack.manifest.tensors, IOItems(job.manifest.io)) IN
  [bin |-> w.bin,
   pack |-> [packed.pack EXCEPT
     !.manifest = [@ EXCEPT !.tensors = w.tensors, !.io = PackedIO(job.manifest.io)]]]

PackIO ==
  /\ conv.pc = "io"
  /\ Becomes(WithIO(Job, SoFar), "close")

CloseData ==
  /\ Step("close", "index")
  /\ dir' = [dir EXCEPT !.bin.state = "whole"]
  /\ UNCHANGED <<given, rt>>

-----------------------------------------------------------------------------
(* experts.index and ExpertStore.                                          *)

\* ExpertIndex::rebuildLookup returns.
IndexIsValid(index) ==
  /\ \A r \in Range(index.records) : r.size # 0 /\ r.dtype \in DType
  /\ \A i, j \in DOMAIN index.records :
       (index.records[i].layer = index.records[j].layer
        /\ index.records[i].expert = index.records[j].expert) => i = j
  /\ \A p \in Range(index.projections) :
       /\ p.size # 0 /\ Len(p.shape) \in 1..4 /\ 0 \notin Range(p.shape) /\ p.dtype \in DType
       /\ \E r \in Range(index.records) :
            /\ r.layer = p.layer /\ r.expert = p.expert
            /\ p.offset >= r.offset /\ p.offset + p.size <= r.offset + r.size
       /\ RequiredBytes(p.shape, p.dtype) = p.size
  /\ \A i, j \in DOMAIN index.projections :
       LET p == index.projections[i]
           q == index.projections[j]
       IN (p.layer = q.layer /\ p.expert = q.expert /\ p.role = q.role) => i = j

View(bin, offset, size) == SubSeq(bin, offset + 1, offset + size)
InFile(bin, offset, size) == offset + size <= Len(bin)

\* ExpertIndex::load returns: a file cut anywhere does not have the size its
\* record counts ask for.
IndexLoads(file) == file.state = "whole" /\ IndexIsValid(file.data)

\* ExpertStore opens with this index file and this data, next to a manifest.
StoreOpens(index, bin, manifest) ==
  /\ IndexLoads(index)
  /\ bin # <<>> /\ manifest.state # "absent"
  /\ \A r \in Range(index.data.records) : InFile(bin, r.offset, r.size)

Intact(bin, r) == View(bin, r.offset, r.size) = r.checksum

\* A file a stream was told to write, once the stream is gone: the tail that the
\* destructor flushes is lost without a word if that write fails.
Streamed(data) == {Whole(data), Cut}

SaveIndex ==
  /\ conv.pc = "index"
  /\ LET index == [records |-> conv.pack.records, projections |-> conv.pack.projections] IN
     /\ IndexIsValid(index) = TRUE
     /\ \E f \in Streamed(index) : dir' = [dir EXCEPT !.index = f]
  /\ conv' = [conv EXCEPT !.pc = "manifest"]
  /\ UNCHANGED <<given, rt>>

SaveManifest ==
  /\ conv.pc = "manifest"
  /\ Validate(conv.pack.manifest) = TRUE
  /\ \E f \in Streamed(ToJson(conv.pack.manifest)) : dir' = [dir EXCEPT !.manifest = f]
  /\ conv' = [conv EXCEPT !.pc = "verify"]
  /\ UNCHANGED <<given, rt>>

Verified ==
  /\ StoreOpens(dir.index, dir.bin.data, dir.manifest)
  /\ \A r \in Range(dir.index.data.records) \cup Range(dir.index.data.projections) :
       Intact(dir.bin.data, r)

Verify ==
  /\ Step("verify", "report")
  /\ Verified = TRUE
  /\ UNCHANGED <<given, dir, rt>>

WriteReport ==
  /\ Step("report", IF tool = "real" THEN "tokenizer" ELSE "done")
  /\ UNCHANGED <<given, dir, rt>>

CopyTokenizer ==
  /\ Step("tokenizer", "done")
  /\ UNCHANGED <<given, dir, rt>>

-----------------------------------------------------------------------------
(* Failures.  Any step may throw: a write, a check, a full disk.  The      *)
(* handler removes the directory; what it cannot remove stays.             *)

Remaining(kept) ==
  IF kept = {} THEN NoDirectory
  ELSE [exists |-> TRUE, by |-> dir.by,
        bin |-> IF "bin" \notin kept THEN NoFile
                ELSE [dir.bin EXCEPT !.state = IF @ = "open" THEN "cut" ELSE @],
        index |-> IF "index" \in kept THEN dir.index ELSE NoFile,
        manifest |-> IF "manifest" \in kept THEN dir.manifest ELSE NoFile]

\* A mutant of Abort whose handler forgets to throw again.
AbortSwallowed ==
  /\ conv.pc \in Packing
  /\ \E kept \in {{}, {"bin"}, Contents} : dir' = Remaining(kept)
  /\ UNCHANGED <<given, conv, rt>>

Abort ==
  /\ conv.pc \in Packing
  /\ Fails
  /\ \E kept \in {{}, {"bin"}, Contents} : dir' = Remaining(kept)
  /\ UNCHANGED <<given, rt>>

Crash ==
  /\ conv.pc \in Packing
  /\ conv' = [conv EXCEPT !.pc = "crashed"]
  /\ \E data \in OnDisk(dir.bin.data) :
       dir' = IF dir.bin.state = "open"
              THEN [dir EXCEPT !.bin = [state |-> "cut", data |-> data]] ELSE dir
  /\ UNCHANGED <<given, rt>>

\* Whoever runs the converter clears the output and tries again.
ClearOutput ==
  /\ conv.pc \in {"failed", "crashed"}
  /\ dir.exists
  /\ dir' = NoDirectory
  /\ UNCHANGED <<given, conv, rt>>

Retry ==
  /\ conv.pc \in {"failed", "crashed"} /\ conv.attempt < Attempts
  /\ conv' = Idle(conv.attempt + 1)
  /\ UNCHANGED <<given, dir, rt>>

-----------------------------------------------------------------------------
(* PackedModelRuntime: the constructor in the order it touches the files.  *)

StaticNames(m) ==
  (UNION {{l.at[p].tensor : p \in Attention} \cup {l.inputNorm, l.postNorm, l.router}
            \cup ({l.qNorm, l.kNorm} \ {NoName}) : l \in Range(m.layers)})
    \cup {m.io.embedding, m.io.norm, m.io.head.tensor}

\* TransformerModelRuntime and ModelRuntime take the tensors the manifest binds.
BindsLayers(m) ==
  /\ Len(m.layers) = m.arch.layers
  /\ \A n \in 0..(m.arch.layers - 1) : \E l \in Range(m.layers) :
       /\ l.layer = n
       /\ \A p \in Attention : l.at[p].layout = "INPUT_OUTPUT"
       /\ (l.qNorm = NoName) = (l.kNorm = NoName)

BindsIO(m) ==
  /\ m.io # NoIO /\ m.arch.vocab # 0
  /\ HasShape(m, m.io.embedding, <<m.arch.vocab, m.arch.hidden>>)
  /\ HasShape(m, m.io.norm, <<m.arch.hidden>>)
  /\ HasShape(m, m.io.head.tensor, InLayout(<<m.arch.hidden, m.arch.vocab>>, m.io.head.layout))

\* makeExpertMappings finds the tensor of every projection.
BindsExperts(m) ==
  \A e \in Range(m.experts) : \A role \in Role : Has(m, e.at[role].tensor)

Binds(m) == BindsExperts(m) /\ BindsLayers(m) /\ BindsIO(m)

\* parseJsonFile returns: a document cut short does not parse.
Parses(file) == file.state = "whole"

ManifestOpens(file) ==
  /\ Parses(file) /\ Loads(file.data)
  /\ LET m == FromJson(file.data) IN
     /\ m.experts # <<>> /\ Len(m.layers) = m.arch.layers /\ m.io # NoIO /\ ~m.config.shared

LoadManifest ==
  /\ rt.pc = "closed"
  /\ ManifestOpens(dir.manifest) = TRUE
  /\ rt' = [rt EXCEPT !.pc = "static", !.manifest = FromJson(dir.manifest.data)]
  /\ UNCHANGED <<given, conv, dir>>

\* What a mapping of experts.bin may show.
Mappings == IF dir.bin.state = "whole" THEN {dir.bin.data} ELSE OnDisk(dir.bin.data)

StaticLoads(m, bin) ==
  /\ bin # <<>>
  /\ \A name \in StaticNames(m) :
       Has(m, name) /\ InFile(bin, TensorOf(m, name).offset, TensorOf(m, name).size)

LoadStatic ==
  /\ rt.pc = "static" /\ dir.bin.state # "absent"
  /\ \E bin \in Mappings :
       /\ StaticLoads(rt.manifest, bin) = TRUE
       /\ rt' = [rt EXCEPT !.pc = "store", !.static = bin]
  /\ UNCHANGED <<given, conv, dir>>

FitsBudget(index) == \A r \in Range(index.records) : r.size <= ExecutionBudget

OpenStore ==
  /\ rt.pc = "store" /\ dir.bin.state # "absent"
  /\ \E bin \in Mappings :
       /\ StoreOpens(dir.index, bin, dir.manifest) = TRUE
       /\ FitsBudget(dir.index.data)
       /\ Binds(rt.manifest)
       /\ rt' = [rt EXCEPT !.pc = "open", !.bin = bin, !.index = dir.index.data]
  /\ UNCHANGED <<given, conv, dir>>

\* The constructor throws, or the runtime is destroyed.
CloseRuntime ==
  /\ rt.pc # "closed"
  /\ rt' = Closed
  /\ UNCHANGED <<given, conv, dir>>

\* What reading the record's range from the path may give, if it can be opened.
RangeReads == IF dir.bin.state = "absent" THEN {} ELSE Mappings

\* DiskLoader::load, from the mapping or by a range read.
LoadExpert ==
  /\ rt.pc = "open" /\ rt.loaded = <<>>
  /\ \E r \in Range(rt.index.records), bin \in {rt.bin} \cup RangeReads :
       /\ InFile(bin, r.offset, r.size) /\ Intact(bin, r)
       /\ rt' = [rt EXCEPT !.loaded = [record |-> r, bytes |-> View(bin, r.offset, r.size)]]
  /\ UNCHANGED <<given, conv, dir>>

\* ExpertWeightMap::createViews: a projection inside the loaded payload.
ExpertView(m, loaded, role) ==
  LET p == ExpertOf(m, loaded.record.layer, loaded.record.expert).at[role]
  IN View(loaded.bytes, p.offset - loaded.record.offset, p.size)

Next ==
  \/ Import \/ MakeDirectory \/ Refuse \/ PackExpert \/ PackRouters \/ PackLayers \/ PackIO
  \/ CloseData \/ SaveIndex \/ SaveManifest \/ Verify \/ WriteReport \/ CopyTokenizer
  \/ Abort \/ Crash \/ ClearOutput \/ Retry
  \/ LoadManifest \/ LoadStatic \/ OpenStore \/ CloseRuntime \/ LoadExpert

Spec == Init /\ [][Next]_vars

-----------------------------------------------------------------------------
(* Properties.                                                             *)

\* Type correctness: the converter, the runtime and the directory are in states
\* the code names, and a directory that does not exist has no files.
TypeOK ==
  /\ conv.pc \in Pc /\ conv.attempt \in 1..Attempts
  /\ rt.pc \in {"closed", "static", "store", "open"}
  /\ \A f \in Contents : dir[f].state \in FileState
  /\ ~dir.exists => dir = NoDirectory
  /\ conv.pc \in Packing => dir.exists /\ Len(conv.pack.records) <= Len(Source.experts)


\* The name of the source tensor that holds a projection, and the place in it of
\* the element that maps input i to output o.
SourceOf(layer, expert, role) ==
  LET ts == Tensors(ck) IN
  IF layer \notin FusedLayers(ts) THEN Name("expert", layer, expert, role)
  ELSE (CHOOSE t \in Fused(ts, layer, IF role = "down" THEN "down" ELSE "gate_up") : TRUE).name

SourceElement(layer, expert, role, o, i) ==
  LET c == ck.config
      rows == IF role = "down" THEN c.hidden ELSE c.inter
      columns == IF role = "down" THEN c.inter ELSE c.hidden IN
  IF layer \notin FusedLayers(Tensors(ck)) THEN o * columns + i
  ELSE CASE role = "gate" -> (expert * 2 * rows + o) * columns + i
         [] role = "up" -> (expert * 2 * rows + rows + o) * columns + i
         [] role = "down" -> (expert * rows + o) * columns + i

ElementBytes(name, element, dtype) ==
  IF dtype = "INT8" THEN <<Cell(name, -1 - element)>>
  ELSE [b \in 1..SizeOf(dtype) |-> Cell(name, element * SizeOf(dtype) + b - 1)]

\* The matrix has at input i and output o what the checkpoint has there.
HasMatrix(bytes, shape, dtype, name, element(_, _)) ==
  \A i \in 0..(shape[1] - 1), o \in 0..(shape[2] - 1) :
    View(bytes, (i * shape[2] + o) * SizeOf(dtype), SizeOf(dtype))
      = ElementBytes(name, element(o, i), dtype)

StaticIsFaithful(m, bin) ==
  \A name \in StaticNames(m) :
    LET t == TensorOf(m, name)
        bytes == View(bin, t.offset, t.size) IN
    IF Len(t.shape) = 1 \/ name = Embedding
    THEN bytes = [n \in 1..t.size |-> Cell(name, n - 1)]
    ELSE HasMatrix(bytes, t.shape, t.dtype, name, LAMBDA o, i : o * t.shape[1] + i)

LoadedIsFaithful(m, loaded) ==
  LET l == loaded.record.layer
      e == loaded.record.expert IN
  \A r \in Role :
    LET p == ExpertOf(m, l, e).at[r] IN
    HasMatrix(ExpertView(m, loaded, r), p.shape, loaded.record.dtype, SourceOf(l, e, r),
              LAMBDA o, i : SourceElement(l, e, r, o, i))

\* A runtime that opened a directory, whoever left it there and after however many
\* attempts, computes with the checkpoint's numbers: every static tensor and the three
\* projections of every expert it loads are the source's elements with inputs first,
\* and the architecture is the checkpoint's to the digits the manifest keeps.
OpenIsFaithful ==
  rt.pc = "open" =>
    /\ StaticIsFaithful(rt.manifest, rt.static)
    /\ rt.loaded # <<>> => LoadedIsFaithful(rt.manifest, rt.loaded)
    /\ rt.manifest.arch = [Architecture(ck.config) EXCEPT !.theta = SixDigits(@)]

\* A conversion of a complete model that returned has left a directory a runtime can
\* open, provided the manifest reached the disk: what the importer and the packer
\* accept, the manifest reader, the store and the runtime accept too.
ConvertedOpens ==
  (conv.pc = "done" /\ tool = "real" /\ ~ck.config.shared /\ dir.manifest.state = "whole") =>
    /\ ManifestOpens(dir.manifest)
    /\ LET m == FromJson(dir.manifest.data)
       IN StaticLoads(m, dir.bin.data) /\ Binds(m)
    /\ StoreOpens(dir.index, dir.bin.data, dir.manifest)

\* No step of a conversion changes a directory another attempt, or someone else, made:
\* it refuses such a directory, and its cleanup leaves it alone.
TouchesOnlyItsOwn ==
  [][conv' # conv /\ dir.exists /\ dir' # dir => dir.by = conv.attempt]_vars

\* docs/architecture.md: RealCheckpointConverter transactionally creates a
\* self-contained runtime artifact.  If it returned, the artifact's manifest can be read.
ConversionIsTransactional ==
  (conv.pc = "done" /\ tool = "real" /\ ~ck.config.shared) => ManifestOpens(dir.manifest)
=============================================================================

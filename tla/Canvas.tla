------------------------------- MODULE Canvas -------------------------------
(***************************************************************************)
(* RawCanvas (hg-ctx2d, base/facade.rs): a frame is a list of calls, which *)
(* are sorted into one instance buffer per brush and transform and into    *)
(* runs of instances (base/depth.rs), drawn by finish_raw in the order of  *)
(* the commands.  All of it reaches the gpu through DynamicBuffers.        *)
(*                                                                         *)
(* A frame is drawn, finished, submitted and reclaimed by one thread       *)
(* (examples/wgpu.rs); the gpu executes what is submitted later, in order, *)
(* and maps a chunk when it is done with it (wgpu, external).  The model   *)
(* gpu binds any offset of the transform buffer.                           *)
(***************************************************************************)
EXTENDS DynamicBuffers

CONSTANTS
  Brush,    \* what create_brush has returned
  Count,    \* the instance counts that draw is called with
  Xf,       \* the transforms that set_transform is called with
  Identity, \* the one of them that a frame begins with
  State,    \* what scissor and clip commands set
  Plain,    \* the state that a render pass begins with
  MaxCalls, \* calls that draw or set something, a bound
  MaxFrames \* frames, a bound

ASSUME CanvasAssumption ==
  /\ Identity \in Xf
  /\ Count \subseteq Nat \ {0}
  /\ Plain \in State
  /\ MaxCalls \in Nat /\ MaxFrames \in Nat

Nobody == [xf |-> None]
NoOffset == -1

VARIABLES
  buffers,       \* RawCanvas::buffers
  depth_gen,     \* the epoch and the depth
  transform,     \* TransformManager
  brushes,       \* transforms and last_xf of each brush
  brushes_xf,    \* RawBrushXf, by handle
  last_xf_brush,
  commands,
  blend,
  state,         \* what the last scissor or clip command has set
  stage,         \* where the main loop is in the frame
  encoder,       \* what finish_raw has recorded
  submitted,     \* what the gpu has not executed yet
  vram,          \* the gpu's memory
  calls,         \* the draws of the frame, as they were called
  spent,         \* calls and frames so far
  shown          \* the frame that was executed last

vars == <<buffers, depth_gen, transform, brushes, brushes_xf, last_xf_brush, commands, blend,
          state, stage, encoder, submitted, vram, calls, spent, shown>>
canvasVars == <<depth_gen, transform, brushes, brushes_xf, last_xf_brush, commands, blend,
                state, calls, spent>>

\* The first two buffers that RawCanvas::new creates.
TransformBuffer == 1
UniformBuffer == 2

FreshDepth == [epoch |-> 1, depth |-> 0]
FreshTransform == [curr_xf |-> Identity, curr_offset |-> NoOffset,
                   offset_map |-> [x \in {} |-> 0]]
FreshBrush == [transforms |-> [o \in {} |-> None], last_xf |-> Nobody]
NoFrame == [calls |-> <<>>, image |-> <<>>]

Init ==
  /\ buffers = Created(Created(NewManager))
  /\ depth_gen = FreshDepth
  /\ transform = FreshTransform
  /\ brushes = [b \in Brush |-> FreshBrush]
  /\ brushes_xf = <<>>
  /\ last_xf_brush = Nobody
  /\ commands = <<>>
  /\ blend = FALSE
  /\ state = Plain
  /\ stage = "draw"
  /\ encoder = <<>>
  /\ submitted = <<>>
  /\ vram = [b \in {} |-> <<>>]
  /\ calls = <<>>
  /\ spent = [calls |-> 0, frames |-> 0]
  /\ shown = NoFrame

MayCall ==
  /\ stage = "draw" /\ spent.frames < MaxFrames
  /\ spent.calls < MaxCalls
  /\ spent' = [spent EXCEPT !.calls = @ + 1]
  /\ UNCHANGED <<stage, encoder, submitted, vram, shown>>

----------------------------------------------------------------------------
\* set_transform.  Mutation: the offset of the transform before stays in use.
TransformSetStale(x) == [transform EXCEPT !.curr_xf = x]
TransformSet(x) == [transform EXCEPT !.curr_xf = x, !.curr_offset = NoOffset]

SetTransform(x) ==
  /\ MayCall
  /\ transform' = TransformSet(x)
  /\ last_xf_brush' = Nobody
  /\ UNCHANGED <<buffers, depth_gen, brushes, brushes_xf, commands, blend, state, calls>>

SetBlend(on) ==
  /\ MayCall
  /\ commands' = Append(commands, [kind |-> "SetBlend", to |-> on])
  /\ blend' = on
  /\ UNCHANGED <<buffers, depth_gen, transform, brushes, brushes_xf, last_xf_brush, state,
                 calls>>

\* set_scissor, start_clip, end_clip and unset_clip.
SetState(s) ==
  /\ MayCall
  /\ commands' = Append(commands, [kind |-> "SetState", to |-> s])
  /\ state' = s
  /\ UNCHANGED <<buffers, depth_gen, transform, brushes, brushes_xf, last_xf_brush, blend,
                 calls>>

\* transform_offset: the buffers and the TransformManager afterwards.
XfBuffers ==
  IF transform.curr_offset # NoOffset \/ transform.curr_xf \in DOMAIN transform.offset_map
  THEN buffers
  ELSE Extended(buffers, TransformBuffer, <<transform.curr_xf>>)
XfOffset ==
  IF transform.curr_offset # NoOffset THEN transform.curr_offset
  ELSE IF transform.curr_xf \in DOMAIN transform.offset_map
    THEN transform.offset_map[transform.curr_xf]
    ELSE buffers.buffers[TransformBuffer].target_len
XfKnown ==
  [transform EXCEPT !.curr_offset = XfOffset,
     !.offset_map = IF transform.curr_offset # NoOffset THEN @
                    ELSE (transform.curr_xf :> XfOffset) @@ @]

\* Mutation: swapping brushes with blending enabled stays in the epoch.
SwapEpochSame == depth_gen
SwapEpoch ==
  IF blend THEN [epoch |-> depth_gen.epoch + 1, depth |-> 0] ELSE depth_gen

ContinuesRun(xf, epoch) == xf.last_epoch = epoch

\* InstanceRuns::push, and the command if the run is a new one.
Pushed(xf, epoch, count) ==
  IF ContinuesRun(xf, epoch) THEN [xf EXCEPT !.len = @ + count]
  ELSE [xf EXCEPT !.starts = Append(@, xf.len), !.len = @ + count, !.last_epoch = epoch]
Recorded(h, xf, epoch) ==
  IF ContinuesRun(xf, epoch) THEN commands
  ELSE Append(commands, [kind |-> "Draw", xf |-> h, run |-> Len(xf.starts) + 1])

\* advance_depth, short of the 2^30 draws that bring the depth to 1.
\* Mutation: only another epoch has another depth.
DepthAdvancedNever(gen) == gen
DepthAdvanced(gen) == [gen EXCEPT !.depth = @ + 1]

\* depth(), from the smallest number above zero: the caller puts it into the instances before
\* draw may begin another epoch.
Depth == depth_gen.depth + 1

\* draw, from "Push the instance" on.
PushInstance(b, h, m, xfs, epoch, count) ==
  LET n == Len(calls) + 1
  IN /\ last_xf_brush' = [brush |-> b, xf |-> h]
     /\ buffers' = Extended(m, xfs[h].buffer, [i \in 1..count |-> [call |-> n, depth |-> Depth]])
     /\ brushes_xf' = [xfs EXCEPT ![h] = Pushed(@, epoch.epoch, count)]
     /\ commands' = Recorded(h, xfs[h], epoch.epoch)
     /\ depth_gen' = DepthAdvanced(epoch)
     /\ calls' = Append(calls, [brush |-> b, xf |-> transform.curr_xf, state |-> state,
                                blend |-> blend, count |-> count])

DrewLast(b) == last_xf_brush # Nobody /\ last_xf_brush.brush = b

\* The brush and the transform are the ones of the last draw.
DrawAgain(b, count) ==
  /\ MayCall
  /\ DrewLast(b)
  /\ PushInstance(b, last_xf_brush.xf, buffers, brushes_xf, depth_gen, count)
  /\ UNCHANGED <<transform, brushes, blend, state>>

\* The RawBrushXf of b for the transform, by last_xf or by the map.
KnownXf(b) ==
  LET last == brushes[b].last_xf
  IN IF last # Nobody /\ last.offset = XfOffset THEN last.xf
     ELSE IF XfOffset \in DOMAIN brushes[b].transforms THEN brushes[b].transforms[XfOffset]
     ELSE None

\* They have been drawn with in this frame before.
DrawKnown(b, count) ==
  /\ MayCall
  /\ ~DrewLast(b)
  /\ KnownXf(b) # None
  /\ PushInstance(b, KnownXf(b), XfBuffers, brushes_xf, SwapEpoch, count)
  /\ brushes' = [brushes EXCEPT ![b].last_xf = [offset |-> XfOffset, xf |-> KnownXf(b)]]
  /\ transform' = XfKnown
  /\ UNCHANGED <<blend, state>>

DrawNew(b, count) ==
  /\ MayCall
  /\ ~DrewLast(b)
  /\ KnownXf(b) = None
  /\ LET m == Created(XfBuffers)
         h == Len(brushes_xf) + 1
         new == [brush |-> b, transform |-> XfOffset, buffer |-> m.created, starts |-> <<>>,
                 last_epoch |-> 0, len |-> 0]
     IN /\ PushInstance(b, h, m, Append(brushes_xf, new), SwapEpoch, count)
        /\ brushes' = [brushes EXCEPT ![b].transforms = (XfOffset :> h) @@ @,
                                      ![b].last_xf = [offset |-> XfOffset, xf |-> h]]
  /\ transform' = XfKnown
  /\ UNCHANGED <<blend, state>>

----------------------------------------------------------------------------
(* finish_raw *)

\* InstanceRuns::range.  Mutation: a run goes to the end of the buffer.
RunEndLast(xf, run) == xf.len + run - run
RunEnd(xf, run) == IF run < Len(xf.starts) THEN xf.starts[run + 1] ELSE xf.len

GpuOf(m, h) == m.buffers[h].buffer

\* The loop over the commands: pass keeps what is set, and what was drawn with it.
Replayed(m, pass, cmd) ==
  CASE cmd.kind = "SetBlend" -> [pass EXCEPT !.blend = cmd.to]
    [] cmd.kind = "SetState" -> [pass EXCEPT !.state = cmd.to]
    [] OTHER ->
       LET xf == brushes_xf[cmd.xf]
       IN [pass EXCEPT !.draws = Append(@,
            [kind |-> "draw", brush |-> xf.brush, state |-> pass.state, blend |-> pass.blend,
             xfs |-> GpuOf(m, TransformBuffer), offset |-> xf.transform,
             instances |-> GpuOf(m, xf.buffer),
             from |-> xf.starts[cmd.run], to |-> RunEnd(xf, cmd.run)])]

Draws(m) ==
  FoldLeft(LAMBDA pass, cmd : Replayed(m, pass, cmd),
           [blend |-> FALSE, state |-> Plain, draws |-> <<>>], commands).draws

WithUniform ==
  Extended(Cleared(buffers, UniformBuffer), UniformBuffer, <<"size">>)

\* Every RawBrushXf that ever was, also of the frames before, gives its buffer back.
BrushBuffers == {brushes_xf[h].buffer : h \in DOMAIN brushes_xf}

\* Mutation: the brushes remember their transforms over the frame.
BrushesResetNever == brushes
BrushesReset == [b \in Brush |-> FreshBrush]

\* wgpu does not bind a uniform buffer that is empty: something has been drawn before.
FinishRaw ==
  /\ stage = "draw" /\ spent.frames < MaxFrames
  /\ LET flushed == FlushedAll(WithUniform)
         m == flushed.manager
     IN /\ m.buffers[TransformBuffer].size > 0
        /\ encoder' = flushed.copies \o Draws(m)
        /\ buffers' = FoldLeft(Destroyed, Cleared(m, TransformBuffer), Sorted(BrushBuffers))
  /\ stage' = "finished"
  /\ depth_gen' = FreshDepth
  /\ transform' = FreshTransform
  /\ last_xf_brush' = Nobody
  /\ blend' = FALSE
  /\ commands' = <<>>
  /\ brushes' = BrushesReset
  /\ state' = Plain
  /\ UNCHANGED <<brushes_xf, submitted, vram, calls, spent, shown>>

Submit ==
  /\ stage = "finished"
  /\ stage' = "submitted"
  /\ submitted' = Append(submitted, [todo |-> encoder, calls |-> calls])
  /\ encoder' = <<>>
  /\ calls' = <<>>
  /\ UNCHANGED <<buffers, depth_gen, transform, brushes, brushes_xf, last_xf_brush, commands,
                 blend, state, vram, spent, shown>>

Reclaim ==
  /\ stage = "submitted"
  /\ stage' = "draw"
  /\ buffers' = Reclaimed(buffers)
  /\ spent' = [spent EXCEPT !.frames = @ + 1]
  /\ UNCHANGED <<depth_gen, transform, brushes, brushes_xf, last_xf_brush, commands, blend,
                 state, encoder, submitted, vram, calls, shown>>

----------------------------------------------------------------------------
(* The gpu. *)

Source(v, from) == IF from.kind = "chunk" THEN buffers.memory[from.id] ELSE v[from.id]

Copied(v, c) ==
  LET cells == [i \in c.dst..(c.dst + c.len - 1) |-> Source(v, c.from)[c.src + i - c.dst]]
      old == IF c.to.id \in DOMAIN v THEN v[c.to.id] ELSE [i \in {} |-> Blank]
  IN (c.to.id :> (cells @@ old)) @@ v

Drawn(v, d) ==
  [brush |-> d.brush, state |-> d.state, blend |-> d.blend, xf |-> v[d.xfs][d.offset],
   instances |-> [i \in 1..(d.to - d.from) |-> v[d.instances][d.from + i - 1]]]

Executed(acc, c) ==
  IF c.kind = "copy" THEN [acc EXCEPT !.vram = Copied(@, c)]
  ELSE [acc EXCEPT !.image = Append(@, Drawn(acc.vram, c))]

\* A pass begins with a depth of zero everywhere, and every pipeline, blending or not, tests
\* with Greater and writes what passes.  What passes of the instances at a pixel which the
\* calls ns cover:
NothingDrawn == [depth |-> 0, passed |-> <<>>]
Tested(pixel, instance) ==
  IF instance.depth > pixel.depth
  THEN [depth |-> instance.depth, passed |-> Append(pixel.passed, instance.call)]
  ELSE pixel
Passed(instances, ns) ==
  FoldLeft(Tested, NothingDrawn, SelectSeq(instances, LAMBDA i : i.call \in ns)).passed

\* What somebody still holds: the manager, or a frame that is yet to be executed.
Referenced(frames) ==
  {buffers.buffers[h].buffer : h \in DOMAIN buffers.buffers}
    \cup UNION {{f.todo[i].to.id : i \in {j \in DOMAIN f.todo : f.todo[j].kind = "copy"}}
                 : f \in ToSet(frames)}

Execute ==
  /\ submitted # <<>>
  /\ submitted' = Tail(submitted)
  /\ LET frame == Head(submitted)
         done == FoldLeft(Executed, [vram |-> vram, image |-> <<>>], frame.todo)
         kept == DOMAIN done.vram \cap Referenced(Append(Tail(submitted), [todo |-> encoder]))
     IN /\ shown' = [calls |-> frame.calls, image |-> done.image]
        /\ vram' = [b \in kept |-> done.vram[b]]
  /\ UNCHANGED <<buffers, stage, encoder>>
  /\ UNCHANGED canvasVars

\* The chunks that commands which are not executed yet read from.
ReadBy(todo) ==
  {todo[i].from.id : i \in {j \in DOMAIN todo :
                              todo[j].kind = "copy" /\ todo[j].from.kind = "chunk"}}
InFlight == ReadBy(encoder) \cup UNION {ReadBy(f.todo) : f \in ToSet(submitted)}

\* Maintaining the device calls the callbacks of all chunks that it is done with.
Remap ==
  /\ buffers.pending \ InFlight # {}
  /\ buffers' = Remapped(buffers, buffers.pending \ InFlight)
  /\ UNCHANGED <<stage, encoder, submitted, vram, shown>>
  /\ UNCHANGED canvasVars

----------------------------------------------------------------------------
Draw(b, count) == DrawAgain(b, count) \/ DrawKnown(b, count) \/ DrawNew(b, count)

Next ==
  \/ \E x \in Xf : SetTransform(x)
  \/ \E on \in BOOLEAN : SetBlend(on)
  \/ \E s \in State : SetState(s)
  \/ \E b \in Brush, count \in Count : Draw(b, count)
  \/ FinishRaw
  \/ Submit
  \/ Reclaim
  \/ Execute
  \/ Remap

Spec == Init /\ [][Next]_vars

----------------------------------------------------------------------------
TypeOK ==
  /\ stage \in {"draw", "finished", "submitted"}
  /\ depth_gen \in [epoch : Nat \ {0}, depth : Nat]
  /\ transform.curr_xf \in Xf
  /\ DOMAIN transform.offset_map \subseteq Xf
  /\ blend \in BOOLEAN /\ state \in State
  /\ \A h \in DOMAIN brushes_xf : brushes_xf[h].brush \in Brush
  /\ \A h \in DOMAIN buffers.buffers :
       buffers.buffers[h].buffer_len <= buffers.buffers[h].target_len
  /\ spent.calls \in 0..MaxCalls /\ spent.frames \in 0..MaxFrames

\* What the gpu draws, before the depth test, are the calls: every one once and in full, with
\* its brush and under the transform that was set, through the staging chunks, the grown
\* buffers, the offsets and the ranges of the runs.  Only the first call of a run is sure to
\* have its own blending, scissor and clip: later ones get the run's.
DrawnAsCalled ==
  LET image == shown.image
      Of(n, d) == {i \in DOMAIN image[d].instances : image[d].instances[i].call = n}
  IN /\ \A n \in DOMAIN shown.calls :
          \E d \in DOMAIN image :
            /\ Cardinality(Of(n, d)) = shown.calls[n].count
            /\ \A e \in DOMAIN image \ {d} : Of(n, e) = {}
            /\ image[d].brush = shown.calls[n].brush
            /\ image[d].xf = shown.calls[n].xf
     /\ \A d \in DOMAIN image :
          /\ \A i \in DOMAIN image[d].instances :
               image[d].instances[i].call \in DOMAIN shown.calls
          /\ LET first == shown.calls[Head(image[d].instances).call]
             IN image[d].state = first.state /\ image[d].blend = first.blend

\* The instances of a frame in the order of their drawing.
Instances == FlattenSeq([d \in DOMAIN shown.image |-> shown.image[d].instances])

\* Sets of calls in a stretch of the frame throughout which blending is on, or off.
Stretch(on) ==
  {ns \in SUBSET (DOMAIN shown.calls) \ {{}} :
     \A n \in Min(ns)..Max(ns) : shown.calls[n].blend = on}

\* As long as blending stays on, instances are drawn in the order of the calls, although
\* each brush and transform has a buffer of its own.
BlendedInOrder ==
  \A i, j \in DOMAIN Instances :
    LET a == Instances[i].call
        b == Instances[j].call
    IN a > b /\ {a, b} \in Stretch(TRUE) => i > j

\* As long as blending stays off, the brushes are drawn in another order than called, and the
\* depth test puts the latest of the calls that cover a pixel on top.
LatestOnTop ==
  \A ns \in Stretch(FALSE) :
    LET passed == Passed(Instances, ns) IN passed # <<>> /\ Last(passed) = Max(ns)

\* A swap of brushes with blending enabled places the primitives in a new epoch so that they
\* are blended with what is there: none of the calls that cover a pixel may be missing.
BlendedVisible ==
  \A ns \in Stretch(TRUE) : ToSet(Passed(Instances, ns)) = ns

\* A chunk is in one place at a time and never lost: with the writer of one buffer, free, or
\* on its way back; and while commands that read it are not executed, nobody can write to it.
ChunksOwned ==
  LET writing == FlattenSeq([i \in 1..buffers.created |->
                   IF i \in DOMAIN buffers.buffers THEN ChunksOf(buffers.buffers[i]) ELSE <<>>])
      idle == buffers.free \o buffers.free_chunk_recv
      placed == writing \o idle \o buffers.reclaim_queue
      back == ToSet(buffers.reclaim_queue) \cup buffers.pending
  IN /\ ToSet(placed) \cup buffers.pending = 1..buffers.total_buffers
     /\ Len(placed) + Cardinality(buffers.pending) = buffers.total_buffers
     /\ InFlight \subseteq back

\* The handles that calls will look up are of buffers that exist.
HandlesLive ==
  LET Alive(h) == brushes_xf[h].buffer \in DOMAIN buffers.buffers
  IN /\ last_xf_brush # Nobody => Alive(last_xf_brush.xf)
     /\ \A b \in Brush :
          /\ brushes[b].last_xf # Nobody => Alive(brushes[b].last_xf.xf)
          /\ \A o \in DOMAIN brushes[b].transforms : Alive(brushes[b].transforms[o])

\* No upload reaches past the length that its buffer has in the frame.
\* (Of the buffers that outlive it; those of the brushes are as long as their runs.)
CopiesFit ==
  stage = "finished" =>
    \A i \in DOMAIN encoder :
      encoder[i].kind = "copy" =>
        /\ encoder[i].from.kind = "chunk" => encoder[i].src + encoder[i].len <= ChunkSize
        /\ \A h \in DOMAIN buffers.buffers :
             encoder[i].to.id = buffers.buffers[h].buffer =>
               encoder[i].dst + encoder[i].len <= buffers.buffers[h].size

\* Although draws are sorted by brush and transform, blended calls come to the depth test in
\* their order (what it leaves of them is BlendedVisible's question), and of calls that are
\* not blended the latest is what is seen.
PaintersOrder == BlendedInOrder /\ LatestOnTop

\* The staging chunks, the buffers they are copied to and the handles to those are neither
\* lost nor used twice nor too short, over frames that come and go.
BuffersKept == TypeOK /\ ChunksOwned /\ HandlesLive /\ CopiesFit
=============================================================================

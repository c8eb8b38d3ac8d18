------------------------------ MODULE Weights -------------------------------
(***************************************************************************)
(* Where a weight is: in the checkpoint (memory_map_weights of             *)
(* src/src/run.cpp), in the three buffers of a device after upload_weights *)
(* (src/src/getp/transformer.cpp), and where the kernels look for it.      *)
(*                                                                         *)
(* An address counts elements.  The model sizes are a record c: vocab V,   *)
(* hidden_dim H, n_experts E, intermediate_dim I, n_layers L, length QKV   *)
(* of a row of q, k and v together, length AO of a row of w_o (head_dim *  *)
(* n_attn_heads), n_attn_heads NA, GETP_AO_PADW PadW, and of the device    *)
(* expert_start and expert_end.                                            *)
(***************************************************************************)
EXTENDS Integers, SequencesExt

(* sizeof(Config) / sizeof(float): the checkpoint starts with 15 fields. *)
Header == 15

(* The layers of a tensor, the rows of a layer, or of one expert's part of *)
(* it, and their length.                                                   *)
Shape(c, tensor) ==
  CASE tensor \in {"embedding", "out"}     -> <<1, c.V, c.H>>
    [] tensor \in {"rms_attn", "rms_ffn"}  -> <<c.L, 1, c.H>>
    [] tensor = "rms_out"                  -> <<1, 1, c.H>>
    [] tensor = "w_qkv"                    -> <<c.L, c.QKV, c.H>>
    [] tensor = "b_qkv"                    -> <<c.L, 1, c.QKV>>
    [] tensor = "w_o"                      -> <<c.L, c.H, c.AO>>
    [] tensor = "b_o"                      -> <<c.L, 1, c.H>>
    [] tensor = "attn_sinks"               -> <<c.L, 1, c.NA>>
    [] tensor = "w_router"                 -> <<c.L, c.E, c.H>>
    [] tensor = "b_router"                 -> <<c.L, 1, c.E>>
    [] tensor = "w_mlp1"                   -> <<c.L, 2 * c.I, c.H>>
    [] tensor = "b_mlp1"                   -> <<c.L, 1, 2 * c.I>>
    [] tensor = "w_mlp2"                   -> <<c.L, c.H, c.I>>
    [] tensor = "b_mlp2"                   -> <<c.L, 1, c.H>>
TensorLayers(c, tensor) == Shape(c, tensor)[1]
Part(c, tensor) == Shape(c, tensor)[2] * Shape(c, tensor)[3]

PerExpert == {"w_mlp1", "b_mlp1", "w_mlp2", "b_mlp2"}

(* memory_map_weights: the order of the checkpoint. *)
Checkpoint ==
  <<"embedding", "out", "rms_attn", "rms_ffn", "rms_out", "w_qkv", "b_qkv", "w_o",
    "b_o", "attn_sinks", "w_router", "b_router", "w_mlp1", "b_mlp1", "w_mlp2", "b_mlp2">>

(* upload_weights: the buffers dev_data (fp32), dev_linear_bf16 and        *)
(* dev_experts.                                                            *)
Buffers == [data    |-> <<"rms_attn", "rms_ffn", "rms_out", "attn_sinks">>,
            linear  |-> <<"embedding", "w_qkv", "b_qkv", "w_o", "b_o", "w_router",
                          "b_router", "out">>,
            experts |-> <<"w_mlp1", "b_mlp1", "w_mlp2", "b_mlp2">>]

ExpertsPerDevice(c) == c.expert_end - c.expert_start

FileSize(c, tensor) ==
  TensorLayers(c, tensor) * (IF tensor \in PerExpert THEN c.E ELSE 1) * Part(c, tensor)

(* On the device a row of w_o is PadW elements longer, and a tensor of the *)
(* experts has those of the device only.                                   *)
Pitch(c, tensor) == Shape(c, tensor)[3] + (IF tensor = "w_o" THEN c.PadW ELSE 0)
DeviceSize(c, tensor) ==
  CASE tensor = "w_o"        -> c.L * c.H * Pitch(c, tensor)
    [] tensor \in PerExpert  -> c.L * ExpertsPerDevice(c) * Part(c, tensor)
    [] OTHER                 -> FileSize(c, tensor)

(* The tensor's place among those laid out one after the other. *)
Before(order, tensor) ==
  {i \in DOMAIN order : \E j \in DOMAIN order : order[j] = tensor /\ i < j}
FileStart(c, tensor) ==
  Header + SumFunctionOnSet([i \in DOMAIN Checkpoint |-> FileSize(c, Checkpoint[i])],
                            Before(Checkpoint, tensor))
DeviceStart(c, order, tensor) ==
  SumFunctionOnSet([i \in DOMAIN order |-> DeviceSize(c, order[i])], Before(order, tensor))
Allocated(c, order) ==
  SumFunctionOnSet([i \in DOMAIN order |-> DeviceSize(c, order[i])], DOMAIN order)

(* getp_memcpy_fp32_to_bf16 copies one row of n elements; its pitched      *)
(* variant copies rows to a pitch of their own.                            *)
CopyOf(to, from, rows, width, pitch) ==
  [to |-> to, from |-> from, rows |-> rows, width |-> width, pitch |-> pitch]

(* Mutant: the slice of the experts starts at the first expert. *)
ExpertSlicesFromZero(c, tensor, start) ==
  {CopyOf(start + l * ExpertsPerDevice(c) * Part(c, tensor),
          FileStart(c, tensor) + l * c.E * Part(c, tensor),
          1, ExpertsPerDevice(c) * Part(c, tensor), 0) : l \in 0 .. c.L - 1}

(* The loops over the layers: of each, the slice of the device's experts. *)
ExpertSlices(c, tensor, start) ==
  {CopyOf(start + l * ExpertsPerDevice(c) * Part(c, tensor),
          FileStart(c, tensor) + l * c.E * Part(c, tensor)
            + c.expert_start * Part(c, tensor),
          1, ExpertsPerDevice(c) * Part(c, tensor), 0) : l \in 0 .. c.L - 1}

Copies(c, order, tensor) ==
  LET start == DeviceStart(c, order, tensor)
  IN  CASE tensor = "w_o" -> {CopyOf(start, FileStart(c, tensor), c.L * c.H, c.AO, Pitch(c, tensor))}
        [] tensor \in PerExpert -> ExpertSlices(c, tensor, start)
        [] OTHER -> {CopyOf(start, FileStart(c, tensor), 1, FileSize(c, tensor), 0)}

(* upload_weights: what has been copied to each address of a buffer. *)
Uploaded(c, order) ==
  UNION {{<<copy.to + row * copy.pitch + k, copy.from + row * copy.width + k>> :
            row \in 0 .. copy.rows - 1, k \in 0 .. copy.width - 1} :
         copy \in UNION {Copies(c, order, order[i]) : i \in DOMAIN order}}
-----------------------------------------------------------------------------
(* The address at which the kernels of layer l read column k of row r of a *)
(* tensor (of its local expert e).                                         *)
ReadAt(c, order, tensor, l, e, r, k) ==
  LET rows == Shape(c, tensor)[2]
      base == IF tensor \in PerExpert THEN (l * ExpertsPerDevice(c) + e) * rows ELSE l * rows
  IN  DeviceStart(c, order, tensor) + (base + r) * Pitch(c, tensor) + k

(* Where the checkpoint has it. *)
InFile(c, tensor, l, e, r, k) ==
  LET rows == Shape(c, tensor)[2]
      base == IF tensor \in PerExpert THEN (l * c.E + c.expert_start + e) * rows ELSE l * rows
  IN  FileStart(c, tensor) + (base + r) * Shape(c, tensor)[3] + k

Cells(c, tensor) ==
  (0 .. TensorLayers(c, tensor) - 1)
    \X (0 .. (IF tensor \in PerExpert THEN ExpertsPerDevice(c) ELSE 1) - 1)
    \X (0 .. Shape(c, tensor)[2] - 1) \X (0 .. Shape(c, tensor)[3] - 1)
=============================================================================

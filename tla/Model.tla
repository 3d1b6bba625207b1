------------------------------- MODULE Model -------------------------------
(***************************************************************************)
(* The tensors of a model file: the size and the rows of each (TensorRows),*)
(* the conversion that each F16 element goes through on the way            *)
(* (HalfFloat), and which of them a model needs (Qwen2Model).              *)
(***************************************************************************)
EXTENDS TensorRows

CONSTANTS Halves,   \* 16-bit patterns that an element may have
          UInt32Max, Metadata, Tables(_), BlockSize   \* see Qwen2Model
ASSUME HalvesAssumption == Halves \subseteq 0 .. 2^16 - 1

VARIABLES half_pc, half_bits, exponent, mantissa, float,
          model_pc, metadata, table, config, layer

element == <<half_pc, half_bits, exponent, mantissa, float>>
model   == <<model_pc, metadata, table, config, layer>>
all     == <<vars, element, model>>

H == INSTANCE HalfFloat WITH pc <- half_pc
M == INSTANCE Qwen2Model WITH pc <- model_pc

ASSUME ModelAssumption == M!FilesAccepted

\* All elements are converted alike: the one of a tensor of one stands for them.
ConvertElement ==
  /\ pc = "row" /\ type = "F16" /\ dims = <<1>> /\ half_pc = "idle"
  /\ \E half \in Halves : H!Convert(half)

ReadTensor  == model_pc = "closed" /\ Step /\ UNCHANGED <<element, model>>
ConvertHalf == (ConvertElement \/ H!Step) /\ UNCHANGED <<vars, model>>

\* A model is made of tensors that have been loaded: the shortest one stands for them.
LoadAndRun == /\ pc = "loaded" /\ type = "F32" /\ dims = <<1>>
              /\ M!Step /\ UNCHANGED <<vars, element>>

Ended == /\ pc \in {"loaded", "refused", "multiplied", "row"}
         /\ half_pc \in {"idle", "done"}
         /\ model_pc \in {"closed", "refused", "failed", "done"}
         /\ UNCHANGED all

ModelInit == Init /\ H!Init /\ M!Init
Next == ReadTensor \/ ConvertHalf \/ LoadAndRun \/ Ended
Spec == ModelInit /\ [][Next]_all
-----------------------------------------------------------------------------
\* An element has the value its bits stand for (dequant.c:29-50).
SameValue == H!SameValue

\* No tensor check of a pass fails on a model that loaded (model.c:121-175 against
\* 299-372, 488-575).
LoadedModelRuns == M!LoadedModelRuns

\* The sizes a pass computes with fit each other (model.c:84-92, 121-125).
DimensionsAgree == M!DimensionsAgree
=============================================================================

------------------------------ MODULE ModelFiles ----------------------------
(***************************************************************************)
(* The order in which the functions X_save and X_load of nn/layer.c,         *)
(* nn/activation.c and tensor/tensor.c write the fields of a structure to a   *)
(* file and read them back.  The two are written separately in the code, and *)
(* so they are here: nothing in the file says which field it holds.           *)
(***************************************************************************)
EXTENDS Constructors

(* A field of a fixed size, the bytes a field points to, a tensor or NULL,    *)
(* and another structure.                                                    *)
Value(field) == [how |-> "value", field |-> field, kind |-> "none"]
Bytes(field) == [how |-> "bytes", field |-> field, kind |-> "memory"]
Tensor(field) == [how |-> "tensor", field |-> field, kind |-> "tensor"]
Structure(field, kind) == [how |-> "structure", field |-> field, kind |-> kind]

(* The tensor's elements, after the flag that says that it is not NULL.       *)
tensor_save == <<Value("elements"), Value("requires_gradient"), Value("persist")>>
tensor_load == <<Value("elements"), Value("requires_gradient"), Value("persist")>>

linear_save == <<Tensor("weights"), Tensor("bias")>>
linear_load == <<Tensor("weights"), Tensor("bias")>>

convolution_2d_save == <<Tensor("kernel"), Tensor("bias"), Value("padding"), Value("stride")>>
(* Mutant: stride and padding in the other order. *)
ConvolutionLoadStrideFirst ==
  <<Tensor("kernel"), Tensor("bias"), Value("stride"), Value("padding")>>

convolution_2d_load == <<Tensor("kernel"), Tensor("bias"), Value("padding"), Value("stride")>>

pooling_2d_save == <<Value("kernel"), Value("padding"), Value("stride")>>
pooling_2d_load == <<Value("kernel"), Value("padding"), Value("stride")>>

dropout_save == <<Value("datatype"), Bytes("probability"), Value("inference")>>
dropout_load == <<Value("datatype"), Bytes("probability"), Value("inference")>>

batch_normalization_2d_save ==
  <<Value("datatype"), Value("track_running_stats"), Value("inference"), Bytes("momentum"),
    Bytes("epsilon"), Tensor("weights"), Tensor("bias"), Tensor("running_mean"),
    Tensor("running_variance")>>
batch_normalization_2d_load ==
  <<Value("datatype"), Value("track_running_stats"), Value("inference"), Bytes("momentum"),
    Bytes("epsilon"), Tensor("weights"), Tensor("bias"), Tensor("running_mean"),
    Tensor("running_variance")>>

layer_normalization_save ==
  <<Value("datatype"), Bytes("epsilon"), Value("length"), Bytes("normalized_shape"), Tensor("weights"),
    Tensor("bias")>>
layer_normalization_load ==
  <<Value("datatype"), Bytes("epsilon"), Value("length"), Bytes("normalized_shape"), Tensor("weights"),
    Tensor("bias")>>

reshape_save == <<Value("length"), Bytes("shape")>>
reshape_load == <<Value("length"), Bytes("shape")>>

embedding_save ==
  <<Value("vocabulary_size"), Value("embedding_size"), Tensor("vocabulary_counter"), Tensor("weights")>>
embedding_load ==
  <<Value("vocabulary_size"), Value("embedding_size"), Tensor("vocabulary_counter"), Tensor("weights")>>

transformer_embedding_save ==
  <<Structure("token_embedding", "embedding"), Structure("position_embedding", "embedding")>>
transformer_embedding_load ==
  <<Structure("token_embedding", "embedding"), Structure("position_embedding", "embedding")>>

causal_multihead_self_attention_save ==
  <<Value("datatype"), Bytes("dropout_probability"), Value("embedding_size"), Value("number_of_heads"),
    Value("inference"), Tensor("input_weights"), Tensor("input_bias"), Tensor("output_weights"),
    Tensor("output_bias")>>
causal_multihead_self_attention_load ==
  <<Value("datatype"), Bytes("dropout_probability"), Value("embedding_size"), Value("number_of_heads"),
    Value("inference"), Tensor("input_weights"), Tensor("input_bias"), Tensor("output_weights"),
    Tensor("output_bias")>>

softmax_save == <<Value("axis")>>
softmax_load == <<Value("axis")>>

leaky_rectified_linear_save == <<Value("datatype"), Bytes("c")>>
leaky_rectified_linear_load == <<Value("datatype"), Bytes("c")>>

(* A type, then the member of a union that it selects.                        *)
layer_save == <<Value("transform_type"), Structure("transform", "transform")>>
layer_load == <<Value("transform_type"), Structure("transform", "transform")>>

activation_save ==
  <<Value("activation_function_type"), Structure("activation_function", "activation_function")>>
activation_load ==
  <<Value("activation_function_type"), Structure("activation_function", "activation_function")>>

(* The number of layers, then each.                                           *)
block_save == <<Value("depth"), Structure("layers", "layers")>>
block_load == <<Value("depth"), Structure("layers", "layers")>>

model_save == <<Structure("block", "block")>>
model_load == <<Structure("block", "block")>>

Orders(kind) ==
  CASE kind = "tensor" -> [save |-> tensor_save, load |-> tensor_load]
    [] kind = "memory" -> [save |-> <<Value("bytes")>>, load |-> <<Value("bytes")>>]
    [] kind = "linear" -> [save |-> linear_save, load |-> linear_load]
    [] kind = "convolution_2d" -> [save |-> convolution_2d_save, load |-> convolution_2d_load]
    [] kind = "pooling_2d" -> [save |-> pooling_2d_save, load |-> pooling_2d_load]
    [] kind = "dropout" -> [save |-> dropout_save, load |-> dropout_load]
    [] kind = "batch_normalization_2d" ->
         [save |-> batch_normalization_2d_save, load |-> batch_normalization_2d_load]
    [] kind = "layer_normalization" -> [save |-> layer_normalization_save, load |-> layer_normalization_load]
    [] kind = "reshape" -> [save |-> reshape_save, load |-> reshape_load]
    [] kind = "embedding" -> [save |-> embedding_save, load |-> embedding_load]
    [] kind = "transformer_embedding" ->
         [save |-> transformer_embedding_save, load |-> transformer_embedding_load]
    [] kind = "causal_multihead_self_attention" ->
         [save |-> causal_multihead_self_attention_save, load |-> causal_multihead_self_attention_load]
    [] kind = "softmax" -> [save |-> softmax_save, load |-> softmax_load]
    [] kind = "leaky_rectified_linear" ->
         [save |-> leaky_rectified_linear_save, load |-> leaky_rectified_linear_load]
    [] kind = "layer" -> [save |-> layer_save, load |-> layer_load]
    [] kind = "activation" -> [save |-> activation_save, load |-> activation_load]
    [] kind = "block" -> [save |-> block_save, load |-> block_load]
    [] kind = "model" -> [save |-> model_save, load |-> model_load]
    [] OTHER -> [save |-> <<>>, load |-> <<>>]

(* The members of a structure that are not pointers, as its type declares     *)
(* them; of a tensor those that belong to a model, and the elements of its     *)
(* buffer.  Only the structures that are saved need any.                      *)
ValuesOf(kind) ==
  CASE kind = "tensor" -> {"elements", "requires_gradient", "persist"}
    [] kind = "memory" -> {"bytes"}
    [] kind = "convolution_2d" -> {"padding", "stride"}
    [] kind = "pooling_2d" -> {"padding", "stride", "kernel"}
    [] kind = "dropout" -> {"datatype", "inference"}
    [] kind = "batch_normalization_2d" -> {"track_running_stats", "inference", "datatype"}
    [] kind = "layer_normalization" -> {"length", "datatype"}
    [] kind = "reshape" -> {"length"}
    [] kind = "embedding" -> {"vocabulary_size", "embedding_size"}
    [] kind = "causal_multihead_self_attention" ->
         {"number_of_heads", "embedding_size", "inference", "datatype"}
    [] kind = "softmax" -> {"axis"}
    [] kind = "leaky_rectified_linear" -> {"datatype"}
    [] kind = "layer" -> {"transform_type"}
    [] kind = "activation" -> {"activation_function_type"}
    [] kind = "block" -> {"depth"}
    [] OTHER -> {}
=============================================================================

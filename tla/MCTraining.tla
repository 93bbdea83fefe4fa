---- MODULE MCTraining ----
(* A network like those of the examples: layers of every type that has         *)
(* parameters or a flag, some in a block, some in a residual block.            *)
EXTENDS Training

Layer(type, name) == [type |-> type, name |-> name]

Network ==
  [model |-> <<Layer("CONVOLUTION_2D", "convolution"),
               [type |-> "BLOCK", block |-> "inner"],
               Layer("DROPOUT", "dropout"),
               [type |-> "RESIDUAL_BLOCK", block |-> "residual"],
               Layer("LINEAR", "output"),
               Layer("ACTIVATION", "softmax")>>,
   inner |-> <<Layer("EMBEDDING", "embedding"),
               Layer("BATCH_NORMALIZATION_2D", "batch_normalization"),
               Layer("ACTIVATION", "relu")>>,
   residual |-> <<Layer("LAYER_NORMALIZATION", "layer_normalization"),
                  Layer("CAUSAL_MULTIHEAD_SELF_ATTENTION", "attention"),
                  Layer("TRANSFORMER_EMBEDDING", "transformer_embedding")>>]
====

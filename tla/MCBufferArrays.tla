--------------------------- MODULE MCBufferArrays --------------------------
(* Shapes for BufferArrays with different sizes, with dimensions of size one, *)
(* with batches of matrices and with a size to be inferred.                    *)
EXTENDS BufferArrays

Created == {<<2, 3>>, <<2, 1>>, <<2, 1, 2>>}
Reached == {<<2, 2, 3>>, <<2, 2, 2>>, <<2, 2>>, <<3, 2>>, <<-1, 1>>}
=============================================================================

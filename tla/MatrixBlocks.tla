----------------------------- MODULE MatrixBlocks -----------------------------
(* A product A x B^T of stacked matrices is cut into blocks; a device gets    *)
(* the rows of A and of B that a block needs, as a slice of memory each, and   *)
(* sends the products back; the server copies each into the output.  Memory  *)
(* is counted in rows of the common dimension (operands) and in elements     *)
(* (output), and an element is the pair of rows it was computed from.        *)
EXTENDS Integers, FiniteSets, FiniteSetsExt

CONSTANTS
  Dims,        \* sizes of the last two dimensions of A and B
  BlockSizes,
  Stacks,      \* products of the leading dimensions
  MaxElements  \* bound on the size of the output

VARIABLES shape, blocks, outputs

blockVars == <<shape, blocks, outputs>>

Nan == <<>>
CeilDiv(n, d) == n \div d + (IF n % d # 0 THEN 1 ELSE 0)
Least(x, y) == IF x < y THEN x ELSE y

(* A has in rows per matrix, B has out; stack_b says that B is stacked too.   *)
Shapes ==
  {s \in [in : Dims, out : Dims, stack : Stacks, stack_b : BOOLEAN, block_size : BlockSizes] :
     s.in * s.out * s.stack <= MaxElements}

BlocksInit == shape \in Shapes /\ blocks = {} /\ outputs = Nan

(* Mutant: the first row of B also moves when B is one matrix.                *)
FirstColStacked(c, pivot) == c * shape.block_size + pivot * shape.out
FirstCol(c, pivot) == c * shape.block_size + (IF shape.stack_b THEN pivot ELSE 0) * shape.out

CalculateMatrixPartition(r, c, pivot) ==
  [row |-> r, col |-> c, pivot |-> pivot,
   a_row |-> r * shape.block_size + pivot * shape.in,
   a_rows |-> Least(shape.block_size, shape.in - r * shape.block_size),
   b_row |-> FirstCol(c, pivot),
   b_rows |-> Least(shape.block_size, shape.out - c * shape.block_size)]

PartitionMatrices ==
  {CalculateMatrixPartition(r, c, pivot) :
     r \in 0..(CeilDiv(shape.in, shape.block_size) - 1),
     c \in 0..(CeilDiv(shape.out, shape.block_size) - 1),
     pivot \in 0..(shape.stack - 1)}

(* Nothing is dispatched when there are no blocks.                            *)
DispatchMatMul ==
  /\ outputs = Nan /\ PartitionMatrices # {}
  /\ blocks' = PartitionMatrices
  /\ outputs' = [x \in 0..(shape.in * shape.out * shape.stack - 1) |-> Nan]
  /\ UNCHANGED shape

(* What the device sends: the product by rows, and the length of a row.       *)
Response(b) ==
  [h_dim |-> b.b_rows,
   data |-> [x \in 0..(b.a_rows * b.b_rows - 1) |->
               <<b.a_row + x \div b.b_rows, b.b_row + (x % b.b_rows)>>]]

(* The rows of the block are copied to places one output row apart.           *)
IndexPutMatrixBlock(b, rsp) ==
  LET rows == Cardinality(DOMAIN rsp.data) \div rsp.h_dim
      target == b.pivot * shape.in * shape.out + b.row * shape.block_size * shape.out
                + b.col * shape.block_size
  IN [x \in DOMAIN outputs |->
        IF \E i \in 0..(rows - 1) : x - target - i * shape.out \in 0..(rsp.h_dim - 1)
        THEN LET i == CHOOSE i \in 0..(rows - 1) : x - target - i * shape.out \in 0..(rsp.h_dim - 1)
             IN rsp.data[i * rsp.h_dim + x - target - i * shape.out]
        ELSE outputs[x]]

(* Answers come in any order.                                                 *)
WriteResultBlock(b) ==
  /\ blocks' = blocks \ {b}
  /\ outputs' = IndexPutMatrixBlock(b, Response(b))
  /\ UNCHANGED shape

BlocksNext == DispatchMatMul \/ \E b \in blocks : WriteResultBlock(b)

(* The product is complete and right when the last block is written, whatever *)
(* the order, the edge blocks and the stacking: each element comes from its    *)
(* own rows of A and B, and each is written by one block only                  *)
(* (PartitionMatrices, CalculateMatrixPartition, IndexPutMatrixBlock).         *)
ProductIsExact ==
  outputs # Nan =>
    LET written == {x \in DOMAIN outputs : outputs[x] # Nan}
        matrix(x) == x \div (shape.in * shape.out)
        line(x) == x \div shape.out
        place(x) == (x % shape.out) + (IF shape.stack_b THEN matrix(x) * shape.out ELSE 0)
    IN /\ \A x \in written : outputs[x] = <<line(x), place(x)>>
       /\ Cardinality(written) + MapThenSumSet(LAMBDA b : b.a_rows * b.b_rows, blocks)
            = Cardinality(DOMAIN outputs)
===============================================================================

-------------------------- MODULE FnCASNodeProofs --------------------------
(***************************************************************************)
(* Proofs about FnCASNode for every value of its constants.                *)
(*                                                                         *)
(* TypeOK is not inductive by itself: eval_node's first visit reads        *)
(* node_vector_[i] for the index i it pops, and pushes that node's         *)
(* operands, so the shape of the stack depends on every stacked index      *)
(* naming a node of the store, and on every operand naming an earlier      *)
(* node.  IInv adds exactly these facts.                                   *)
(***************************************************************************)
EXTENDS FnCASNode, SequenceTheorems, TLAPS

\* Outside a call of eval_node the explicit stack is empty.
IdleEmpty == pc = "idle" => stack = <<>>

\* The entries eval_node's stack may hold: a first visit i and a marker ~i
\* of a node of the store.
StackEntries ==
    {e \in Int : /\ e >= 0 => e \in Indices
                 /\ e < 0 => -e - 1 \in Indices}

\* Every index on eval_node's stack names a node of the store.
StackInRange == stack \in Seq(StackEntries)

IInv == TypeOK /\ OperandsPrecede /\ IdleEmpty /\ StackInRange

\* Node o has been computed: B[o] is set and V[o] is there to read.
Done(o) ==
    o < Len(node_computed) /\ node_computed[o + 1] = TRUE /\ o < Len(node_value)

\* Node o is still to be computed by an entry above position p of the
\* stack: its first visit o, or its second visit ~o.
Pending(o, p) == \E q \in p + 1 .. Len(stack) : stack[q] \in {o, Post(o)}

\* B is only set together with V: every flagged node has a value slot.
ComputedHasValue ==
    \A i \in 0 .. Len(node_computed) - 1 :
        node_computed[i + 1] = TRUE => i < Len(node_value)

\* Below every marker ~d, each operand of d is computed, or will be by an
\* entry above the marker: eval_node pushes ~d first and the operands on
\* top of it, and an operand leaves the stack only once it is computed
\* or replaced by its own marker.
MarkersCovered ==
    \A p \in 1 .. Len(stack) :
        stack[p] < 0 =>
            \A o \in Operands(Node(-stack[p] - 1)) : Done(o) \/ Pending(o, p)

\* The root of the running call is computed, or still has an entry, its
\* first visit or its marker, on the stack.
RootCovered ==
    pc = "eval" => call.root \in Nat /\ (Done(call.root) \/ Pending(call.root, 0))

(***************************************************************************)
(* The inductive invariant behind PostVisitReady and ReturnReadsComputed:  *)
(* IInv, with B set only where V has a slot, every marker covered, and the *)
(* root covered.                                                           *)
(***************************************************************************)
PInv == IInv /\ ComputedHasValue /\ MarkersCovered /\ RootCovered

-----------------------------------------------------------------------------
(* Lemmas on the vector and stack helpers.                                 *)

\* growing_vector_access keeps a vector a vector, of length max(len, i+1).
LEMMA GrowType ==
    ASSUME NEW S, NEW v \in Seq(S), NEW i \in Nat, NEW d \in S
    PROVE  /\ Grow(v, i, d) \in Seq(S)
           /\ Len(Grow(v, i, d)) = IF i < Len(v) THEN Len(v) ELSE i + 1
BY DEF Grow

\* Growing, then writing index i, keeps a vector a vector.
LEMMA GrowSetType ==
    ASSUME NEW S, NEW v \in Seq(S), NEW i \in Nat, NEW d \in S, NEW x \in S
    PROVE  /\ GrowSet(v, i, d, x) \in Seq(S)
           /\ Len(GrowSet(v, i, d, x)) = IF i < Len(v) THEN Len(v) ELSE i + 1
BY DEF GrowSet, Grow

\* The same for node_value_, whose elements have no type.
LEMMA GrowSetDomain ==
    ASSUME NEW v, DOMAIN v = 1 .. Len(v), NEW i \in Nat, NEW d, NEW x
    PROVE  LET w == GrowSet(v, i, d, x) IN DOMAIN w = 1 .. Len(w)
BY DEF GrowSet, Grow

\* std::stack::pop on a nonempty stack.
LEMMA PopType ==
    ASSUME NEW S, NEW s \in Seq(S), s # <<>>
    PROVE  /\ Pop(s) \in Seq(S)
           /\ Len(Pop(s)) = Len(s) - 1
           /\ \A k \in 1 .. Len(s) - 1 : Pop(s)[k] = s[k]
           /\ Top(s) \in S
<1>1. Len(s) \in Nat /\ 1 <= Len(s) /\ Len(s) - 1 \in Nat
  OBVIOUS
<1>2. DOMAIN Pop(s) = 1 .. Len(s) - 1
  BY <1>1 DEF Pop
<1>3. Pop(s) \in Seq(S)
  BY DEF Pop
<1>4. \A k \in 1 .. Len(s) - 1 : Pop(s)[k] = s[k]
  BY DEF Pop
<1>5. Top(s) \in S
  BY <1>1 DEF Top
<1>6. QED
  BY <1>1, <1>2, <1>3, <1>4, <1>5, LenProperties

\* growing_vector_access keeps the elements there and fills with d.
LEMMA GrowAt ==
    ASSUME NEW S, NEW v \in Seq(S), NEW i \in Nat, NEW d
    PROVE  /\ Len(Grow(v, i, d)) = IF i < Len(v) THEN Len(v) ELSE i + 1
           /\ DOMAIN Grow(v, i, d) = 1 .. Len(Grow(v, i, d))
           /\ \A k \in 1 .. Len(v) : Grow(v, i, d)[k] = v[k]
           /\ \A k \in Len(v) + 1 .. Len(Grow(v, i, d)) : Grow(v, i, d)[k] = d
BY DEF Grow

\* Writing index i after growing changes element i + 1 alone.
LEMMA GrowSetAt ==
    ASSUME NEW S, NEW v \in Seq(S), NEW i \in Nat, NEW d, NEW x
    PROVE  /\ Len(GrowSet(v, i, d, x)) = IF i < Len(v) THEN Len(v) ELSE i + 1
           /\ GrowSet(v, i, d, x)[i + 1] = x
           /\ \A k \in 1 .. Len(GrowSet(v, i, d, x)) \ {i + 1} :
                  GrowSet(v, i, d, x)[k] = Grow(v, i, d)[k]
<1> DEFINE g == Grow(v, i, d)
<1>1. /\ Len(g) = IF i < Len(v) THEN Len(v) ELSE i + 1
      /\ DOMAIN g = 1 .. Len(g)
  BY DEF Grow
<1>2. Len(v) \in Nat /\ i + 1 \in 1 .. Len(g)
  BY <1>1, LenProperties
<1>3. GrowSet(v, i, d, x) = [g EXCEPT ![i + 1] = x]
  BY DEF GrowSet
<1>4. Len([g EXCEPT ![i + 1] = x]) = Len(g)
  BY <1>1, <1>2
<1> QED
  BY <1>1, <1>2, <1>3, <1>4

\* The length of node_value_ after a write of V[i].
LEMMA GrowSetLen ==
    ASSUME NEW v, DOMAIN v = 1 .. Len(v), NEW i \in Nat, NEW d, NEW x
    PROVE  /\ Len(GrowSet(v, i, d, x)) >= Len(v)
           /\ i < Len(GrowSet(v, i, d, x))
BY DEF GrowSet, Grow

\* A recorded node's operands are natural numbers.
LEMMA OperandsNat ==
    ASSUME NEW n \in NodeT
    PROVE  Operands(n) \subseteq Nat
BY DEF NodeT, Operands, BlankNode

-----------------------------------------------------------------------------
(* The initial state: an empty, unclaimed store.                           *)

LEMMA InitIInv == Init => IInv
<1> SUFFICES ASSUME Init PROVE IInv
  OBVIOUS
<1>1. TypeOK
  <2>1. node_vector \in Seq(NodeT) /\ node_computed \in Seq(BOOLEAN)
        /\ stack \in Seq(Int) /\ DOMAIN node_value = 1 .. Len(node_value)
    BY DEF Init
  <2>2. memo \in MemoT /\ ret \in Outcome
    BY DEF Init, MemoT, Outcome
  <2>3. QED
    BY <2>1, <2>2 DEF Init, TypeOK
<1>2. OperandsPrecede /\ IdleEmpty /\ StackInRange
  BY DEF Init, OperandsPrecede, Indices, IdleEmpty, StackInRange
<1>3. QED
  BY <1>1, <1>2 DEF IInv

-----------------------------------------------------------------------------
(* Recording: the steps of user code between eval_node calls.              *)

\* Appending nodes whose operands name earlier nodes keeps IInv: this is
\* node_index_allocator(allocate_new) under every constructor.
LEMMA AllocateIInv ==
    ASSUME IInv, NEW nodes \in Seq(NodeT),
           \A j \in 1 .. Len(nodes) :
               \A o \in Operands(nodes[j]) : o < Len(node_vector) + j - 1,
           Recording, Allocate(nodes), ConstructUnchanged
    PROVE  IInv'
<1> USE DEF IInv
<1>1. node_vector' \in Seq(NodeT) /\ Len(node_vector') = Len(node_vector) + Len(nodes)
  BY DEF Allocate, TypeOK
<1>2. stack = <<>> /\ stack' = <<>> /\ pc' = "idle"
  BY DEF Recording, UserStep, IdleEmpty, ConstructUnchanged
<1>3. TypeOK'
  BY <1>1, <1>2 DEF TypeOK, Allocate, ConstructUnchanged
<1>4. OperandsPrecede'
  <2> SUFFICES ASSUME NEW i \in Indices', NEW o \in Operands(Node(i)')
               PROVE  o < i
    BY DEF OperandsPrecede
  <2>1. CASE i < Len(node_vector)
    <3>1. Node(i)' = Node(i) /\ i \in Indices
      BY <2>1, <1>1 DEF Node, Allocate, Indices, TypeOK
    <3>2. QED
      BY <3>1 DEF OperandsPrecede
  <2>2. CASE i >= Len(node_vector)
    <3> DEFINE j == i - Len(node_vector) + 1
    <3>1. j \in 1 .. Len(nodes) /\ Node(i)' = nodes[j]
      BY <2>2, <1>1 DEF Node, Allocate, Indices, TypeOK
    <3>2. o < Len(node_vector) + j - 1
      BY <3>1
    <3>3. QED
      BY <3>2, <1>1 DEF TypeOK, Indices
  <2>3. QED
    BY <2>1, <2>2, <1>1 DEF Indices, TypeOK
<1>5. IdleEmpty' /\ StackInRange'
  BY <1>2 DEF IdleEmpty, StackInRange
<1>6. QED
  BY <1>3, <1>4, <1>5

\* With no stale V handles, every operand user code names is a node.
LEMMA HandlesInStore ==
    ASSUME StaleOperands = FALSE
    PROVE  Handles \subseteq Indices
BY DEF Handles

\* V(double).
LEMMA ConstructValueIInv ==
    ASSUME IInv, NEW c \in Consts, ConstructValue(c)
    PROVE  IInv'
<1>1. <<ValueNode(c)>> \in Seq(NodeT)
  BY DEF ValueNode, NodeT
<1>2. Operands(ValueNode(c)) = {}
  BY DEF ValueNode, Operands
<1>3. \A j \in 1 .. Len(<<ValueNode(c)>>) :
          \A o \in Operands(<<ValueNode(c)>>[j]) : o < Len(node_vector) + j - 1
  BY <1>2
<1>4. QED
  BY <1>1, <1>3, AllocateIInv DEF ConstructValue

\* lhs OP rhs.
LEMMA ConstructOperationIInv ==
    ASSUME StaleOperands = FALSE, IInv,
           NEW op \in Ops, NEW l \in Handles, NEW r \in Handles,
           ConstructOperation(op, l, r)
    PROVE  IInv'
<1>1. l \in Indices /\ r \in Indices
  BY HandlesInStore
<1>2. <<OperationNode(op, l, r)>> \in Seq(NodeT)
  BY <1>1 DEF OperationNode, NodeT, Indices
<1>3. Operands(OperationNode(op, l, r)) = {l, r}
  BY DEF OperationNode, Operands
<1>4. \A j \in 1 .. Len(<<OperationNode(op, l, r)>>) :
          \A o \in Operands(<<OperationNode(op, l, r)>>[j]) : o < Len(node_vector) + j - 1
  BY <1>1, <1>3 DEF Indices
<1>5. QED
  BY <1>2, <1>4, AllocateIInv DEF ConstructOperation

\* F(argument).
LEMMA ConstructFunctionIInv ==
    ASSUME StaleOperands = FALSE, IInv,
           NEW f \in Funcs, NEW a \in Handles, ConstructFunction(f, a)
    PROVE  IInv'
<1>1. a \in Indices
  BY HandlesInStore
<1>2. <<FunctionNode(f, a)>> \in Seq(NodeT)
  BY <1>1 DEF FunctionNode, NodeT, Indices
<1>3. Operands(FunctionNode(f, a)) = {a}
  BY DEF FunctionNode, Operands
<1>4. \A j \in 1 .. Len(<<FunctionNode(f, a)>>) :
          \A o \in Operands(<<FunctionNode(f, a)>>[j]) : o < Len(node_vector) + j - 1
  BY <1>1, <1>3 DEF Indices
<1>5. QED
  BY <1>2, <1>4, AllocateIInv DEF ConstructFunction

\* -x: the value node 0, then `0 - x` naming it.
LEMMA ConstructNegateIInv ==
    ASSUME StaleOperands = FALSE, IInv, NEW a \in Handles, ConstructNegate(a)
    PROVE  IInv'
<1> DEFINE nodes == <<ValueNode(0), OperationNode("subtract", Len(node_vector), a)>>
<1>0. a \in Indices
  BY HandlesInStore
<1>1. a \in Indices /\ Len(node_vector) \in Nat
  BY <1>0 DEF IInv, TypeOK
<1>2. nodes \in Seq(NodeT)
  BY <1>1, ConstsAssumption, OpsAssumption DEF ValueNode, OperationNode, NodeT, Indices
<1>3. /\ Operands(nodes[1]) = {}
      /\ Operands(nodes[2]) = {Len(node_vector), a}
  BY DEF ValueNode, OperationNode, Operands
<1>4. \A j \in 1 .. Len(nodes) :
          \A o \in Operands(nodes[j]) : o < Len(node_vector) + j - 1
  BY <1>1, <1>3 DEF Indices
<1>5. QED
  BY <1>2, <1>4, AllocateIInv DEF ConstructNegate

\* X::X(dim): the store is refilled with dim blanks and dim variables.
LEMMA OpenXIInv ==
    ASSUME IInv, NEW d \in Dims, OpenX(d)
    PROVE  IInv'
<1> USE DEF IInv
<1>1. d \in Nat
  BY DimsAssumption
<1>2. /\ [k \in 1 .. d |-> BlankNode] \in Seq(NodeT)
      /\ [k \in 1 .. d |-> VariableNode(k - 1)] \in Seq(NodeT)
  BY <1>1 DEF BlankNode, VariableNode, NodeT
<1>3. node_vector' \in Seq(NodeT)
  BY <1>2 DEF OpenX
<1>4. \A i \in Indices' : Operands(Node(i)') = {}
  <2> SUFFICES ASSUME NEW i \in Indices' PROVE Operands(Node(i)') = {}
    OBVIOUS
  <2>1. Node(i)' = BlankNode \/ \E v \in Nat : Node(i)' = VariableNode(v)
    BY <1>1 DEF OpenX, Node, Indices
  <2>2. QED
    BY <2>1 DEF BlankNode, VariableNode, Operands
<1>5. stack = <<>>
  BY DEF OpenX, UserStep, IdleEmpty
<1>6. TypeOK'
  BY <1>1, <1>3, BoundsAssumption DEF OpenX, TypeOK
<1>7. QED
  BY <1>4, <1>5, <1>6 DEF OpenX, OperandsPrecede, IdleEmpty, StackInRange

\* X::X(dim) throwing FnCASConcurrentEvaluationAttemptException.
LEMMA OpenXConcurrentIInv ==
    ASSUME IInv, NEW d \in Dims, OpenXConcurrent(d)
    PROVE  IInv'
BY DEF IInv, OpenXConcurrent, TypeOK, Outcome, OperandsPrecede, Indices, Node,
       IdleEmpty, StackInRange, StackEntries

\* X::~X().
LEMMA CloseXIInv ==
    ASSUME IInv, CloseX
    PROVE  IInv'
BY DEF IInv, CloseX, TypeOK, OperandsPrecede, Indices, Node,
       IdleEmpty, StackInRange, StackEntries

\* f_intermediate(const V&): a wrapper of a node of the store.
LEMMA MakeIntermediateIInv ==
    ASSUME IInv, NEW r \in Handles \cap Indices, MakeIntermediate(r)
    PROVE  IInv'
<1>1. [root |-> r, graph |-> node_vector, dim |-> dim, gen |-> gen] \in FnT
  BY DEF IInv, TypeOK, FnT, Indices
<1>2. fns' \subseteq FnT
  BY <1>1 DEF IInv, TypeOK, MakeIntermediate
<1>3. TypeOK'
  BY <1>2 DEF IInv, TypeOK, MakeIntermediate
<1>4. QED
  BY <1>3 DEF IInv, MakeIntermediate, OperandsPrecede, Indices, Node,
             IdleEmpty, StackInRange, StackEntries

\* f_intermediate::operator() failing CURRENT_ASSERT(x.size() == dim()).
LEMMA CallIntermediateDimMismatchIInv ==
    ASSUME IInv, NEW w \in fns, NEW x \in Inputs, CallIntermediateDimMismatch(w, x)
    PROVE  IInv'
BY DEF IInv, CallIntermediateDimMismatch, TypeOK, Outcome, OperandsPrecede,
       Indices, Node, IdleEmpty, StackInRange, StackEntries

\* eval_node's entry: B cleared or kept, the root alone on the stack.
LEMMA StartEvalIInv ==
    ASSUME IInv, UserStep, NEW r, NEW x \in Inputs,
           NEW reuse \in {"invalidate", "reuse"}, NEW fn \in {NoValue} \cup FnT,
           StartEval(r, x, reuse, fn)
    PROVE  IInv'
<1> USE DEF IInv
<1>1. r \in Indices /\ r \in Nat
  BY DEF StartEval, Indices
<1>2. node_computed' \in Seq(BOOLEAN)
  <2>1. node_computed' = Invalidate(node_computed, reuse)
    BY DEF StartEval
  <2>2. Invalidate(node_computed, reuse) \in {<<>>, node_computed}
    BY DEF Invalidate
  <2>3. <<>> \in Seq(BOOLEAN) /\ node_computed \in Seq(BOOLEAN)
    BY DEF TypeOK
  <2>4. QED
    BY <2>1, <2>2, <2>3, Zenon
<1>3. memo' \in MemoT
  BY DEF StartEval, TypeOK, MemoT
<1>4. call' \in CallT
  BY <1>1 DEF StartEval, TypeOK, CallT
<1>5. stack' \in Seq(StackEntries)
  <2>1. r \in StackEntries
    BY <1>1 DEF StackEntries
  <2>2. QED
    BY <2>1 DEF StartEval
<1>6. TypeOK'
  BY <1>2, <1>3, <1>4, <1>5 DEF StartEval, TypeOK, StackEntries
<1>7. QED
  BY <1>5, <1>6 DEF StartEval, OperandsPrecede, Indices, Node,
                   IdleEmpty, StackInRange, StackEntries

\* V::operator()(x, reuse).
LEMMA EvalNodeIInv ==
    ASSUME IInv, NEW r, NEW x \in Inputs, NEW reuse \in {"invalidate", "reuse"},
           EvalNode(r, x, reuse)
    PROVE  IInv'
BY StartEvalIInv DEF EvalNode

\* f_intermediate::operator()(x).
LEMMA CallIntermediateIInv ==
    ASSUME IInv, NEW w \in fns, NEW x \in Inputs, CallIntermediate(w, x)
    PROVE  IInv'
<1>1. w \in FnT
  BY DEF IInv, TypeOK
<1>2. QED
  BY <1>1, StartEvalIInv DEF CallIntermediate

-----------------------------------------------------------------------------
(* eval_node's loop.  The store does not change while it runs.             *)

\* What every iteration may rely on: the index on top names a node (or is
\* the marker of one), and popping it leaves a stack of such entries.
LEMMA LoopFrame ==
    ASSUME IInv, Visiting, EvalUnchanged
    PROVE  /\ Top(stack) \in StackEntries
           /\ Pop(stack) \in Seq(StackEntries)
           /\ StackEntries' = StackEntries
           /\ Indices' = Indices
           /\ OperandsPrecede'
           /\ pc = "eval"
<1>1. stack \in Seq(StackEntries) /\ stack # <<>>
  BY DEF IInv, StackInRange, Visiting
<1>2. Top(stack) \in StackEntries /\ Pop(stack) \in Seq(StackEntries)
  BY <1>1, PopType
<1>3. Indices' = Indices /\ StackEntries' = StackEntries
  BY DEF EvalUnchanged, Indices, StackEntries
<1>4. OperandsPrecede'
  BY DEF IInv, EvalUnchanged, OperandsPrecede, Indices, Node
<1>5. QED
  BY <1>2, <1>3, <1>4 DEF Visiting

\* A first visit pops an index i >= 0, which names a node of the store.
LEMMA FirstVisit ==
    ASSUME IInv, Visiting, Top(stack) >= 0
    PROVE  /\ Top(stack) \in Indices /\ Top(stack) \in Nat
           /\ Node(Top(stack)) \in NodeT
<1>1. Top(stack) \in StackEntries
  BY PopType DEF IInv, StackInRange, Visiting
<1>2. Top(stack) \in Indices
  BY <1>1 DEF StackEntries
<1>3. QED
  BY <1>2 DEF IInv, TypeOK, Indices, Node

\* A second visit pops ~d, where d names a node of the store.
LEMMA SecondVisit ==
    ASSUME IInv, Visiting, Top(stack) < 0
    PROVE  -Top(stack) - 1 \in Indices /\ -Top(stack) - 1 \in Nat
<1>1. Top(stack) \in StackEntries
  BY PopType DEF IInv, StackInRange, Visiting
<1>2. QED
  BY <1>1 DEF StackEntries, Indices

\* `if (!B[i])` false: pop, B grown.
LEMMA EvalSkipIInv ==
    ASSUME IInv, EvalSkip
    PROVE  IInv'
<1> DEFINE i == Top(stack)
<1>1. i \in Nat
  BY FirstVisit DEF EvalSkip
<1>2. node_computed' \in Seq(BOOLEAN)
  BY <1>1, GrowType DEF EvalSkip, IInv, TypeOK
<1>3. /\ stack' \in Seq(StackEntries')
      /\ OperandsPrecede' /\ pc' = "eval"
  BY LoopFrame DEF EvalSkip
<1>4. stack' \in Seq(Int)
  BY <1>3 DEF StackEntries
<1>5. QED
  BY <1>2, <1>3, <1>4 DEF EvalSkip, EvalUnchanged, IInv, TypeOK, IdleEmpty,
                         StackInRange

\* A leaf: V[i] and B[i] written.
LEMMA EvalLeafIInv ==
    ASSUME IInv, EvalLeaf
    PROVE  IInv'
<1> DEFINE i == Top(stack)
<1>1. i \in Nat
  BY FirstVisit DEF EvalLeaf
<1>2. node_computed' \in Seq(BOOLEAN)
  BY <1>1, GrowSetType DEF EvalLeaf, IInv, TypeOK
<1>3. DOMAIN node_value' = 1 .. Len(node_value')
  BY <1>1, GrowSetDomain DEF EvalLeaf, IInv, TypeOK
<1>4. /\ stack' \in Seq(StackEntries')
      /\ OperandsPrecede' /\ pc' = "eval"
  BY LoopFrame DEF EvalLeaf
<1>5. stack' \in Seq(Int)
  BY <1>4 DEF StackEntries
<1>6. QED
  BY <1>2, <1>3, <1>4, <1>5 DEF EvalLeaf, EvalUnchanged, IInv, TypeOK,
                               IdleEmpty, StackInRange

\* What a first visit pushes names the node's marker and its operands,
\* all nodes of the store, because operands precede the node.
LEMMA ExpandInRange ==
    ASSUME IInv, NEW i \in Indices,
           Node(i).type \in {"operation", "function"}
    PROVE  Expand(i, Node(i)) \in Seq(StackEntries)
<1> DEFINE f == Node(i)
<1>1. f \in NodeT /\ i \in Nat
  BY DEF IInv, TypeOK, Indices, Node
<1>2. Post(i) \in StackEntries
  BY <1>1 DEF Post, StackEntries
<1>3. \A o \in Operands(f) : o \in StackEntries
  <2> SUFFICES ASSUME NEW o \in Operands(f) PROVE o \in StackEntries
    OBVIOUS
  <2>1. o \in Nat /\ o < i
    BY <1>1, OperandsNat DEF IInv, OperandsPrecede
  <2>2. QED
    BY <2>1 DEF StackEntries, Indices
<1>4. CASE f.type = "operation"
  <2>1. f.lhs \in Operands(f) /\ f.rhs \in Operands(f)
    BY <1>4 DEF Operands
  <2>2. QED
    BY <1>2, <1>3, <1>4, <2>1 DEF Expand
<1>5. CASE f.type = "function"
  <2>1. f.argument \in Operands(f)
    BY <1>5 DEF Operands
  <2>2. QED
    BY <1>2, <1>3, <1>5, <2>1 DEF Expand
<1>6. QED
  BY <1>4, <1>5

\* An operation or function: push ~i, then its operands.
LEMMA EvalExpandIInv ==
    ASSUME IInv, EvalExpand
    PROVE  IInv'
<1> DEFINE i == Top(stack)
<1>1. i \in Nat /\ i \in Indices
  BY FirstVisit DEF EvalExpand
<1>2. node_computed' \in Seq(BOOLEAN)
  BY <1>1, GrowType DEF EvalExpand, IInv, TypeOK
<1>3. Expand(i, Node(i)) \in Seq(StackEntries)
  BY <1>1, ExpandInRange DEF EvalExpand
<1>4. /\ Pop(stack) \in Seq(StackEntries) /\ StackEntries' = StackEntries
      /\ OperandsPrecede' /\ pc' = "eval"
  BY LoopFrame DEF EvalExpand
<1>5. stack' \in Seq(StackEntries')
  BY <1>3, <1>4 DEF EvalExpand
<1>6. stack' \in Seq(Int)
  BY <1>5, <1>4 DEF StackEntries
<1>7. QED
  BY <1>2, <1>4, <1>5, <1>6 DEF EvalExpand, EvalUnchanged, IInv, TypeOK,
                               IdleEmpty, StackInRange

\* A failed CURRENT_ASSERT ends the call with the stack abandoned.
LEMMA EvalAssertFailsIInv ==
    ASSUME IInv, EvalAssertFails
    PROVE  IInv'
<1> DEFINE i == Top(stack)
<1>1. i \in Nat
  BY FirstVisit DEF EvalAssertFails
<1>2. node_computed' \in Seq(BOOLEAN)
  BY <1>1, GrowType DEF EvalAssertFails, IInv, TypeOK
<1>3. OperandsPrecede'
  BY LoopFrame DEF EvalAssertFails
<1>4. ret' \in Outcome
  BY DEF EvalAssertFails, Outcome
<1>5. stack' = <<>> /\ <<>> \in Seq(StackEntries') /\ <<>> \in Seq(Int)
  BY DEF EvalAssertFails
<1>6. QED
  BY <1>2, <1>3, <1>4, <1>5 DEF EvalAssertFails, EvalUnchanged, IInv, TypeOK,
                               IdleEmpty, StackInRange

\* The second visit of d: V[d] and B[d] written.
LEMMA EvalPostIInv ==
    ASSUME IInv, EvalPost
    PROVE  IInv'
<1> DEFINE d == -Top(stack) - 1
<1>1. d \in Nat
  BY SecondVisit DEF EvalPost
<1>2. node_computed' \in Seq(BOOLEAN)
  BY <1>1, GrowSetType DEF EvalPost, IInv, TypeOK
<1>3. DOMAIN node_value' = 1 .. Len(node_value')
  BY <1>1, GrowSetDomain DEF EvalPost, IInv, TypeOK
<1>4. /\ stack' \in Seq(StackEntries')
      /\ OperandsPrecede' /\ pc' = "eval"
  BY LoopFrame DEF EvalPost
<1>5. stack' \in Seq(Int)
  BY <1>4 DEF StackEntries
<1>6. QED
  BY <1>2, <1>3, <1>4, <1>5 DEF EvalPost, EvalUnchanged, IInv, TypeOK,
                               IdleEmpty, StackInRange

\* The loop is done and the call returns.
LEMMA EvalReturnIInv ==
    ASSUME IInv, EvalReturn
    PROVE  IInv'
<1>1. ret' \in Outcome
  BY DEF EvalReturn, Outcome
<1>2. QED
  BY <1>1 DEF EvalReturn, IInv, TypeOK, OperandsPrecede, Indices, Node,
             IdleEmpty, StackInRange, StackEntries

-----------------------------------------------------------------------------
(* What eval_node's loop does to B, V and the stack keeps the markers     *)
(* covered.                                                                 *)

\* A first visit only grows B: what was computed stays computed.
LEMMA GrowKeepsDone ==
    ASSUME TypeOK, NEW i \in Nat, NEW F, F = FALSE,
           node_computed' = Grow(node_computed, i, F),
           node_value' = node_value
    PROVE  /\ \A o \in Nat : Done(o) => Done(o)'
           /\ ComputedHasValue => ComputedHasValue'
<1>1. node_computed \in Seq(BOOLEAN)
  BY DEF TypeOK
<1>2. Len(node_computed) \in Nat
  BY <1>1, LenProperties
<1>3. /\ Len(node_computed') = IF i < Len(node_computed) THEN Len(node_computed) ELSE i + 1
      /\ \A k \in 1 .. Len(node_computed) : node_computed'[k] = node_computed[k]
      /\ \A k \in Len(node_computed) + 1 .. Len(node_computed') : node_computed'[k] = F
  BY <1>1, GrowAt
<1>4. \A o \in Nat : Done(o) => Done(o)'
  BY <1>2, <1>3 DEF Done
<1>5. ComputedHasValue => ComputedHasValue'
  BY <1>2, <1>3 DEF ComputedHasValue
<1> QED
  BY <1>4, <1>5

\* The values growing_vector_access fills B with, and eval_node writes.
Unset == FALSE
Set == TRUE

\* A write of V[i] and B[i]: i is computed, and so is what was.
LEMMA GrowSetKeepsDone ==
    ASSUME TypeOK, NEW i \in Nat, NEW x,
           node_computed' = GrowSet(node_computed, i, Unset, Set),
           node_value' = GrowSet(node_value, i, NoValue, x)
    PROVE  /\ Done(i)'
           /\ \A o \in Nat : Done(o) => Done(o)'
           /\ ComputedHasValue => ComputedHasValue'
<1> DEFINE g == Grow(node_computed, i, Unset)
<1>1. node_computed \in Seq(BOOLEAN)
  BY DEF TypeOK
<1>2. Len(node_computed) \in Nat
  BY <1>1, LenProperties
<1>3. /\ Len(g) = IF i < Len(node_computed) THEN Len(node_computed) ELSE i + 1
      /\ DOMAIN g = 1 .. Len(g)
      /\ \A k \in 1 .. Len(node_computed) : g[k] = node_computed[k]
      /\ \A k \in Len(node_computed) + 1 .. Len(g) : g[k] = Unset
  BY <1>1, GrowAt
<1>4. /\ Len(node_computed') = Len(g)
      /\ node_computed'[i + 1] = Set
      /\ \A k \in 1 .. Len(node_computed') \ {i + 1} : node_computed'[k] = g[k]
  <2>1. node_computed' = [g EXCEPT ![i + 1] = Set]
    BY DEF GrowSet
  <2>2. Len(g) \in Nat /\ i + 1 \in 1 .. Len(g)
    BY <1>2, <1>3
  <2>3. Len(node_computed') = Len(g)
    BY <1>3, <2>1, <2>2
  <2>4. node_computed'[i + 1] = Set
    BY <1>3, <2>1, <2>2
  <2>5. \A k \in 1 .. Len(node_computed') \ {i + 1} : node_computed'[k] = g[k]
    BY <1>3, <2>1, <2>3
  <2> QED
    BY <2>3, <2>4, <2>5, Zenon
<1>5. Len(node_value') >= Len(node_value) /\ i < Len(node_value')
  BY GrowSetLen DEF TypeOK
<1>9. Len(node_computed') = IF i < Len(node_computed) THEN Len(node_computed) ELSE i + 1
  BY <1>3, <1>4, Zenon
<1>10. Len(node_computed') \in Nat
  BY <1>2, <1>9
<1>6. Done(i)'
  <2>1. i < Len(node_computed')
    BY <1>2, <1>9
  <2>2. node_computed'[i + 1] = TRUE
    BY <1>4, Zenon DEF Set
  <2> QED
    BY <1>5, <2>1, <2>2, Zenon DEF Done
<1>7. \A o \in Nat : Done(o) => Done(o)'
  <2> SUFFICES ASSUME NEW o \in Nat, Done(o) PROVE Done(o)'
    OBVIOUS
  <2>1. o < Len(node_computed) /\ node_computed[o + 1] = TRUE /\ o < Len(node_value)
    BY Zenon DEF Done
  <2>2. o < Len(node_computed') /\ o < Len(node_value')
    <3>1. o < Len(node_computed) /\ o < Len(node_value)
      BY <2>1, Zenon
    <3> QED
      BY <1>2, <1>5, <1>9, <3>1
  <2>3. node_computed'[o + 1] = TRUE
    <3>1. CASE o = i
      BY <1>4, <3>1, Zenon DEF Set
    <3>2. CASE o # i
      <4>0. o < Len(node_computed)
        BY <2>1, Zenon
      <4>1. o + 1 \in 1 .. Len(node_computed') \ {i + 1} /\ o + 1 \in 1 .. Len(node_computed)
        <5>1. o + 1 \in 1 .. Len(node_computed)
          BY <1>2, <4>0
        <5>2. o + 1 \in 1 .. Len(node_computed')
          BY <1>10, <2>2
        <5>3. o + 1 # i + 1
          BY <3>2
        <5> QED
          BY <5>1, <5>2, <5>3
      <4>2. node_computed'[o + 1] = g[o + 1] /\ g[o + 1] = node_computed[o + 1]
        BY <1>3, <1>4, <4>1, Zenon
      <4> QED
        BY <2>1, <4>2, Zenon
    <3> QED
      BY <3>1, <3>2, Zenon
  <2> QED
    BY <2>2, <2>3, Zenon DEF Done
<1>8. ComputedHasValue => ComputedHasValue'
  <2> SUFFICES ASSUME ComputedHasValue,
                      NEW k \in 0 .. Len(node_computed') - 1,
                      node_computed'[k + 1] = TRUE
               PROVE  k < Len(node_value')
    BY Zenon DEF ComputedHasValue
  <2>1. CASE k = i
    BY <1>5, <2>1
  <2>2. CASE k # i /\ k < Len(node_computed)
    <3>1. k + 1 \in 1 .. Len(node_computed') \ {i + 1} /\ k + 1 \in 1 .. Len(node_computed)
          /\ k \in 0 .. Len(node_computed) - 1
      BY <1>2, <1>9, <2>2
    <3>2. node_computed[k + 1] = TRUE
      BY <1>3, <1>4, <3>1, Zenon
    <3>3. k < Len(node_value)
      BY <3>1, <3>2, Zenon DEF ComputedHasValue
    <3> QED
      BY <1>5, <3>3
  <2>3. CASE k # i /\ k >= Len(node_computed)
    <3>1. k + 1 \in 1 .. Len(node_computed') \ {i + 1}
          /\ k + 1 \in Len(node_computed) + 1 .. Len(g)
      BY <1>2, <1>3, <1>9, <2>3
    <3>2. node_computed'[k + 1] = Unset
      BY <1>3, <1>4, <3>1, Zenon
    <3> QED
      BY <3>2, Zenon DEF Unset
  <2> QED
    BY <2>1, <2>2, <2>3
<1> QED
  BY <1>6, <1>7, <1>8

\* The operands of a node whose marker is on the stack are indices.
LEMMA MarkerOperands ==
    ASSUME IInv, NEW p \in 1 .. Len(stack), stack[p] < 0
    PROVE  Operands(Node(-stack[p] - 1)) \subseteq Nat
<1>1. stack[p] \in StackEntries
  BY ElementOfSeq DEF IInv, StackInRange
<1>2. -stack[p] - 1 \in Indices
  BY <1>1 DEF StackEntries
<1>3. Node(-stack[p] - 1) \in NodeT
  BY <1>2, ElementOfSeq DEF IInv, TypeOK, Indices, Node
<1> QED
  BY <1>3, OperandsNat

\* An index of an interval is its last one or below it.
LEMMA IntervalLast ==
    ASSUME NEW a \in Int, NEW b \in Int, NEW q \in a .. b
    PROVE  q < b \/ q = b
  OBVIOUS

\* A pop keeps a node covered at position p below the top: an entry of it
\* above p is still there, unless it was the top, whose node is now done.
LEMMA PopPending ==
    ASSUME IInv, stack # <<>>, stack' = Pop(stack),
           \A o \in Nat : Done(o) => Done(o)',
           \A o \in Nat : Top(stack) \in {o, Post(o)} => Done(o)',
           NEW o \in Nat, NEW p \in Nat, p < Len(stack),
           Done(o) \/ Pending(o, p)
    PROVE  Done(o)' \/ Pending(o, p)'
<1> DEFINE L == Len(stack)
<1>0. stack \in Seq(Int)
  BY DEF IInv, TypeOK
<1>1. /\ L \in Nat /\ L >= 1
      /\ Len(stack') = L - 1
      /\ \A k \in 1 .. L - 1 : stack'[k] = stack[k]
  <2>1. Len(Pop(stack)) = L - 1 /\ \A k \in 1 .. L - 1 : Pop(stack)[k] = stack[k]
    BY <1>0, PopType
  <2>2. L \in Nat /\ L >= 1
    BY <1>0, EmptySeq, LenProperties
  <2> QED
    BY <2>1, <2>2
<1>2. CASE Done(o)
  BY <1>2
<1>3. CASE Pending(o, p)
  <2>1. PICK q \in p + 1 .. L : stack[q] \in {o, Post(o)}
    BY <1>3 DEF Pending
  <2>2. CASE q < L
    BY <1>1, <2>1, <2>2 DEF Pending
  <2>3. CASE q = L
    BY <2>1, <2>3 DEF Top
  <2>4. q < L \/ q = L
    <3>1. p + 1 \in Int /\ L \in Int
      BY <1>1
    <3> QED
      BY <3>1, IntervalLast
  <2> QED
    BY <2>2, <2>3, <2>4
<1> QED
  BY <1>2, <1>3

\* Popping an entry whose node is then computed keeps every marker below
\* it covered: the skip, leaf and second-visit iterations.
LEMMA PopCovered ==
    ASSUME IInv, MarkersCovered, stack # <<>>, stack' = Pop(stack),
           node_vector' = node_vector,
           \A o \in Nat : Done(o) => Done(o)',
           \A o \in Nat : Top(stack) \in {o, Post(o)} => Done(o)'
    PROVE  MarkersCovered'
<1> DEFINE L == Len(stack)
<1>0. stack \in Seq(Int)
  BY DEF IInv, TypeOK
<1>1. /\ L \in Nat /\ L >= 1
      /\ Len(stack') = L - 1
      /\ \A k \in 1 .. L - 1 : stack'[k] = stack[k]
  <2>1. Len(Pop(stack)) = L - 1 /\ \A k \in 1 .. L - 1 : Pop(stack)[k] = stack[k]
    BY <1>0, PopType
  <2>2. L \in Nat /\ L >= 1
    BY <1>0, EmptySeq, LenProperties
  <2> QED
    BY <2>1, <2>2
<1> SUFFICES ASSUME NEW p \in 1 .. Len(stack'), stack'[p] < 0,
                    NEW o \in Operands(node_vector[-stack'[p] - 1 + 1])
             PROVE  Done(o)' \/ Pending(o, p)'
  BY Zenon DEF MarkersCovered, Node
<1>2. p \in 1 .. L /\ stack'[p] = stack[p] /\ stack[p] < 0
  BY <1>1
<1>3. o \in Operands(Node(-stack[p] - 1))
  BY <1>2 DEF Node
<1>4. o \in Nat
  BY <1>2, <1>3, MarkerOperands
<1>5. Done(o) \/ Pending(o, p)
  BY <1>2, <1>3 DEF MarkersCovered
<1>6. p \in Nat /\ p < L
  BY <1>1
<1> QED
  BY <1>4, <1>5, <1>6, PopPending

\* The same pop keeps the root covered: its pending entries are all above
\* position 0.
LEMMA PopRootCovered ==
    ASSUME IInv, RootCovered, stack # <<>>, stack' = Pop(stack),
           pc' = pc, call' = call,
           \A o \in Nat : Done(o) => Done(o)',
           \A o \in Nat : Top(stack) \in {o, Post(o)} => Done(o)'
    PROVE  RootCovered'
<1> SUFFICES ASSUME pc = "eval"
             PROVE  call.root \in Nat /\ (Done(call.root)' \/ Pending(call.root, 0)')
  BY DEF RootCovered
<1>1. PICK r \in Nat : r = call.root
  BY DEF RootCovered
<1>2. Done(r) \/ Pending(r, 0)
  BY <1>1 DEF RootCovered
<1>3. 0 < Len(stack)
  BY EmptySeq, LenProperties DEF IInv, TypeOK
<1>4. Done(r)' \/ Pending(r, 0)'
  BY <1>2, <1>3, PopPending
<1> QED
  BY <1>1, <1>4

\* The popped entry names node d, by a first or a second visit: the only
\* operand whose pending entry it was is d.
LEMMA TopDone ==
    ASSUME NEW d \in Nat, Top(stack) \in {d, Post(d)}, Done(d)'
    PROVE  \A o \in Nat : Top(stack) \in {o, Post(o)} => Done(o)'
<1> SUFFICES ASSUME NEW o \in Nat, Top(stack) \in {o, Post(o)} PROVE Done(o)'
  OBVIOUS
<1>1. o = d
  BY DEF Post
<1> QED
  BY <1>1, Zenon

\* `if (!B[i])` false: i was computed before the pop, and B only grows.
LEMMA EvalSkipPInv ==
    ASSUME PInv, EvalSkip
    PROVE  ComputedHasValue' /\ MarkersCovered' /\ RootCovered'
<1>1. IInv /\ TypeOK /\ ComputedHasValue /\ MarkersCovered
  BY DEF PInv, IInv
<1>0. PICK i \in Nat : i = Top(stack)
  BY <1>1, FirstVisit DEF EvalSkip
<1> DEFINE g == Grow(node_computed, i, Unset)
<1>2. i \in Nat /\ stack # <<>> /\ Top(stack) \in {i, Post(i)}
  BY <1>0 DEF EvalSkip, Visiting
<1>3. /\ node_computed' = g /\ g[i + 1] = TRUE
      /\ node_value' = node_value /\ stack' = Pop(stack)
      /\ node_vector' = node_vector
  BY <1>0, Zenon DEF EvalSkip, EvalUnchanged, Unset
<1>4. Unset = FALSE
  BY DEF Unset
<1>5. /\ \A o \in Nat : Done(o) => Done(o)'
      /\ ComputedHasValue'
  <2>1. /\ \A o \in Nat : Done(o) => Done(o)'
        /\ ComputedHasValue => ComputedHasValue'
    <3>1. TypeOK /\ node_computed' = Grow(node_computed, i, Unset)
          /\ node_value' = node_value
      BY <1>1, <1>3
    <3> QED
      BY <1>2, <1>4, <3>1, GrowKeepsDone, Zenon
  <2> QED
    BY <1>1, <2>1
<1>6. node_computed \in Seq(BOOLEAN) /\ Len(node_computed) \in Nat
  BY <1>1, LenProperties DEF TypeOK
<1>7. /\ Len(g) = IF i < Len(node_computed) THEN Len(node_computed) ELSE i + 1
      /\ \A k \in 1 .. Len(node_computed) : g[k] = node_computed[k]
      /\ \A k \in Len(node_computed) + 1 .. Len(g) : g[k] = Unset
  <2>1. i \in Nat
    BY <1>2
  <2> QED
    BY <1>6, <2>1 DEF Grow
<1>8. i < Len(node_computed)
  <2> SUFFICES ASSUME i >= Len(node_computed) PROVE FALSE
    BY <1>2, <1>6
  <2>1. g[i + 1] = Unset
    BY <1>2, <1>6, <1>7
  <2> QED
    BY <1>3, <1>4, <2>1, Zenon
<1>9. node_computed[i + 1] = TRUE
  <2>1. g[i + 1] = node_computed[i + 1]
    BY <1>2, <1>6, <1>7, <1>8
  <2> QED
    BY <1>3, <2>1, Zenon
<1>10. Done(i)'
  <2>1. i < Len(node_value)
    BY <1>1, <1>2, <1>6, <1>8, <1>9 DEF ComputedHasValue
  <2>2. i < Len(node_computed')
    BY <1>2, <1>3, <1>6, <1>7, <1>8
  <2> QED
    BY <1>3, <1>9, <2>1, <2>2, <1>2, <1>6, <1>7, <1>8 DEF Done
<1>11. \A o \in Nat : Top(stack) \in {o, Post(o)} => Done(o)'
  BY <1>2, <1>10, TopDone
<1>12. RootCovered'
  <2>1. pc' = pc /\ call' = call
    BY DEF EvalSkip, EvalUnchanged
  <2> QED
    BY <1>1, <1>2, <1>3, <1>5, <1>11, <2>1, PopRootCovered DEF PInv
<1> QED
  BY <1>1, <1>2, <1>3, <1>5, <1>11, <1>12, PopCovered

\* A leaf: V[i] and B[i] written together.
LEMMA EvalLeafPInv ==
    ASSUME PInv, EvalLeaf
    PROVE  ComputedHasValue' /\ MarkersCovered' /\ RootCovered'
<1>1. IInv /\ TypeOK /\ ComputedHasValue /\ MarkersCovered
  BY DEF PInv, IInv
<1>0. PICK i \in Nat : i = Top(stack)
  BY <1>1, FirstVisit DEF EvalLeaf
<1>2. i \in Nat /\ stack # <<>> /\ Top(stack) \in {i, Post(i)}
  BY <1>0 DEF EvalLeaf, Visiting
<1>3. /\ node_computed' = GrowSet(node_computed, i, Unset, Set)
      /\ node_value' = GrowSet(node_value, i, NoValue, LeafValue(Node(i), call.x))
      /\ stack' = Pop(stack) /\ node_vector' = node_vector
  BY <1>0, Zenon DEF EvalLeaf, EvalUnchanged, Unset, Set
<1>4. /\ Done(i)'
      /\ \A o \in Nat : Done(o) => Done(o)'
      /\ ComputedHasValue'
  BY <1>1, <1>2, <1>3, GrowSetKeepsDone
<1>5. \A o \in Nat : Top(stack) \in {o, Post(o)} => Done(o)'
  BY <1>2, <1>4, TopDone
<1>6. RootCovered'
  <2>1. pc' = pc /\ call' = call
    BY DEF EvalLeaf, EvalUnchanged
  <2> QED
    BY <1>1, <1>2, <1>3, <1>4, <1>5, <2>1, PopRootCovered DEF PInv
<1> QED
  BY <1>1, <1>2, <1>3, <1>4, <1>5, <1>6, PopCovered

\* The second visit of d: V[d] and B[d] written together.
LEMMA EvalPostPInv ==
    ASSUME PInv, EvalPost
    PROVE  ComputedHasValue' /\ MarkersCovered' /\ RootCovered'
<1>1. IInv /\ TypeOK /\ ComputedHasValue /\ MarkersCovered
  BY DEF PInv, IInv
<1>0. PICK d \in Nat : d = -Top(stack) - 1
  BY <1>1, SecondVisit DEF EvalPost
<1>2. d \in Nat /\ stack # <<>> /\ Top(stack) \in {d, Post(d)}
  <2>1. stack # <<>> /\ Top(stack) \in Int
    BY <1>1, PopType DEF EvalPost, Visiting, IInv, TypeOK
  <2> QED
    BY <1>0, <2>1 DEF Post
<1>3. /\ node_computed' = GrowSet(node_computed, d, Unset, Set)
      /\ node_value' = GrowSet(node_value, d, NoValue, PostValue(Node(d)))
      /\ stack' = Pop(stack) /\ node_vector' = node_vector
  BY <1>0, Zenon DEF EvalPost, EvalUnchanged, Unset, Set
<1>4. /\ Done(d)'
      /\ \A o \in Nat : Done(o) => Done(o)'
      /\ ComputedHasValue'
  BY <1>1, <1>2, <1>3, GrowSetKeepsDone
<1>5. \A o \in Nat : Top(stack) \in {o, Post(o)} => Done(o)'
  BY <1>2, <1>4, TopDone
<1>6. RootCovered'
  <2>1. pc' = pc /\ call' = call
    BY DEF EvalPost, EvalUnchanged
  <2> QED
    BY <1>1, <1>2, <1>3, <1>4, <1>5, <2>1, PopRootCovered DEF PInv
<1> QED
  BY <1>1, <1>2, <1>3, <1>4, <1>5, <1>6, PopCovered

\* Entries of a stack with a sequence pushed onto it: the old entries
\* stay where they were, and the pushed ones follow them.
LEMMA PushAt ==
    ASSUME NEW s1 \in Seq(Int), NEW s2 \in Seq(Int)
    PROVE  /\ s1 \o s2 \in Seq(Int)
           /\ Len(s1 \o s2) = Len(s1) + Len(s2)
           /\ \A k \in 1 .. Len(s1) : (s1 \o s2)[k] = s1[k]
           /\ \A j \in 1 .. Len(s2) : (s1 \o s2)[Len(s1) + j] = s2[j]
<1>1. /\ s1 \o s2 \in Seq(Int)
      /\ Len(s1 \o s2) = Len(s1) + Len(s2)
      /\ \A k \in 1 .. Len(s1) + Len(s2) :
            (s1 \o s2)[k] = IF k <= Len(s1) THEN s1[k] ELSE s2[k - Len(s1)]
  BY ConcatProperties
<1>2. Len(s1) \in Nat /\ Len(s2) \in Nat
  BY LenProperties
<1> QED
  BY <1>1, <1>2

\* A first visit of an operation or function i replaces i by ~i and puts
\* the operands of i above it, and nothing else.
LEMMA ExpandShape ==
    ASSUME IInv, EvalExpand, NEW i \in Nat, i = Top(stack)
    PROVE  /\ Len(stack) \in Nat /\ Len(stack) >= 1
           /\ Len(stack') \in Nat /\ Len(stack') > Len(stack)
           /\ \A k \in 1 .. Len(stack) - 1 : stack'[k] = stack[k]
           /\ stack'[Len(stack)] = Post(i)
           /\ \A k \in Len(stack) + 1 .. Len(stack') :
                  stack'[k] \in Operands(Node(i))
           /\ \A o \in Operands(Node(i)) :
                  \E k \in Len(stack) + 1 .. Len(stack') : stack'[k] = o
           /\ Operands(Node(i)) \subseteq Nat
<1> DEFINE L == Len(stack)
<1> DEFINE f == Node(i)
<1> DEFINE E == Expand(i, f)
<1> DEFINE P == Pop(stack)
<1>1. /\ stack \in Seq(Int) /\ L \in Nat /\ L >= 1
      /\ P \in Seq(Int) /\ Len(P) = L - 1
      /\ \A k \in 1 .. L - 1 : P[k] = stack[k]
  <2>1. stack \in Seq(Int) /\ stack # <<>>
    BY DEF IInv, TypeOK, EvalExpand, Visiting
  <2>2. L \in Nat /\ L >= 1
    BY <2>1, EmptySeq, LenProperties
  <2> QED
    BY <2>1, <2>2, PopType
<1>2. /\ f \in NodeT /\ f.type \in {"operation", "function"}
      /\ stack' = P \o E
  BY FirstVisit DEF EvalExpand
<1>3. Operands(f) \subseteq Nat
  BY <1>2, OperandsNat
<1>4. E \in Seq(Int)
  BY <1>2, <1>3 DEF Expand, Operands, Post
<1>5. /\ Len(stack') = L - 1 + Len(E)
      /\ \A k \in 1 .. L - 1 : stack'[k] = stack[k]
      /\ \A j \in 1 .. Len(E) : stack'[L - 1 + j] = E[j]
  <2>1. /\ Len(P \o E) = Len(P) + Len(E)
        /\ \A k \in 1 .. Len(P) : (P \o E)[k] = P[k]
        /\ \A j \in 1 .. Len(E) : (P \o E)[Len(P) + j] = E[j]
    <3>1. P \in Seq(Int) /\ E \in Seq(Int)
      BY <1>1, <1>4
    <3> HIDE DEF P, E
    <3> QED
      BY <3>1, PushAt
  <2>2. /\ Len(P) = L - 1 /\ stack' = P \o E
        /\ \A k \in 1 .. L - 1 : P[k] = stack[k]
    BY <1>1, <1>2
  <2> HIDE DEF P, E, L
  <2> QED
    BY <2>1, <2>2, Zenon
<1>6. CASE f.type = "operation"
  <2>1. E = <<Post(i), f.lhs, f.rhs>> /\ Operands(f) = {f.lhs, f.rhs}
    BY <1>6 DEF Expand, Operands
  <2>2. Len(E) = 3 /\ E[1] = Post(i) /\ E[2] = f.lhs /\ E[3] = f.rhs
    BY <2>1
  <2>3. /\ stack'[L - 1 + 1] = E[1] /\ stack'[L - 1 + 2] = E[2]
        /\ stack'[L - 1 + 3] = E[3]
    BY <1>5, <2>2
  <2>4. /\ Len(stack') = L + 2
        /\ stack'[L] = Post(i) /\ stack'[L + 1] = f.lhs /\ stack'[L + 2] = f.rhs
    BY <1>1, <1>5, <2>2, <2>3
  <2>5. \A k \in L + 1 .. Len(stack') : k = L + 1 \/ k = L + 2
    BY <1>1, <2>4
  <2>6. \A k \in L + 1 .. Len(stack') : stack'[k] \in Operands(f)
    BY <2>1, <2>4, <2>5
  <2>7. \A o \in Operands(f) : \E k \in L + 1 .. Len(stack') : stack'[k] = o
    <3> SUFFICES ASSUME NEW o \in Operands(f)
                 PROVE  \E k \in L + 1 .. Len(stack') : stack'[k] = o
      OBVIOUS
    <3>1. L + 1 \in L + 1 .. Len(stack') /\ L + 2 \in L + 1 .. Len(stack')
      BY <1>1, <2>4
    <3>2. o = f.lhs \/ o = f.rhs
      BY <2>1
    <3> QED
      BY <3>1, <3>2, <2>4, Zenon
  <2> QED
    BY <1>1, <1>3, <1>5, <2>4, <2>6, <2>7
<1>7. CASE f.type = "function"
  <2>1. E = <<Post(i), f.argument>> /\ Operands(f) = {f.argument}
    BY <1>7 DEF Expand, Operands
  <2>2. Len(E) = 2 /\ E[1] = Post(i) /\ E[2] = f.argument
    BY <2>1
  <2>3. stack'[L - 1 + 1] = E[1] /\ stack'[L - 1 + 2] = E[2]
    BY <1>5, <2>2
  <2>4. /\ Len(stack') = L + 1
        /\ stack'[L] = Post(i) /\ stack'[L + 1] = f.argument
    BY <1>1, <1>5, <2>2, <2>3
  <2>5. \A k \in L + 1 .. Len(stack') : k = L + 1
    BY <1>1, <2>4
  <2>6. \A k \in L + 1 .. Len(stack') : stack'[k] \in Operands(f)
    BY <2>1, <2>4, <2>5
  <2>7. \A o \in Operands(f) : \E k \in L + 1 .. Len(stack') : stack'[k] = o
    <3> SUFFICES ASSUME NEW o \in Operands(f)
                 PROVE  \E k \in L + 1 .. Len(stack') : stack'[k] = o
      OBVIOUS
    <3>1. L + 1 \in L + 1 .. Len(stack')
      BY <1>1, <2>4
    <3>2. o = f.argument
      BY <2>1
    <3> QED
      BY <3>1, <3>2, <2>4, Zenon
  <2> QED
    BY <1>1, <1>3, <1>5, <2>4, <2>6, <2>7
<1>8. f.type = "operation" \/ f.type = "function"
  BY <1>2
<1> QED
  BY <1>6, <1>7, <1>8

\* A first visit keeps a node covered at position p below the top: an entry
\* of it above p stays where it was, or was the top i, whose marker ~i now
\* takes its place.
LEMMA ExpandPending ==
    ASSUME NEW i \in Nat, i = Top(stack),
           Len(stack) \in Nat, Len(stack) >= 1, Len(stack') > Len(stack),
           \A k \in 1 .. Len(stack) - 1 : stack'[k] = stack[k],
           stack'[Len(stack)] = Post(i),
           \A o \in Nat : Done(o) => Done(o)',
           NEW o \in Nat, NEW p \in Nat, p < Len(stack),
           Done(o) \/ Pending(o, p)
    PROVE  Done(o)' \/ Pending(o, p)'
<1> DEFINE L == Len(stack)
<1>1. CASE Done(o)
  BY <1>1
<1>2. CASE Pending(o, p)
  <2>1. PICK q \in p + 1 .. L : stack[q] \in {o, Post(o)}
    BY <1>2 DEF Pending
  <2>2. q < L \/ q = L
    <3>1. p + 1 \in Int /\ L \in Int
      OBVIOUS
    <3> QED
      BY <3>1, IntervalLast
  <2>3. CASE q < L
    BY <2>1, <2>3 DEF Pending
  <2>4. CASE q = L
    <3>1. o = i
      BY <2>1, <2>4 DEF Top, Post
    <3>2. stack'[L] = Post(o) /\ L \in p + 1 .. Len(stack')
      BY <3>1
    <3> QED
      BY <3>2 DEF Pending
  <2> QED
    BY <2>2, <2>3, <2>4
<1> QED
  BY <1>1, <1>2

\* A first visit of an operation or function: the markers below keep
\* their pending entries (i, if it was one, is now ~i), and the new
\* marker ~i has the operands of i pushed above it.
LEMMA EvalExpandPInv ==
    ASSUME PInv, EvalExpand
    PROVE  ComputedHasValue' /\ MarkersCovered' /\ RootCovered'
<1>1. IInv /\ TypeOK /\ ComputedHasValue /\ MarkersCovered
  BY DEF PInv, IInv
<1>0. PICK i \in Nat : i = Top(stack)
  BY <1>1, FirstVisit DEF EvalExpand
<1> DEFINE L == Len(stack)
<1>2. /\ node_computed' = Grow(node_computed, i, Unset)
      /\ node_value' = node_value /\ node_vector' = node_vector
  BY <1>0, Zenon DEF EvalExpand, EvalUnchanged, Unset
<1>3. /\ \A o \in Nat : Done(o) => Done(o)'
      /\ ComputedHasValue'
  <2>1. Unset = FALSE
    BY DEF Unset
  <2>2. /\ \A o \in Nat : Done(o) => Done(o)'
        /\ ComputedHasValue => ComputedHasValue'
    BY <1>1, <1>2, <2>1, GrowKeepsDone, Zenon
  <2> QED
    BY <1>1, <2>2
<1>4. /\ L \in Nat /\ L >= 1
      /\ Len(stack') \in Nat /\ Len(stack') > L
      /\ \A k \in 1 .. L - 1 : stack'[k] = stack[k]
      /\ stack'[L] = Post(i)
      /\ \A k \in L + 1 .. Len(stack') : stack'[k] \in Operands(Node(i))
      /\ \A o \in Operands(Node(i)) : \E k \in L + 1 .. Len(stack') : stack'[k] = o
      /\ Operands(Node(i)) \subseteq Nat
  BY <1>0, <1>1, ExpandShape
<1>5. MarkersCovered'
  <2> SUFFICES ASSUME NEW p \in 1 .. Len(stack'), stack'[p] < 0,
                      NEW o \in Operands(node_vector[-stack'[p] - 1 + 1])
               PROVE  Done(o)' \/ Pending(o, p)'
    BY <1>2, Zenon DEF MarkersCovered, Node
  <2>1. CASE p < L
    <3>1. p \in 1 .. L /\ stack'[p] = stack[p] /\ stack[p] < 0
      BY <1>4, <2>1
    <3>2. o \in Operands(Node(-stack[p] - 1))
      BY <1>2, <3>1 DEF Node
    <3>3. o \in Nat
      BY <1>1, <3>1, <3>2, MarkerOperands
    <3>4. Done(o) \/ Pending(o, p)
      BY <1>1, <3>1, <3>2 DEF MarkersCovered
    <3>5. p \in Nat /\ p < L
      BY <2>1
    <3> QED
      BY <1>0, <1>3, <1>4, <3>3, <3>4, <3>5, ExpandPending
  <2>2. CASE p = L
    <3>1. -stack'[p] - 1 = i
      BY <1>4, <2>2 DEF Post
    <3>2. o \in Operands(Node(i))
      BY <1>2, <3>1 DEF Node
    <3>3. PICK k \in L + 1 .. Len(stack') : stack'[k] = o
      BY <1>4, <3>2
    <3> QED
      BY <2>2, <3>3 DEF Pending
  <2>3. CASE p > L
    <3>1. stack'[p] \in Nat
      BY <1>4, <2>3
    <3> QED
      BY <3>1
  <2> QED
    BY <1>4, <2>1, <2>2, <2>3
<1>6. RootCovered'
  <2>1. pc' = pc /\ call' = call
    BY DEF EvalExpand, EvalUnchanged
  <2> SUFFICES ASSUME pc = "eval"
               PROVE  call.root \in Nat /\ (Done(call.root)' \/ Pending(call.root, 0)')
    BY <2>1 DEF RootCovered
  <2>2. PICK r \in Nat : r = call.root
    BY DEF PInv, RootCovered
  <2>3. Done(r) \/ Pending(r, 0)
    BY <2>2 DEF PInv, RootCovered
  <2>4. Done(r)' \/ Pending(r, 0)'
    BY <1>0, <1>3, <1>4, <2>3, ExpandPending
  <2> QED
    BY <2>1, <2>2, <2>4
<1> QED
  BY <1>3, <1>5, <1>6

\* A failed CURRENT_ASSERT abandons the stack; B is only grown.
LEMMA EvalAssertFailsPInv ==
    ASSUME PInv, EvalAssertFails
    PROVE  ComputedHasValue' /\ MarkersCovered' /\ RootCovered'
<1>1. IInv /\ TypeOK /\ ComputedHasValue
  BY DEF PInv, IInv
<1>0. PICK i \in Nat : i = Top(stack)
  BY <1>1, FirstVisit DEF EvalAssertFails
<1>2. /\ node_computed' = Grow(node_computed, i, Unset)
      /\ node_value' = node_value /\ stack' = <<>>
  BY <1>0, Zenon DEF EvalAssertFails, Unset
<1>3. ComputedHasValue'
  <2>1. Unset = FALSE
    BY DEF Unset
  <2>2. ComputedHasValue => ComputedHasValue'
    BY <1>1, <1>2, <2>1, GrowKeepsDone, Zenon
  <2> QED
    BY <1>1, <2>2
<1>4. MarkersCovered'
  BY <1>2 DEF MarkersCovered
<1>5. RootCovered'
  BY DEF EvalAssertFails, RootCovered
<1> QED
  BY <1>3, <1>4, <1>5

\* The loop is done: only pc, ret and call change.
LEMMA EvalReturnPInv ==
    ASSUME PInv, EvalReturn
    PROVE  ComputedHasValue' /\ MarkersCovered' /\ RootCovered'
  BY DEF PInv, EvalReturn, ComputedHasValue, MarkersCovered, RootCovered

\* A call seeds the stack with its root, a first visit, and leaves B as
\* it was or clears it.
LEMMA StartEvalPInv ==
    ASSUME PInv, NEW r, NEW x, NEW reuse, NEW fn, StartEval(r, x, reuse, fn)
    PROVE  ComputedHasValue' /\ MarkersCovered' /\ RootCovered'
<1>1. r \in Nat /\ stack' = <<r>>
  BY DEF StartEval, Indices
<1>2. MarkersCovered'
  BY <1>1 DEF MarkersCovered
<1>3. node_value' = node_value
  BY DEF StartEval
<1>4. ComputedHasValue'
  <2>1. CASE reuse = "invalidate"
    <3>1. node_computed' = <<>>
      BY <2>1 DEF StartEval, Invalidate
    <3> QED
      BY <3>1 DEF ComputedHasValue
  <2>2. CASE reuse # "invalidate"
    <3>1. node_computed' = node_computed
      BY <2>2 DEF StartEval, Invalidate
    <3> QED
      BY <1>3, <3>1 DEF PInv, ComputedHasValue
  <2> QED
    BY <2>1, <2>2
<1>5. RootCovered'
  <2>1. pc' = "eval" /\ call'.root = r
    BY DEF StartEval
  <2>2. Pending(r, 0)'
    BY <1>1 DEF Pending
  <2> QED
    BY <1>1, <2>1, <2>2 DEF RootCovered
<1> QED
  BY <1>2, <1>4, <1>5

\* A step of user code runs with no evaluation in progress and leaves B
\* and V alone.
LEMMA IdleStepPInv ==
    ASSUME PInv, pc = "idle", pc' = pc, stack' = stack,
           node_computed' = node_computed, node_value' = node_value
    PROVE  ComputedHasValue' /\ MarkersCovered' /\ RootCovered'
<1>1. stack = <<>>
  BY DEF PInv, IInv, IdleEmpty
<1>2. ComputedHasValue'
  BY DEF PInv, ComputedHasValue
<1>3. MarkersCovered'
  BY <1>1 DEF MarkersCovered
<1>4. RootCovered'
  BY DEF RootCovered
<1> QED
  BY <1>2, <1>3, <1>4

-----------------------------------------------------------------------------
(* IInv is inductive.                                                      *)

\* Every step of the system keeps IInv, when user code never hands a V
\* object of an earlier store to an operator.
LEMMA NextIInv ==
    ASSUME StaleOperands = FALSE, IInv, [Next]_vars
    PROVE  IInv'
<1>1. CASE \E d \in Dims : OpenX(d) \/ OpenXConcurrent(d)
  BY <1>1, OpenXIInv, OpenXConcurrentIInv
<1>2. CASE CloseX
  BY <1>2, CloseXIInv
<1>3. CASE \E c \in Consts : ConstructValue(c)
  BY <1>3, ConstructValueIInv
<1>4. CASE \E op \in Ops, l, r \in Handles : ConstructOperation(op, l, r)
  BY <1>4, ConstructOperationIInv
<1>5. CASE \E f \in Funcs, a \in Handles : ConstructFunction(f, a)
  BY <1>5, ConstructFunctionIInv
<1>6. CASE \E a \in Handles : ConstructNegate(a)
  BY <1>6, ConstructNegateIInv
<1>7. CASE \E r \in Handles \cap Indices : MakeIntermediate(r)
  BY <1>7, MakeIntermediateIInv
<1>8. CASE \E r \in Handles \cap Indices, x \in Inputs,
             reuse \in {"invalidate", "reuse"} : EvalNode(r, x, reuse)
  BY <1>8, EvalNodeIInv
<1>9. CASE \E w \in fns, x \in Inputs :
             CallIntermediate(w, x) \/ CallIntermediateDimMismatch(w, x)
  BY <1>9, CallIntermediateIInv, CallIntermediateDimMismatchIInv
<1>10. CASE EvalLoop
  BY <1>10, EvalSkipIInv, EvalLeafIInv, EvalExpandIInv, EvalAssertFailsIInv,
     EvalPostIInv, EvalReturnIInv DEF EvalLoop
<1>11. CASE UNCHANGED vars
  BY <1>11 DEF vars, IInv, TypeOK, OperandsPrecede, Indices, Node, IdleEmpty,
               StackInRange, StackEntries
<1>12. QED
  BY <1>1, <1>2, <1>3, <1>4, <1>5, <1>6, <1>7, <1>8, <1>9, <1>10, <1>11 DEF Next

\* Every step of the system keeps PInv.
LEMMA NextPInv ==
    ASSUME StaleOperands = FALSE, PInv, [Next]_vars
    PROVE  PInv'
<1>1. IInv'
  BY NextIInv DEF PInv
<1>2. ComputedHasValue' /\ MarkersCovered' /\ RootCovered'
  <2>1. CASE \E d \in Dims : OpenX(d) \/ OpenXConcurrent(d)
    BY <2>1, IdleStepPInv DEF OpenX, OpenXConcurrent, UserStep
  <2>2. CASE CloseX
    BY <2>2, IdleStepPInv DEF CloseX, UserStep
  <2>3. CASE \/ \E c \in Consts : ConstructValue(c)
             \/ \E op \in Ops, l, r \in Handles : ConstructOperation(op, l, r)
             \/ \E f \in Funcs, a \in Handles : ConstructFunction(f, a)
             \/ \E a \in Handles : ConstructNegate(a)
    BY <2>3, IdleStepPInv DEF ConstructValue, ConstructOperation,
       ConstructFunction, ConstructNegate, Recording, UserStep, ConstructUnchanged
  <2>4. CASE \E r \in Handles \cap Indices : MakeIntermediate(r)
    BY <2>4, IdleStepPInv DEF MakeIntermediate, Recording, UserStep
  <2>5. CASE \E r \in Handles \cap Indices, x \in Inputs,
               reuse \in {"invalidate", "reuse"} : EvalNode(r, x, reuse)
    BY <2>5, StartEvalPInv DEF EvalNode
  <2>6. CASE \E w \in fns, x \in Inputs :
               CallIntermediate(w, x) \/ CallIntermediateDimMismatch(w, x)
    BY <2>6, StartEvalPInv, IdleStepPInv DEF CallIntermediate,
       CallIntermediateDimMismatch, UserStep
  <2>7. CASE EvalLoop
    BY <2>7, EvalSkipPInv, EvalLeafPInv, EvalExpandPInv, EvalAssertFailsPInv,
       EvalPostPInv, EvalReturnPInv DEF EvalLoop
  <2>8. CASE UNCHANGED vars
    BY <2>8 DEF vars, PInv, ComputedHasValue, MarkersCovered, RootCovered,
                Done, Pending, Node
  <2> QED
    BY <2>1, <2>2, <2>3, <2>4, <2>5, <2>6, <2>7, <2>8 DEF Next
<1> QED
  BY <1>1, <1>2 DEF PInv

\* The initial state: nothing computed and an empty stack.
LEMMA InitPInv == Init => PInv
  BY InitIInv DEF Init, PInv, ComputedHasValue, MarkersCovered, RootCovered

\* PInv gives PostVisitReady: the marker on top has nothing above it, so
\* every operand of its node is computed.
LEMMA PInvPostVisitReady == PInv => PostVisitReady
<1> SUFFICES ASSUME PInv, pc = "eval", stack # <<>>, Top(stack) < 0,
                    NEW o \in Operands(Node(-Top(stack) - 1))
             PROVE  /\ o < Len(node_computed) /\ node_computed[o + 1]
                    /\ o < Len(node_value)
  BY DEF PostVisitReady
<1>1. Len(stack) \in Nat /\ Len(stack) >= 1
  BY EmptySeq, LenProperties DEF PInv, IInv, TypeOK
<1>2. Done(o) \/ Pending(o, Len(stack))
  BY <1>1 DEF PInv, MarkersCovered, Top
<1>3. ~Pending(o, Len(stack))
  BY <1>1 DEF Pending
<1> QED
  BY <1>2, <1>3 DEF Done

\* PInv gives ReturnReadsComputed: with the stack empty nothing is pending,
\* so the root is computed.
LEMMA PInvReturnReadsComputed == PInv => ReturnReadsComputed
<1> SUFFICES ASSUME PInv, pc = "eval", stack = <<>>
             PROVE  /\ call.root < Len(node_computed) /\ node_computed[call.root + 1]
                    /\ call.root < Len(node_value)
  BY DEF ReturnReadsComputed
<1>1. Done(call.root) \/ Pending(call.root, 0)
  BY DEF PInv, RootCovered
<1>2. ~Pending(call.root, 0)
  BY DEF Pending
<1> QED
  BY <1>1, <1>2 DEF Done

-----------------------------------------------------------------------------
(***************************************************************************)
(* Type correctness: every variable keeps the shape of the C++ member it   *)
(* models in every reachable state of the store, the recording sessions    *)
(* and eval_node, for every dimension, bound and value set.                *)
(***************************************************************************)
THEOREM TypeCorrect ==
    ASSUME StaleOperands = FALSE
    PROVE  Spec => []TypeOK
<1>1. Init => IInv
  BY InitIInv
<1>2. IInv /\ [Next]_vars => IInv'
  BY NextIInv
<1>3. IInv => TypeOK
  BY DEF IInv
<1>4. QED
  BY <1>1, <1>2, <1>3, PTL DEF Spec

(***************************************************************************)
(* The recorded graph is acyclic in index order: every operation and       *)
(* function node names only nodes allocated before it.  DECLARE_OP and     *)
(* DECLARE_FUNCTION store their operands' indices unchecked, so this rests *)
(* on user code naming only nodes of the current store.                    *)
(***************************************************************************)
THEOREM OperandsPrecedeInvariant ==
    ASSUME StaleOperands = FALSE
    PROVE  Spec => []OperandsPrecede
<1>1. Init => IInv
  BY InitIInv
<1>2. IInv /\ [Next]_vars => IInv'
  BY NextIInv
<1>3. IInv => OperandsPrecede
  BY DEF IInv
<1>4. QED
  BY <1>1, <1>2, <1>3, PTL DEF Spec


(***************************************************************************)
(* eval_node's loop invariant PInv holds in every reachable state: B is    *)
(* set only where V has a slot, below every `~d` marker on the stack each  *)
(* operand of d is computed or still has an entry above the marker, and   *)
(* the root of the call is computed or still has an entry on the stack.   *)
(***************************************************************************)
THEOREM LoopInvariant ==
    ASSUME StaleOperands = FALSE
    PROVE  Spec => []PInv
<1>1. Init => PInv
  BY InitPInv
<1>2. PInv /\ [Next]_vars => PInv'
  BY NextPInv
<1>3. QED
  BY <1>1, <1>2, PTL DEF Spec

(***************************************************************************)
(* The second visit of a node in eval_node reads only computed operands:   *)
(* whenever `~d` is on top of the stack, B[o] is set and V[o] exists for   *)
(* every operand o of d.  This rests on eval_node pushing `~i` before the  *)
(* operands of i, and holds for every graph, input and bound.              *)
(***************************************************************************)
THEOREM PostVisitReadyInvariant ==
    ASSUME StaleOperands = FALSE
    PROVE  Spec => []PostVisitReady
<1>1. PInv => PostVisitReady
  BY PInvPostVisitReady
<1>2. QED
  BY <1>1, LoopInvariant, PTL

(***************************************************************************)
(* eval_node never fails its final CURRENT_ASSERT(B[index]) and never      *)
(* returns V[index] from outside V: whenever its loop ends, for every call *)
(* and every reuse mode, the root is computed, for every dimension, bound *)
(* and value set, when no V object of an earlier store is reused.          *)
(***************************************************************************)
THEOREM ReturnReadsComputedInvariant ==
    ASSUME StaleOperands = FALSE
    PROVE  Spec => []ReturnReadsComputed
<1>1. PInv => ReturnReadsComputed
  BY PInvReturnReadsComputed
<1>2. QED
  BY <1>1, LoopInvariant, PTL
=============================================================================

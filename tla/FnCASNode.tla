----------------------------- MODULE FnCASNode -----------------------------
(***************************************************************************)
(* The thread-local expression store of FnCAS (src/FnCAS/fncas/node.h):   *)
(* the node arena `internals_impl`, the recording session `X`, the         *)
(* expression constructors (`V(double)`, the DECLARE_OP operators, the     *)
(* DECLARE_FUNCTION functions, unary minus), the recorded-function wrapper *)
(* `f_intermediate`, and the iterative evaluator `eval_node`, one loop     *)
(* iteration per step.                                                     *)
(*                                                                         *)
(* Node indices are the code's 0-based `node_index_type` values; vectors   *)
(* are TLA+ sequences, so element i of a vector is at position i + 1.      *)
(* Doubles are abstracted to terms of the free algebra over the leaf       *)
(* values: `apply_operation` and `apply_function` build a term that        *)
(* records which table entry was applied to which operand values, so two   *)
(* results are equal iff the same computation produced them.               *)
(***************************************************************************)
EXTENDS Integers, Sequences, FiniteSets

CONSTANTS
    Dims,          \* the dimensions `X(dim)` is constructed with
    InputVals,     \* the doubles an input vector x may hold
    Consts,        \* the doubles `V(double)` may be built from (0 included)
    Ops,           \* the operation_t tags: "add", "subtract", ...
    Funcs,         \* the function_t tags: "sqr", "exp", ...
    MaxNodes,      \* bound on the length of node_vector_
    MaxStack,      \* bound on the depth of eval_node's explicit stack
    MaxSessions,   \* bound on the number of X objects constructed
    MaxFns,        \* bound on the number of f_intermediate objects
    StaleOperands, \* TRUE: user code may combine V handles of a reset store
    NoValue        \* model value: no call made yet / a call that failed

ASSUME DimsAssumption == Dims \subseteq Nat \ {0} /\ Dims # {}
ASSUME BoundsAssumption ==
    /\ MaxNodes \in Nat /\ MaxStack \in Nat /\ MaxSessions \in Nat
    /\ MaxFns \in Nat
ASSUME ConstsAssumption == 0 \in Consts
ASSUME OpsAssumption == "subtract" \in Ops
ASSUME StaleAssumption == StaleOperands \in BOOLEAN

VARIABLES
    dim,           \* internals_impl::dim_
    x_ptr,         \* internals_impl::x_ptr_ # nullptr
    node_vector,   \* internals_impl::node_vector_
    node_value,    \* internals_impl::node_value_   (eval_node's V)
    node_computed, \* internals_impl::node_computed_ (eval_node's B)
    pc,            \* "idle", or "eval" while eval_node's loop runs
    stack,         \* eval_node's std::stack, bottom first
    call,          \* the running or last eval_node call
    ret,           \* how the last call ended
    gen,           \* ghost: number of X objects constructed so far
    memo,          \* ghost: the input and session node_computed_ was filled for
    fns,           \* ghost: the f_intermediate objects built so far
    high           \* ghost: the largest length node_vector_ ever had

vars == <<dim, x_ptr, node_vector, node_value, node_computed, pc, stack,
          call, ret, gen, memo, fns, high>>

-----------------------------------------------------------------------------
(* Node records: what `node_impl::type()` and its accessors read.          *)

\* Mutation: X's loop numbering its variables from -1 (checks TypeOK).
VariableNodeOffByOne(v) == [type |-> "variable", variable |-> v - 1]
VariableNode(v) == [type |-> "variable", variable |-> v]
ValueNode(c) == [type |-> "value", value |-> c]
OperationNode(op, l, r) == [type |-> "operation", operation |-> op, lhs |-> l, rhs |-> r]
FunctionNode(f, a) == [type |-> "function", function |-> f, argument |-> a]
\* A node appended by `node_index_allocator(allocate_new)` and never
\* written: the zero-filled slots `X`'s `resize(dim)` leaves behind.
BlankNode == [type |-> "blank"]

NodeT ==
    [type : {"variable"}, variable : Nat] \cup [type : {"value"}, value : Consts]
    \cup [type : {"operation"}, operation : Ops, lhs : Nat, rhs : Nat]
    \cup [type : {"function"}, function : Funcs, argument : Nat] \cup {BlankNode}

\* node i of the store.
Node(i) == node_vector[i + 1]
Indices == 0 .. Len(node_vector) - 1

\* The values eval_node stores: leaves and applied table entries.
Num(n) == <<"num", n>>
apply_operation(op, l, r) == <<"op", op, l, r>>
apply_function(f, a) == <<"fn", f, a>>

\* growing_vector_access(v, i, d) = x: v extended with d up to index i.
Grow(v, i, d) ==
    IF i < Len(v) THEN v ELSE v \o [k \in 1 .. (i + 1 - Len(v)) |-> d]
GrowSet(v, i, d, x) == [Grow(v, i, d) EXCEPT ![i + 1] = x]

\* The `~i` marker eval_node pushes for the second visit of node i.
Post(i) == -i - 1

\* The outcome of the last call: eval_node returned V[index], or the call
\* ended in a thrown exception or a failed CURRENT_ASSERT.
Returned == <<"returned">>
Failed(what) == <<"failed", what>>

Top(s) == s[Len(s)]
Pop(s) == SubSeq(s, 1, Len(s) - 1)

\* The input vectors the callers pass.
Inputs == UNION {[1 .. k -> InputVals] : k \in Dims}

\* Operands user code may name: a handle of the current store, or, when
\* StaleOperands, a V object kept from a store that has since been reset.
Handles ==
    {i \in Indices : Node(i).type # "blank"}
    \cup (IF StaleOperands THEN 0 .. high - 1 ELSE {})

(***************************************************************************)
(* The value node r denotes at input x: the recursive definition eval_node *)
(* computes iteratively.  A recursive function, not a RECURSIVE operator.  *)
(***************************************************************************)
RefValue(g, x, r) ==
    LET val[i \in 0 .. Len(g) - 1] ==
          LET n == g[i + 1] IN
          CASE n.type = "variable" ->
                 IF n.variable < Len(x) THEN Num(x[n.variable + 1]) ELSE NoValue
            [] n.type = "value" -> Num(n.value)
            [] n.type = "operation" /\ n.lhs < i /\ n.rhs < i ->
                 apply_operation(n.operation, val[n.lhs], val[n.rhs])
            [] n.type = "function" /\ n.argument < i ->
                 apply_function(n.function, val[n.argument])
            [] OTHER -> NoValue
    IN val[r]

-----------------------------------------------------------------------------
Init ==
    /\ dim = 0
    /\ x_ptr = FALSE
    /\ node_vector = <<>>
    /\ node_value = <<>>
    /\ node_computed = <<>>
    /\ pc = "idle"
    /\ stack = <<>>
    /\ call = NoValue
    /\ ret = NoValue
    /\ gen = 0
    /\ memo = [x |-> NoValue, gen |-> 0]
    /\ fns = {}
    /\ high = 0

\* Appending nodes: node_index_allocator(allocate_new) resizes node_vector_.
Allocate(nodes) ==
    /\ Len(node_vector) + Len(nodes) <= MaxNodes
    /\ node_vector' = node_vector \o nodes
    /\ high' = IF Len(node_vector') > high THEN Len(node_vector') ELSE high

UserStep == pc = "idle"

\* User code records an expression inside the scope of its X.  (The code
\* lets V objects be combined outside any X too; the model leaves that out.)
Recording == UserStep /\ x_ptr

(***************************************************************************)
(* X::X(dim): refuse a second session, reset the store (node_vector_ and   *)
(* df_, but not node_value_ or node_computed_), claim it, then             *)
(* `resize(dim)` allocates dim blank nodes and the loop dim variables.     *)
(***************************************************************************)
OpenX(d) ==
    /\ UserStep
    /\ ~x_ptr
    /\ gen < MaxSessions
    /\ 2 * d <= MaxNodes
    /\ x_ptr' = TRUE
    /\ dim' = d
    /\ node_vector' = [k \in 1 .. d |-> BlankNode]
                      \o [k \in 1 .. d |-> VariableNode(k - 1)]
    /\ high' = IF 2 * d > high THEN 2 * d ELSE high
    /\ gen' = gen + 1
    /\ UNCHANGED <<node_value, node_computed, pc, stack, call, ret, memo, fns>>

\* X::X(dim) while another X holds the store: throws
\* FnCASConcurrentEvaluationAttemptException before touching anything.
OpenXConcurrent(d) ==
    /\ UserStep
    /\ x_ptr
    /\ ret' = Failed("FnCASConcurrentEvaluationAttemptException")
    /\ UNCHANGED <<dim, x_ptr, node_vector, node_value, node_computed, pc,
                   stack, call, gen, memo, fns, high>>

\* X::~X() of the X that holds the store; node_vector_ stays as it is.
CloseX ==
    /\ UserStep
    /\ x_ptr
    /\ x_ptr' = FALSE
    /\ dim' = 0
    /\ UNCHANGED <<node_vector, node_value, node_computed, pc, stack, call,
                   ret, gen, memo, fns, high>>

ConstructUnchanged ==
    UNCHANGED <<dim, x_ptr, node_value, node_computed, pc, stack, call, ret,
                gen, memo, fns>>

\* V(double): one value node.
ConstructValue(c) ==
    /\ Recording
    /\ Allocate(<<ValueNode(c)>>)
    /\ ConstructUnchanged

\* lhs OP rhs (and lhs OP= rhs): `V result;` allocates, then stores the
\* operand indices as they are.
ConstructOperation(op, l, r) ==
    /\ Recording
    /\ Allocate(<<OperationNode(op, l, r)>>)
    /\ ConstructUnchanged

\* F(argument) for F of DECLARE_FUNCTION.
ConstructFunction(f, a) ==
    /\ Recording
    /\ Allocate(<<FunctionNode(f, a)>>)
    /\ ConstructUnchanged

\* Mutation: the subtract node naming the index after the 0 node, that is
\* itself (checks OperandsPrecede).
ConstructNegateOffByOne(a) ==
    /\ Recording
    /\ Allocate(<<ValueNode(0),
                OperationNode("subtract", Len(node_vector) + 1, a)>>)
    /\ ConstructUnchanged

\* -x is `0.0 - x`: a value node 0, then a subtract node.
ConstructNegate(a) ==
    /\ Recording
    /\ Allocate(<<ValueNode(0),
                OperationNode("subtract", Len(node_vector), a)>>)
    /\ ConstructUnchanged

\* f_intermediate(const V& f): keeps the index only.  The ghost record also
\* keeps the graph, the dimension and the session it was recorded in.
MakeIntermediate(r) ==
    /\ Recording
    /\ Cardinality(fns) < MaxFns
    /\ fns' = fns \cup {[root |-> r, graph |-> node_vector, dim |-> dim, gen |-> gen]}
    /\ UNCHANGED <<dim, x_ptr, node_vector, node_value, node_computed, pc,
                   stack, call, ret, gen, memo, high>>

-----------------------------------------------------------------------------
(***************************************************************************)
(* eval_node(index, x, reuse): clear B on invalidate, seed the stack.      *)
(* `memo` records the input the computed flags are meant to hold values    *)
(* for; a Reuse call at another input mixes two inputs (NoValue).          *)
(***************************************************************************)
\* Mutation: invalidate leaving B as it is (checks EvalReturnsReference).
InvalidateNothing(B, reuse) == B

\* `if (reuse == reuse_cache::invalidate) B.clear();`
Invalidate(B, reuse) == IF reuse = "invalidate" THEN <<>> ELSE B

StartEval(r, x, reuse, fn) ==
    /\ r \in Indices
    /\ pc' = "eval"
    /\ stack' = <<r>>
    /\ node_computed' = Invalidate(node_computed, reuse)
    /\ call' = [root |-> r, x |-> x, reuse |-> reuse, fn |-> fn,
                memo |-> memo, gen |-> gen]
    /\ memo' = CASE reuse = "invalidate" -> [x |-> x, gen |-> gen]
                  [] memo.x = x -> memo
                  [] OTHER -> [x |-> NoValue, gen |-> memo.gen]
    /\ UNCHANGED <<dim, x_ptr, node_vector, node_value, ret, gen, fns, high>>

\* V::operator()(x, reuse).
EvalNode(r, x, reuse) ==
    /\ UserStep
    /\ StartEval(r, x, reuse, NoValue)

\* f_intermediate::operator()(x): CURRENT_ASSERT(x.size() == dim()), where
\* dim() is the store's current dim_, then eval_node with invalidate.
CallIntermediate(w, x) ==
    /\ UserStep
    /\ Len(x) = dim
    /\ StartEval(w.root, x, "invalidate", w)

CallIntermediateDimMismatch(w, x) ==
    /\ UserStep
    /\ Len(x) # dim
    /\ ret' = Failed("x.size() == dim()")
    /\ UNCHANGED <<dim, x_ptr, node_vector, node_value, node_computed, pc,
                   stack, call, gen, memo, fns, high>>

(***************************************************************************)
(* One iteration of eval_node's loop pops i.  A first visit (i > ~i, that  *)
(* is i >= 0) reads B[i] through growing_vector_access, which grows B,     *)
(* and then skips a computed node, stores a leaf's value, or pushes ~i and *)
(* the operands; a second visit (~i) applies the node's table entry to its *)
(* operands' values.  Each outcome is an action of its own.                *)
(***************************************************************************)
Visiting == pc = "eval" /\ stack # <<>>

\* The value a leaf stores in V: x[v] for a variable, the constant else.
LeafValue(f, x) ==
    IF f.type = "variable" THEN Num(x[f.variable + 1]) ELSE Num(f.value)

\* Mutations of the pushes: ~i pushed after the operands (checks
\* PostVisitReady); i pushed instead of ~i (checks EvalTerminates).
ExpandPostLast(i, f) ==
    IF f.type = "operation" THEN <<f.lhs, f.rhs, Post(i)>> ELSE <<f.argument, Post(i)>>
ExpandSelf(i, f) ==
    IF f.type = "operation" THEN <<i, f.lhs, f.rhs>> ELSE <<i, f.argument>>

\* Mutation: the operands pushed without the marker ~i (checks
\* ReturnReadsComputed).
ExpandNoPost(i, f) ==
    IF f.type = "operation" THEN <<f.lhs, f.rhs>> ELSE <<f.argument>>

\* What a first visit of an operation or function node pushes, in order.
Expand(i, f) ==
    IF f.type = "operation" THEN <<Post(i), f.lhs, f.rhs>>
                            ELSE <<Post(i), f.argument>>

\* Mutation: the operands passed to apply_operation swapped (checks CacheSound).
PostValueSwapped(f) ==
    IF f.type = "operation"
    THEN apply_operation(f.operation, node_value[f.rhs + 1], node_value[f.lhs + 1])
    ELSE apply_function(f.function, node_value[f.argument + 1])

\* What the second visit stores: the table entry applied to V[operands].
PostValue(f) ==
    IF f.type = "operation"
    THEN apply_operation(f.operation, node_value[f.lhs + 1], node_value[f.rhs + 1])
    ELSE apply_function(f.function, node_value[f.argument + 1])

EvalUnchanged == UNCHANGED <<dim, x_ptr, node_vector, call, gen, memo, fns, high>>

\* First visit of a node already computed: `if (!B[i])` fails.
EvalSkip ==
    /\ Visiting
    /\ Top(stack) >= 0
    /\ Grow(node_computed, Top(stack), FALSE)[Top(stack) + 1]
    /\ stack' = Pop(stack)
    /\ node_computed' = Grow(node_computed, Top(stack), FALSE)
    /\ UNCHANGED <<node_value, pc, ret>>
    /\ EvalUnchanged

\* First visit of a variable (v < x.size()) or a value: V[i] = ..., B[i] = true.
EvalLeaf ==
    /\ Visiting
    /\ LET i == Top(stack)
           f == Node(i)
       IN /\ i >= 0
          /\ ~Grow(node_computed, i, FALSE)[i + 1]
          /\ \/ f.type = "variable" /\ f.variable < Len(call.x)
             \/ f.type = "value"
          /\ stack' = Pop(stack)
          /\ node_value' = GrowSet(node_value, i, NoValue, LeafValue(f, call.x))
          /\ node_computed' = GrowSet(node_computed, i, FALSE, TRUE)
    /\ UNCHANGED <<pc, ret>>
    /\ EvalUnchanged

\* First visit of an operation or a function: push ~i, then the operands.
EvalExpand ==
    /\ Visiting
    /\ LET i == Top(stack)
           f == Node(i)
       IN /\ i >= 0
          /\ ~Grow(node_computed, i, FALSE)[i + 1]
          /\ f.type \in {"operation", "function"}
          /\ Len(stack) - 1 + Len(Expand(i, f)) <= MaxStack
          /\ stack' = Pop(stack) \o Expand(i, f)
          /\ node_computed' = Grow(node_computed, i, FALSE)
    /\ UNCHANGED <<node_value, pc, ret>>
    /\ EvalUnchanged

\* First visit of a variable v >= x.size() (CURRENT_ASSERT(v < x.size()))
\* or of a node of no known type (CURRENT_ASSERT(false)): the call ends.
EvalAssertFails ==
    /\ Visiting
    /\ LET i == Top(stack)
           f == Node(i)
       IN /\ i >= 0
          /\ ~Grow(node_computed, i, FALSE)[i + 1]
          /\ \/ f.type = "variable" /\ f.variable >= Len(call.x)
             \/ f.type \notin {"variable", "value", "operation", "function"}
          /\ node_computed' = Grow(node_computed, i, FALSE)
    /\ stack' = <<>>
    /\ pc' = "idle"
    /\ ret' = Failed("CURRENT_ASSERT")
    /\ UNCHANGED node_value
    /\ EvalUnchanged

\* Second visit of node d = ~i: V[d] = apply(...), B[d] = true.
EvalPost ==
    /\ Visiting
    /\ Top(stack) < 0
    /\ LET d == -Top(stack) - 1 IN
       /\ stack' = Pop(stack)
       /\ node_value' = GrowSet(node_value, d, NoValue, PostValue(Node(d)))
       /\ node_computed' = GrowSet(node_computed, d, FALSE, TRUE)
    /\ UNCHANGED <<pc, ret>>
    /\ EvalUnchanged

\* The loop is done: CURRENT_ASSERT(B[index]); return V[index].
EvalReturn ==
    /\ pc = "eval"
    /\ stack = <<>>
    /\ pc' = "idle"
    /\ ret' = Returned
    /\ call' = NoValue
    /\ UNCHANGED <<dim, x_ptr, node_vector, node_value, node_computed, stack,
                   gen, memo, fns, high>>

\* eval_node's loop and its return.
EvalLoop ==
    EvalSkip \/ EvalLeaf \/ EvalExpand \/ EvalAssertFails \/ EvalPost \/ EvalReturn

-----------------------------------------------------------------------------
Next ==
    \/ \E d \in Dims : OpenX(d) \/ OpenXConcurrent(d)
    \/ CloseX
    \/ \E c \in Consts : ConstructValue(c)
    \/ \E op \in Ops, l, r \in Handles : ConstructOperation(op, l, r)
    \/ \E f \in Funcs, a \in Handles : ConstructFunction(f, a)
    \/ \E a \in Handles : ConstructNegate(a)
    \/ \E r \in Handles \cap Indices : MakeIntermediate(r)
    \/ \E r \in Handles \cap Indices, x \in Inputs, reuse \in {"invalidate", "reuse"} :
         EvalNode(r, x, reuse)
    \/ \E w \in fns, x \in Inputs :
         \/ CallIntermediate(w, x)
         \/ CallIntermediateDimMismatch(w, x)
    \/ EvalLoop

\* eval_node is a synchronous loop on the caller's thread: once entered it
\* runs until it returns, so its steps are weakly fair.
Spec == Init /\ [][Next]_vars /\ WF_vars(EvalLoop)


-----------------------------------------------------------------------------
(***************************************************************************)
(*                              Properties                                 *)
(***************************************************************************)
FnT == [root : Nat, graph : Seq(NodeT), dim : Nat, gen : Nat]
MemoT == [x : Inputs \cup {NoValue}, gen : Nat]
CallT ==
    [root : Nat, x : Inputs, reuse : {"invalidate", "reuse"},
     fn : {NoValue} \cup FnT, memo : MemoT, gen : Nat]
Outcome ==
    {NoValue, Returned}
    \cup {Failed(w) : w \in {"FnCASConcurrentEvaluationAttemptException",
                             "x.size() == dim()", "CURRENT_ASSERT"}}

\* The variables keep the shapes of the C++ members they model.
TypeOK ==
    /\ dim \in Nat
    /\ x_ptr \in BOOLEAN
    /\ node_vector \in Seq(NodeT)
    /\ node_computed \in Seq(BOOLEAN)
    /\ DOMAIN node_value = 1 .. Len(node_value)
    /\ pc \in {"idle", "eval"}
    /\ stack \in Seq(Int)
    /\ call \in {NoValue} \cup CallT
    /\ ret \in Outcome
    /\ gen \in Nat
    /\ memo \in MemoT
    /\ fns \subseteq FnT
    /\ high \in Nat

\* The operand indices a node stores.
Operands(n) ==
    CASE n.type = "operation" -> {n.lhs, n.rhs}
      [] n.type = "function" -> {n.argument}
      [] OTHER -> {}

\* Every node refers only to nodes allocated before it: the store is a DAG
\* in index order, which is what makes eval_node's loop terminate.
OperandsPrecede ==
    \A i \in Indices : \A o \in Operands(Node(i)) : o < i

(***************************************************************************)
(* eval_node's loop invariant: when the `~i` marker of a node is on top of *)
(* the stack, every operand of it has been computed (B set, V holding a    *)
(* value), so the second visit reads V[lhs], V[rhs] that are there.  The   *)
(* order of the three pushes in eval_node is what this rests on.           *)
(***************************************************************************)
PostVisitReady ==
    (pc = "eval" /\ stack # <<>> /\ Top(stack) < 0) =>
        \A o \in Operands(Node(-Top(stack) - 1)) :
            /\ o < Len(node_computed) /\ node_computed[o + 1]
            /\ o < Len(node_value)

(***************************************************************************)
(* When eval_node's loop ends, CURRENT_ASSERT(B[index]) holds and          *)
(* `return V[index]` reads a slot that exists: the root has been computed, *)
(* for every call, Reuse with a stale memo included.  Broken by a first    *)
(* visit that pops a node without leaving its marker behind.               *)
(***************************************************************************)
ReturnReadsComputed ==
    (pc = "eval" /\ stack = <<>>) =>
        /\ call.root < Len(node_computed) /\ node_computed[call.root + 1]
        /\ call.root < Len(node_value)

\* The memo is meant for one input, and was filled in the current session.
MemoValid == memo.x # NoValue /\ memo.gen = gen

(***************************************************************************)
(* The evaluator's memo holds the truth: while node_computed_ was filled   *)
(* in this session at one input, every node flagged computed has in        *)
(* node_value_ the value its subgraph denotes at that input.  Broken by a  *)
(* second visit that reads the wrong operand, a leaf that stores the wrong *)
(* input, or an invalidate that does not clear the flags.                  *)
(***************************************************************************)
CacheSound ==
    MemoValid =>
        \A i \in 0 .. Len(node_computed) - 1 :
            node_computed[i + 1] =>
                /\ i \in Indices /\ i < Len(node_value)
                /\ node_value[i + 1] = RefValue(node_vector, memo.x, i)

\* A Reuse call honours the caller's contract: the memo is for the same
\* input and was filled in this same session.
Trusted(c) == c.reuse = "invalidate" \/ (c.memo.x = c.x /\ c.memo.gen = c.gen)

(***************************************************************************)
(* eval_node returns the value of its root at its input, for an Invalidate *)
(* call and for a Reuse call that follows calls at the same input in the   *)
(* same recording session (V::operator(), f_intermediate::operator()).     *)
(***************************************************************************)
EvalReturnsReference ==
    [][EvalReturn /\ Trusted(call) =>
         node_value[call.root + 1] = RefValue(node_vector, call.x, call.root)]_vars

\* Spec 4.4/3: Reuse is safe whenever the previous calls used the same input,
\* since opening a session clears every cache.
SpecTrusted(c) == c.reuse = "invalidate" \/ c.memo.x = c.x

\* The same, under the spec's contract that ignores session boundaries.
EvalReturnsReferenceAcrossSessions ==
    [][EvalReturn /\ SpecTrusted(call) =>
         node_value[call.root + 1] = RefValue(node_vector, call.x, call.root)]_vars

(***************************************************************************)
(* A recorded function evaluates the graph it was recorded from: calling   *)
(* an f_intermediate returns its root's value in that graph (spec 3/4.6:   *)
(* a stale handle must not silently succeed against a different graph).    *)
(***************************************************************************)
WrapperEvaluatesOwnGraph ==
    [][EvalReturn /\ call.fn # NoValue =>
         node_value[call.root + 1] = RefValue(call.fn.graph, call.x, call.root)]_vars

(***************************************************************************)
(* A recorded function accepts the inputs of the dimension it was recorded *)
(* with (spec 3/4.6: the wrapper holds the dimension captured at recording *)
(* time), also once its X is gone: f_intermediate::operator() never fails  *)
(* its dimension assertion for such an input.                              *)
(***************************************************************************)
WrapperKeepsRecordedDim ==
    [][\A w \in fns, x \in Inputs :
         CallIntermediateDimMismatch(w, x) => Len(x) # w.dim]_vars

\* Every call of eval_node returns: its loop runs to completion.
EvalTerminates == pc = "eval" ~> pc = "idle"

=============================================================================

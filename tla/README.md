# TLA+ models of Current: FnCAS, Karl's renderer, Storage REST and the speedtest sender

This directory holds TLA+ models of the code under `src/`. The models are
checked with TLC on small instances and, where it matters most, proved with
TLAPS for every value of the constants. `PROJECT.json` lists, in machine-readable form:

- the components;
- the runs;
- the mutants that show each checked property can fail;
- the map from every modelling definition to the source lines it translates;
- the findings;
- the hazards;
- the theorems.

## The system

The repository sample has six source files. Four of them hold stateful or
concurrent logic, and each of the four has a module.

| Part | Source | Status |
|---|---|---|
| Node store `internals_impl`, node records `node_impl`, allocator | `src/FnCAS/fncas/node.h` 89-155, 224-235 | modelled |
| Recording session `X` | node.h 372-402 | modelled |
| Expression construction: `V(double)`, `DECLARE_OP`, `DECLARE_FUNCTION`, unary minus | node.h 242-271, 483-557 | partly |
| Evaluator `eval_node` | node.h 158-217 | modelled |
| Wrappers `f_intermediate`, `f_native` | node.h 404-445 | partly |
| Differentiator (hook and `df_` memo only) | node.h 105-106, 237-239, 293-298 | not modelled |
| `debug_as_string` | node.h 272-288 | not modelled |
| Karl status renderer `Render` | `src/Karl/render.h` 59-231 | modelled |
| Storage REST `Basic` handlers | `src/Storage/rest/basic.h` 40-144 | modelled |
| Speedtest sender `main` | `src/examples/streamed_sockets/speedtest/sender.cc` 18-85 | modelled |
| dlopen example `main` | `src/examples/dynamic_dlopen/example.cc` | not modelled |
| Bricks util tests | `src/Bricks/util/test.cc` | not modelled |

How the FnCAS parts interact:

- A thread-local `internals_impl` holds every node. A `V` is an index into it.
- `X(dim)` claims the store, calls `reset()`, then lets `resize(dim)` allocate
  `dim` zero-filled nodes followed by `dim` variable nodes. Variable `i` is
  therefore node `dim + i`.
- Every operator and function allocates one node whose operands are the indices
  of its arguments.
- `eval_node(index, x, reuse)` computes a node's value with an explicit stack.
  It memoises in `node_value_` (V) and `node_computed_` (B). B is cleared only
  when `reuse == invalidate`.
- `f_intermediate` keeps a root `V`. Calling it asserts
  `x.size() == dim()` and evaluates with invalidate.

## Modules

**`FnCASNode.tla`** is the store, the session, construction, the wrapper and
the evaluator, with one action per operation:

- `OpenX`, `OpenXConcurrent` (the throw) and `CloseX`.
- `ConstructValue`, `ConstructOperation`, `ConstructFunction` and
  `ConstructNegate`.
- `MakeIntermediate`, `CallIntermediate`, `CallIntermediateDimMismatch` and
  `EvalNode`.
- One action per outcome of a loop iteration of `eval_node`: `EvalSkip`,
  `EvalLeaf`, `EvalExpand`, `EvalAssertFails` and `EvalPost`. `EvalReturn` is
  the final assertion and return.

The variables correspond to the code as follows:

- `dim`, `x_ptr`, `node_vector`, `node_value` and `node_computed` are the
  members of `internals_impl`.
- `pc` and `stack` are the evaluator's loop. `call` is the running call.
- The ghosts are `gen` (sessions opened), `memo` (the input and session B was
  filled for), `fns` (wrapper records that also keep the graph and dimension
  they were recorded with) and `high` (the longest the store ever was).

Indices are the code's 0-based values, so node `i` is `node_vector[i + 1]`.

Doubles are abstracted to terms of a free algebra:

- `Num(c)` is a leaf value.
- `apply_operation(op, l, r)` and `apply_function(f, a)` build terms.
- Two values are equal exactly when the same computation produced them.

This is enough to tell a correct result from a value computed for another
graph, another input or with operands swapped. `RefValue` is the reference
meaning of a node: a recursive function (not a `RECURSIVE` operator) over the
node indices.

The zero-filled nodes `X` leaves at indices `0 .. dim-1` are `BlankNode`.
Their type tag is whatever `type_t`'s zero is; `type_t` is declared outside
`src/`. The model treats them as nodes of no known type, so evaluating one
fails `CURRENT_ASSERT(false)`.

`StaleOperands` says whether user code may pass a `V` kept from a store that
has since been reset. The code does not prevent it.

**`MC_FnCASNode.tla`** gives the constants their small values.

**`FnCASNodeProofs.tla`** holds the TLAPS proofs and the invariant `PInv`.
`MC_FnCASNode.tla` extends it, so the loop run checks `PInv` too. It proves
`PostVisitReady` and `ReturnReadsComputed`.

**`KarlRender.tla`** is `Render()` of render.h, which turns Karl's status
into a GraphViz graph. Its state is the loops' position (`stage`, `todo`),
the `services` map from codename to node, `machines` and the `graph` built so
far. Actions:

- `AddService`: one pass of the first loop. The node is built, added, stored
  under its codename and listed under its machine.
- `AddEdges`: one service of the second loop. An edge is drawn from its node
  to the node of each dependency. Both lookups use `operator[]`, and `Touch`
  models its default insertion of `Node()` (`BlankNode`) for a missing key.
- `AddGroup`: one machine of the third loop.
- `EndLoop`: a loop ends; the next starts, or Render returns.

The HTML of a node is left out: a node is the pair `<<ip, codename>>` it was
built from. The status maps are iterated in every order. `Statuses` keeps a
codename on at most one machine, as Karl's registry does (a codename names one
service); this is the one spec-modelled restriction.

**`KarlRenderProofs.tla`** holds the proof of `RenderMatchesStatus` and its
inductive invariant `RInv`. `MC_KarlRender.tla` extends it, so the render
run checks `RInv` too.

**`SpeedtestSender.tla`** is the send loop of sender.cc. Its variables are the
locals of the loop (`total_bytes_sent`, `history`, `t_next_output`,
`t_last_successful_receive`), `connected` (inside the inner loop), the clock
`now` and the ghost `shown` (front and back of the last printed window).
Actions:

- `Connect` and `ConnectFails`: the outer loop's connection, or the caught
  `SocketConnectException`.
- `Write`: one pass of the inner loop, with the write taking `d` ticks. It
  updates the counters, appends a sample and, when the output time has come,
  trims the window with `Trim` and prints it.
- `Stall`: a `BlockingWrite` that has not returned while time passes.
- `WriteFails`: an exception out of the write; the outer loop reconnects.

`Trim` is the `pop_front` loop as a function of the history. `SizeCutoff` is
line 63, with its guard against size_t wrap-around. Every call of
`current::time::Now()` is modelled as a later tick than the one before; the
clock is outside `src/`. Counters are taken modulo `SizeModulus`.

**`SpeedtestSenderProofs.tla`** holds the sender's TLAPS proofs and the
invariant `SInv`. `MC_SpeedtestSender.tla` extends it, so the window run
checks `SInv` too.

**`RestMap.tla`** is the abstract specification of a keyed REST resource over
one storage field. Each request that arrives is answered once. The answer
(`Answer`) and the change of the field (`Effect`) happen at one instant, as if
the request were served alone against a map.

**`RestBasic.tla`** is the `Basic` handlers of basic.h, serving one field to
concurrent requests. Each request `r` moves through the phases
`enter -> body -> run -> put -> done`. The actions are:

- `ExtractKeyFromURLAndNext`, `EnterPOST` and `ErrorMethodNotAllowed`: the
  `Enter` hooks.
- `ParseBody`: the parse of the JSON body, answering `ErrorBadJSON` when it
  fails.
- `RunGET`, `RunPOST`, `RunDELETE` and `RunPUTMismatch`: the `Run` of each
  verb.
- `RunPUTExists` and `RunPUTAdd`: the two halves of PUT's `Run`, the `Exists`
  read and the `Add`.

The framework that calls these hooks, and the storage that runs each `Run`
inside a read-write transaction, are outside `src/`. The model takes their
order from the spec: transactions are serialized, and `txn` is the one that
runs. `Map == INSTANCE RestMap WITH store <- field, asked <- req, answer <-
resp` is the refinement mapping. The internal phases, the extracted key, PUT's
`exists` and the transaction slot are hidden.

Response texts are abstracted to one name per message.

## Runs

| Run | cfg | Expect | What it shows |
|---|---|---|---|
| eval | `FnCASNode_eval.cfg` | pass | `TypeOK`, `OperandsPrecede`, `CacheSound`, `EvalReturnsReference` |
| loop | `FnCASNode_loop.cfg` | pass | `PostVisitReady`, `ReturnReadsComputed`, `PInv` |
| live | `FnCASNode_live.cfg` | pass | `EvalTerminates` under weak fairness of the loop |
| short | `FnCASNode_short.cfg` | pass | `CacheSound`, `EvalReturnsReference` with inputs shorter than the recording |
| reset | `FnCASNode_reset.cfg` | violation | Reuse across a new `X` returns the previous graph's value |
| stalefn | `FnCASNode_stalefn.cfg` | violation | a wrapper of an earlier session evaluates the new graph |
| staleop | `FnCASNode_staleop.cfg` | violation | a stale handle creates a self- or forward reference |
| wrapdim | `FnCASNode_wrapdim.cfg` | violation | a wrapper rejects inputs of its own dimension once its `X` is gone |
| render | `KarlRender_render.cfg` | pass | `RenderMatchesStatus`, `RInv` |
| sender_window | `SpeedtestSender_window.cfg` | pass | `ReportWellFormed`, `SInv`, `TrimKeepsWindow` |
| sender_nosend | `SpeedtestSender_nosend.cfg` | violation | the no-sends timeout of the flags is never enforced |
| rest_map | `RestBasic_map.cfg` | pass | `IInv`, `MapRefined` (RestMap's `Spec`, fairness included) |

What the properties say:

- `PostVisitReady`: when a `~i` marker is on top of the stack, every operand
  of `i` has B set and a V slot. This rests on the push order at node.h
  188-193.
- `ReturnReadsComputed`: when the stack of a call is empty and the final
  assertion `CURRENT_ASSERT(B[index])` (node.h) is about to run, the root has
  B set and a V slot, so the assertion holds and the return reads a value.
- `PInv`: the inductive form of `PostVisitReady` (see Proofs). Below every
  `~d` marker on the stack, each operand of `d` is computed or still has an
  entry, `o` or `~o`, above the marker. B is set only where V has a slot.
- `CacheSound`: while B was filled in this session at one input, every
  flagged node holds its reference value.
- `EvalReturnsReference`: every Invalidate call, and every Reuse call that
  follows calls at the same input in the same session, returns
  `RefValue(root)`.
- `EvalTerminates`: every call of `eval_node` ends, by returning or by a
  failed assertion.

- `RenderMatchesStatus`: when Render returns, the graph is `Expected(status)`.
  This is the graph defined over the whole status at once: one node per
  service, one group per machine, and an edge from each service to the node
  of each dependency. A dependency the status does not hold gets the blank
  `Node()` that `operator[]` inserted.
- `RInv`: the inductive form of `RenderMatchesStatus` (see Proofs): at each
  loop the graph is exactly what the pairs visited so far call for.
- `ReportWellFormed`: every printed window spans a positive time and a
  positive byte count, so `gb / s` at line 71 never divides by zero. It holds
  because the trim loop keeps two samples, and a reconnect starts a fresh
  history.
- `TrimKeepsWindow` (an action property): a write drops only samples that are
  out of the window by the flags' measure, computed in true integers.
- `SInv`: the sender's inductive invariant (see Proofs). The byte counter
  stays within one buffer per tick. The history is strictly increasing in
  time and bytes, and bounded by the clock and the counter.
- `NoSendTimeout`: while connected, the last successful send is never further
  back than `max_seconds_of_no_sends`. It is violated: nothing reads the flag.
- `IInv`: the inductive invariant of the refinement proof (see Proofs).
- `MapRefined`: RestBasic implements `RestMap!Spec`.

The five violation runs are the findings of `PROJECT.json`. The FnCAS ones compare
what the code does with what `spec.md` says (§3, §4.1, §4.3, §4.6, §8).
`sender_nosend` compares it with the flag's own help text.

**Bounds.** Each bound is chosen so that the interesting case happens.

- `MaxNodes = 4` holds a one-dimensional `X` (a blank node and a variable)
  plus two constructed nodes. That is enough for a shared operand, a
  value/subtract pair from unary minus, and a node whose operand is a node of
  the previous session.
- `MaxSessions = 2` is the least that shows anything across a reset.
- Two input values make Reuse at a different input observable. The loop
  run takes one: its invariants are about the stack and the flags, not the
  values, and the second session still leaves stale B flags for it to meet.
  One input keeps it at 264k states where two take 3.5M.
- The live run takes dimensions 1 and 2, so wrappers and direct calls with
  inputs too short for the recording reach the failed-assertion path.
- The short run takes dimensions 1 and 2 with one input value. A call at a
  one-element input to a two-dimensional recording stops at
  `CURRENT_ASSERT(v < x.size())` with B partly set; the run checks that the
  flags it leaves, and later Reuse calls, stay right. The eval run cannot
  show this: its recordings have dimension 1 only.
- `MaxStack = 12` never cuts a stack of these graphs.

- render: two machines and three codenames, with each service on either
  machine or none, plus one unreported dependency. This covers a dependency on
  a service of a machine visited later, one on an absent service, and a
  machine with no services.
- sender: a 2-unit buffer, a 7-unit and 4-tick window, output every 2 ticks
  and writes of 1 or 2 ticks, up to 16 ticks. The size cutoff is 0 for the
  first three writes and positive after; both trim conditions fire; and
  reconnects happen mid-window. `SizeModulus = 64` exceeds every reachable
  total, as the assumption requires.
- rest_map: two keys, one value and two concurrent requests. Two PUTs or a
  PUT and a POST/DELETE race on one key, and every verb and every error path
  is enumerated.

Between them, the passing runs fire every action.

`CHECK_DEADLOCK FALSE` is set where the system really stops. It is used in
render, because Render returns, and in rest_map, because a server whose
requests have all been answered is idle.

**Fairness.** `eval_node` is a synchronous loop on the caller's thread. Once
called, it runs to its return with no suspension point (§5). The spec
therefore assumes `WF_vars(EvalLoop)` and no fairness for user actions.

RestBasic assumes `WF_vars(Serve(r))` for each request. Once a request is
accepted, the server's threads keep calling its hooks, and the storage runs
every transaction it queued. Clients get no fairness: a request may never
arrive. RestMap asks the same of its `Serve`. The sender and the renderer
have no liveness property. The sender's one candidate, the no-sends timeout,
is a safety property and is violated.

## Proofs

`FnCASNodeProofs.tla` proves, under the hypothesis `StaleOperands = FALSE`:

- `TypeCorrect`: `Spec => []TypeOK`.
- `OperandsPrecedeInvariant`: `Spec => []OperandsPrecede`.

The inductive invariant is
`IInv == TypeOK /\ OperandsPrecede /\ IdleEmpty /\ StackInRange`. TypeOK alone
is not inductive, for two reasons:

- A first visit reads `node_vector_[i]` for the popped `i`. The stack's type
  after `EvalExpand` depends on that node being a real node.
- The pushed operands must again name nodes.

`StackInRange` says every stack entry is `i` or `~i` of a node of the store.
`OperandsPrecede` makes the pushed operands stay in range. `IdleEmpty` lets
construction and `OpenX` change the store without breaking `StackInRange`.
IInv was checked with TLC as an invariant before it was proved.

The proof has these parts:

- Lemmas on `Grow`, `GrowSet`, `Pop`/`Top` and the operands of a node record.
- A lemma `AllocateIInv` shared by all constructors.
- One lemma per action, combined in `NextIInv` with one CASE per disjunct of
  `Next`.
- The temporal step `BY PTL DEF Spec`.

It also proves, under the same hypothesis:

- `LoopInvariant`: `Spec => []PInv`.
- `PostVisitReadyInvariant`: `Spec => []PostVisitReady`.
- `ReturnReadsComputedInvariant`: `Spec => []ReturnReadsComputed`.

`PostVisitReady` speaks only of the top of the stack, and is not inductive.
After a leaf is popped, a marker deeper in the stack comes to the top, and
nothing in `PostVisitReady` says its operands were computed. `PInv` adds the
two facts the induction needs:

- `ComputedHasValue`: B is set only where V has a slot. `GrowSet` writes B
  and V together, and `Grow` only appends unset flags.
- `MarkersCovered`: for every marker `~d` at position `p`, each operand `o`
  of `d` is `Done(o)`, or `Pending(o, p)`. Pending means `o` or `~o` is at a
  position above `p`.

- `RootCovered`: while a call is evaluating, its root is `Done` or
  `Pending` at position 0, that is, anywhere on the stack. This is what
  gives `ReturnReadsComputed` once the stack is empty.

The proof of `MarkersCovered` and `RootCovered` has one lemma per step of
the loop (`PopPending` is the shared fact that a pop keeps an entry covered;
`PopRootCovered` and `ExpandPending` apply it to the root):

- A skip, a leaf or a second visit pops an entry whose node is then computed
  (`PopCovered`, `TopDone`).
- A first visit of an operation replaces `i` by `~i` at the same position.
  It pushes the operands above it (`ExpandShape`, `EvalExpandPInv`), so every
  operand pending on `i` is now pending on `~i`.
- A new call seeds the stack with its root, which is not a marker. User
  steps run with an empty stack.

At the top marker nothing is above it, so `Pending` is empty and every
operand is `Done`. That is `PostVisitReady`. `PInv` was checked by TLC on
the loop run before it was proved. The `ExpandPostLast` mutant, which pushes
`~i` after the operands, violates it. The `ExpandNoPost` mutant, which pushes
no `~i` at all, violates `ReturnReadsComputed`: the root is popped before its
operands are computed.

The hypothesis `StaleOperands = FALSE` is the one every FnCAS proof takes.
The staleop run shows why: with a stale handle, `OperandsPrecede` fails. The
proof that the pushed operands name nodes of the store rests on it.

What stays with TLC:

- Liveness (`EvalTerminates`).
- The properties over `RefValue` (`CacheSound`, `EvalReturnsReference`).
  What a recursive definition computes for every input needs induction over
  data, which the installed provers cannot instantiate.

`SpeedtestSenderProofs.tla` proves, for every value of the flags that
`SenderAssumption` allows:

- `SenderInvariant`: `Spec => []SInv`.
- `ReportWellFormedInvariant`: `Spec => []ReportWellFormed`.
- `TrimKeepsWindowHolds`: `Spec => TrimKeepsWindow`, the action property.

`ReportWellFormed` alone is not inductive. A write appends a sample and trims
the front, and whether the printed window stays positive depends on what
came before. The strengthening `SInv` adds three facts:

- `total_bytes_sent <= now * BufferSize`. With `MaxTime * BufferSize <
  SizeModulus`, this keeps the `size_t` addition at line 59 from wrapping.
- The history is strictly increasing in time and in bytes.
- Every sample is bounded by the clock and by the counter.

The model's `Trim` writes the pop_front loop as a CHOOSE of the position
where the loop stops. `TrimIsCut` restates it as `SubSeq(h, Cut + 1,
Len(h))`, with `Cut` a top-level operator the proofs can reason about. `CutBounds` shows the cut keeps at least two samples. Those two
samples, ordered, give a positive time span and byte count.

The write step is split in two lemmas:

- `WriteGrows`: the history with the new sample appended.
- `WriteStep`: the report, or not, after the trim.

`TrimKeepsWindow` follows from `SInv` and `WriteDropsOutOfWindow`. That lemma
says every dropped sample satisfies one of the loop's two conditions, in true
integers.

`RestBasicProofs.tla` proves, for every set of keys, values and requests,
under `RestAssumption` (`Nothing` is no request):

- `Invariance`: `Spec => []IInv`.
- `Refinement`: `Spec => Map!SafeSpec`, i.e. RestBasic implements the safety
  part of RestMap.

`IInv` is TypeOK plus `ReqInv(r)` for each request. `ReqInv` ties the phase
to the rest of the request's state:

- a request not yet answered has no response;
- past Enter, the extracted key is the one `RestMap!UrlKey` names;
- past the parse, the body is an entry;
- in `put`, the request holds the transaction, and `exists[r]` is still what
  the field says of the key.

That last conjunct is what makes PUT's two steps refine one step of RestMap.
It is preserved because any other write needs the free transaction slot.

The proof has these parts:

- One lemma per case of `RestMap!Answer` (`AnswerGet`, `AnswerPut`, ...).
- A shared `RespondStep` for every step that answers, which shows it is
  `RestMap!Serve` of that request. `RespondKeepStep` specialises it to the
  steps that answer without touching the store or the transaction.
- One lemma per action, combined in `NextStep`.
- The temporal steps `BY PTL DEF Spec, Map!SafeSpec`.

The fairness part of `MapRefined` (every request answered) is checked only by
TLC.

`KarlRenderProofs.tla` proves, for every set of machines and codenames and
with no assumption on the constants:

- `RenderCorrect`: `Spec => []RenderMatchesStatus`.

`RenderMatchesStatus` speaks only of the end, so it needs a strengthening.
`RInv` states, for each stage, what the graph and the maps are:

- First loop: the graph's nodes are the visited pairs (`Visited`). Every
  visited codename is a key of `services_` holding its own node, and
  `machines` lists exactly the visited pairs (`NodesBuilt`).
- Second loop: every node is in, `machines` is the status's map, and the
  edges are those of the visited services (`EdgesOf`). Every `operator[]`
  lookup returns the node the status gives the codename (`LookupRight`).
- Third loop: all edges are in, and the groups are those of the visited
  machines (`GroupsOf`).
- Done: the graph is `Expected(status)`.

The argument rests on three facts:

- `NodeOfOwn`: a codename is on one machine only (the restriction of
  `Statuses` above, which the proof inherits), so a service's node is its
  own pair. Two pairs with the same codename are equal (`PairsByCode`).
  Therefore the first loop never overwrites a key it stored.
- `TouchKeepsLookup`: `operator[]` inserts `Node()` for a missing key, which
  is what the lookup returned before. The insertions of the second loop
  therefore change no later lookup.
- `NodesDone`: when the first loop ends, `NodesBuilt` of all pairs gives
  `LookupRight`.

There is one lemma per action, combined in `NextRInv`. The stutter step
changes none of the operators `RInv` is built from. `RInv` was checked by TLC
on the render run before it was proved. The `AddEdgesReversed` mutant, which
draws the edges backwards, violates it. For the proof, `Pairs` is written as
a filter on the pair `p` rather than on the pattern `<<i, c>>`; the two are
the same set, and the prover does not take the pattern form.

It also proves:

- `RenderInvariant`: `Spec => []RInv`.

No refinement to a one-step render is stated: once the loops are done it
would say no more than `RenderMatchesStatus`, since no action writes the
status and none is enabled after the end.

## Not modelled, and the plan

- **Differentiator:** its code (`fncas_differentiate.h`) is not under `src/`.
  It is planned as a spec-modelled module over the store, with the `df_` memo
  and the memo-hit property of spec §8.
- **`debug_as_string`:** pure formatting. Its recursion depth is beyond what a
  model can measure.
- **JIT backend:** outside `src/`.
- **Construction with no `X` open:** left out of the model for state-space
  reasons.
- **Karl renderer, formatting:** the HTML tables of the nodes, the colours
  and the localhost test of the group labels only produce text. They are left
  out, and a node is its (ip, codename) pair.
- **Sender:** the buffer's fill (lines 30-43) and the progress output are
  left out. The flags' floating-point conversions become integer constants.
- **dlopen example:** `main` parses flags, starts a server whose
  implementation is outside `src/`, and joins. It has no state of its own.
- **Bricks util tests:** test code of utilities outside `src/`.
- **Planned:** the differentiator as a spec-modelled module.

# TLA+ models of the clkbufmap pass and the log pipe client

This directory holds TLA+ models of two parts of the repository:

- The yosys `clkbufmap` pass (`src/my_synthesis_repo/passes/techmap/clkbufmap.cc`), which inserts clock buffers.
- The log pipe client (`src/my_synthesis_repo/libs/utils/log_pipe/common.cc`, whose header is `src/unnamed/part_000`).

The directory has TLC configurations for small instances, TLAPS proofs, and `PROJECT.json`. That file lists the components, the runs, the mutants, the map from definitions to source lines, the findings and the hazards.

## 1. The system

### clkbufmap

`execute()` parses its options (lines 84-130). Then it orders the selected modules bottom-up with the recursive `module_queue` (lines 67-78, 132-136) and processes them one at a time. Four run-wide tag tables connect the modules:

- `sink_ports`
- `buf_ports`
- `inv_ports_out`
- `inv_ports_in`

Each table is keyed by (cell type, port, bit index). A module's results are written into these tables, and every module processed later (its ancestors) reads them.

A blackbox module only contributes tags (lines 140-159). The model `ClkbufHier` covers this module level: the order, the blackbox tags, and which tag entries each ordinary module reads and publishes. An ordinary module goes through these steps, in order:

| step | lines | model |
|---|---|---|
| locals, `SigMap sigmap(module)` snapshot | 160-165 | `ClkbufInv`: `InvInit` |
| tag collection into `sink_wire_bits`, `buf_wire_bits` | 167-179 | `CollectTags`, `TaggedBits` |
| inverter propagation `while (retry)` | 181-210 | `ScanSlot`, `ScanResult`, `EndPass` |
| driven bits, wire snapshot | 212-222 | `ClkbufModule`: `Prepare`, `OutputBitsOf` |
| `buf_bits` and the BUFR/BUFIO index | 224-267 | `Prepare` |
| the per-wire, per-bit decision table | 269-333 | `SkipWire`, `BeginWire`, `BitBuffered`, `BitNoSink`, `BitInsert`, `BitDefer` |
| input-port copy wire | 334-355 | `EndWire` |
| marking buffered output ports | 357-368 | `MarkOutputs` |
| reconnecting drivers and repointing BUFRs | 370-401 | `Reconnect`, `ReconnectResult`, `Hit`, `IndexedAt` |
| swapping names, clearing flags, `fixup_ports` | 403-414 | `Swap` |

The steps are sequential. Nothing in the pass runs concurrently. The nondeterminism that matters is the iteration order of yosys' hash containers (`module->cells()`, `cell->connections()`). The code does not fix this order, and the model leaves it free:

- the slots of an inverter pass are taken from a set `todo`;
- the wires of the snapshot are taken from `wtodo`;
- the output connections of the reconnect loop are taken from `rtodo`.

### Log pipe client

- `CreateLogHeader` appends a string to the process-wide `g_log_cache`.
- `ConnectAndSendJson(type, json)` (lines 116-171) does nothing unless a father process id is set. It also does nothing on a non-Windows build.
- Otherwise it opens the named pipe. A failed connect returns with the cache kept.
- After a successful connect, it clears the cache (line 156) and then writes. A LOG message carries the cache in front of its content (line 122).
- `CreateLogStruct` numbers messages per category with `GetNextIndex`, which does `++indices[key]` on an `int`.

## 2. Modules

- **`ClkbufInv`** models tag collection and inverter propagation for one module.
  - State: `conn`, the bits each cell port connects (a `SigSpec` per port), and `sigmap`, both fixed.
  - State: `sink` and `buf`, the two sets of canonical bits.
  - State: `todo`, `retry` and `pc` for the loop.
  - The netlist and the sigmap are chosen in `InvInit` from the constant sets `Conns` and `SigMaps`.
  - The tag tables are constants, because they do not change while one module is processed.
  - `ScanResult` is one iteration of the innermost loop body: rule 1, then rule 2 on the sets rule 1 left, exactly as lines 188-207 are written.
- **`ClkbufModule`** extends `ClkbufInv` with the rest of the processing of one module.
  - Bits are wire bits `<<w, i>>`.
  - New cells (buffers, pads) and new wires (1-bit buffer inputs, one copy per wire) come from pools of fresh identities. That is the model of `NEW_ID`.
  - `sigmap` stays the snapshot of line 163, and the `module->connect` calls of lines 348/350 are kept in `aliases`. This is what makes the stale-map hazard visible.
  - The final connectivity is the closure of `sigmap` classes and `aliases` (`NetOf`, a recursive function).
  - `Drivers(N)` is the set of cell output ports and input ports on a net.
  - The history variable `conn0` keeps the netlist from before the pass.
- **`LogPipe`** models the log cache, what the reader received (the stream of headers on the LOG pipe, `received`, and the number of messages per pipe, `msgs`), and the per-category counters.
  - A header is abstracted to its creation number.
  - A message is abstracted to the headers it carries.
  - The outcomes of the connect and of the write are chosen freely on every send. They depend on the reading process.
  - `int` keeps its width: `Incr` wraps at `IntMax`.
- **`ClkbufHier`** models the module level of the pass.
  - `module_queue` becomes an explicit `stack` of frames `[mod, next]`. A frame is pushed for each recursive call; `next = 0` is the point before the `modules_processed` test of line 68. The actions are `QueueSkip` (lines 68-69), `QueueEnter`, `QueueCell` (lines 70-75) and `QueueDone` (lines 76-77). `QueueRoot` is the call of line 136 for each selected module.
  - `BlackboxPort` is one port of a blackbox (lines 141-157), in `module->ports` order, filling the four tables. `Put` is the dict assignment of lines 153-154, so a later link overwrites an earlier one.
  - `ProcessModule` stands for lines 160-414 of one ordinary module. It records in `seen` the table entries about its cells' types, which is what lines 168-207 read. It then publishes entries keyed by its own name. A selected module publishes any set of its port bits; what it really publishes is computed in `ClkbufModule` (`pubBuf`, `pubSink`). An unselected module publishes every output bit, through the bypass branch of lines 233-241 and 277-284.
  - The design (each module's cell types, in order, and the selection) is chosen in `HierInit` from the constant set `Designs`.
- **`LogChannel`** is the abstract log channel: headers are numbered as they are created, and the reader's stream only grows at its end, in order, with created headers. `LogPipe` defines `Chan == INSTANCE LogChannel WITH headers <- created, stream <- received`. The refinement mapping keeps the creation counter and the reader's stream and hides the cache, the message counts and the indices.
- **`MC_*`** modules give the constants values, build the sets of netlists, and define the reference results.
- **`ClkbufInvProofs`**, **`ClkbufModuleProofs`**, **`ClkbufHierProofs`** and **`LogPipeProofs`** hold the TLAPS proofs.
- Set comprehensions in `ClkbufModule` (`Prepare`, `MarkOutputs`, `DriversIn`) bind one variable and use its projections (`cp[1]`, `cp[2]`) rather than a tuple pattern such as `<<c, p>>`. The meaning is the same; `tlapm` does not parse tuple patterns in those binders.

## 3. Runs

| run | cfg | result | what it shows |
|---|---|---|---|
| inv_propagation | MC_ClkbufInv.cfg | pass, 39,876 states | The loop ends (`Terminates`, under weak fairness) at a fixed point (`FixedPoint`). Its buffered set and its set of unbuffered sinks equal those of a fixed-order reference run (`OutcomeOrderIndependent`, where the reference is computed with `FoldLeft`). |
| inv_order_sets | MC_ClkbufInvOrder.cfg | violation | The sink set itself depends on the order (finding 1). |
| module_insertion | MC_ClkbufModule.cfg | pass, 126,611 states | The ports keep their names, widths and directions (`PortsPreserved`). Every clock sink that needs a buffer ends with exactly one driver, an inserted cell (`SinksBuffered`). Every inserted chain is fed by the original drivers (`SourceKept`). The pass completes (`Completes`). |
| module_inhibit | MC_ClkbufModuleInhibit.cfg | violation | An inhibited wire aliased to a processed clock wire gets a new driver (finding 2). |
| secondary_realign | MC_ClkbufSecondary.cfg | pass | A BUFR on a buffered net is repointed to the buffer input (`SecondaryRealigned`). Other BUFRs keep their input (`SecondaryUntouched`). |
| secondary_top | MC_ClkbufSecondaryTop.cfg | violation | A BUFR on a top-level input clock is never repointed (finding 3). |
| secondary_alias | MC_ClkbufSecondaryAlias.cfg | violation | A BUFR connected through an alias is never indexed (finding 4). |
| secondary_hash | MC_ClkbufSecondaryHash.cfg | violation | A hash collision repoints the wrong BUFR (finding 5). |
| logpipe | MC_LogPipe.cfg | pass, 5,210 states | Headers reach the reader in creation order and at most once, under every outcome of connect and write (`HeadersInOrder`). |
| logpipe_lost | MC_LogPipeLost.cfg | violation | A DATA or CONTROL send discards the cached headers, even when every write succeeds (finding 6). |
| hier_order | MC_ClkbufHier.cfg | pass, 272,980 states | For every acyclic design in the instance: `module_queue` lists every reachable module exactly once (`QueueCovers`). Each module comes after the modules it instantiates (`BottomUp`). No tag entry about a cell type is added after a module holding such a cell was processed (`HierarchyMonotone`, spec 8). The pass ends (`Completes`). |
| hier_cycle | MC_ClkbufHierCycle.cfg | violation | When two modules instantiate each other, the recursion goes deeper than the number of modules (`StackBounded`). It never ends (finding 7). |

### Bounds and why they are enough

**MC_ClkbufInv.** Two inverters, a flip-flop clock pin and a BUFG output are wired over three bits in every single-driver way. This gives:

- chains of two inverters;
- an inverter feeding itself;
- rings;
- buffered and unbuffered sources;
- an undriven net.

Every way the two rules can interact on a path of length two therefore occurs. Multi-driver netlists are left out. On them the outcome depends on the order (see the hazards), and they are not well formed.

**MC_ClkbufModule.** The module has these cells:

- a driver `d`;
- a tagged clock driver `e`;
- two flip-flops.

Its wires are a 1-bit wire `a` and a 2-bit wire `k`. Every wire is:

- an input, an output, both, or neither;
- in a top or a non-top module;
- inhibited or not (`a` only);
- either the identity sigmap, or `a[0]` and `k[1]` aliased with either as the canonical bit.

That reaches every row of the decision table. It also reaches:

- both pad+buffer and buffer-only insertion;
- the copy of a 2-bit input port with one buffered and one passed-through bit;
- two sinks on one net and two nets each needing a buffer;
- the alias cases.

The pools (two buffers, two pads, four 1-bit wires, one copy per wire) cover the most insertions any such netlist needs. `Completes` would fail if they did not.

The configuration has `-buf`, `-inpad` and `buffer_inputs` set. The other settings change only which branch of lines 302-322 is taken.

**MC_ClkbufSecondary** adds a BUFR whose input sits on any of the three bits. The cfg chooses between a top and a non-top module, an identity and an aliased sigmap, and an injective and a colliding hash.

**MC_ClkbufHier.** There are three ordinary modules t, u and v, a blackbox b, and a primitive type. b has a sink port, a 2-bit driver port, and a port linked by `clkbuf_inv`. t may instantiate u, v, b and the primitive; u may instantiate v, b and the primitive; v may instantiate b or the primitive. Each module has up to two cells, in every order. The selection is {t}, {u} or {t, u}. These 2,457 designs include:

- a module reached along two paths;
- a selected module that is also instantiated;
- an unselected module reached through a selected one;
- a blackbox that is never reached;
- hierarchies three deep.

`MaxDepth` (5) is above the depth any acyclic design of four modules reaches. It bounds only the cyclic run. In that run, t instantiates u, and v instantiates u, which may instantiate v.

**MC_LogPipe.** Three headers, three sends and two categories are enough for:

- a header that waits through a failed connect;
- a DATA send between two LOG sends;
- two headers in one message.

### Fairness

The pass is sequential code that runs until it finishes. So each spec is `Init /\ [][Next]_vars /\ WF_vars(Next)`, and `Terminates` and `Completes` are checked under that fairness. Deadlock checking is off because the final states (`pc = "done"`, `pc = "end"`, or `ph = "end"` in `ClkbufHier`) are real ends. `Completes` checks that the end is reached.

`LogSpec` has no fairness. It only states safety.

### Mutants

Every property of a passing run is violated by a plausible fault in the code it is about. `PROJECT.json` lists them. The fault variants sit next to the definitions they replace, and they are named `...NoRetry2`, `...NoSelfSkip`, `...RawBit`, `...KeepFlags`, `...NoClear` and so on.

## 4. Findings

1. **inv_order_sets.** The final `sink_wire_bits` depends on the scan order (rule 1's guard `!buf_wire_bits.count(bit)`, line 192). This contradicts spec 4.4 and 8. Only the unused part of the result differs: the buffered set and the unbuffered sinks agree.
2. **module_inhibit.** `clkbuf_inhibit` is applied per wire, but insertion is per canonical net. An inhibited wire aliased to a top-level clock input is rewired. This contradicts spec 8 (selective inhibition).
3. **secondary_top.** A BUFR is repointed only while reconnecting a driver cell. A top-level input clock has no driver cell, so its BUFR stays behind the BUFG.
4. **secondary_alias.** The BUFR index tests and keys the raw input bit (line 262), while the lookup at line 385 uses the canonical bit.
5. **secondary_hash.** The index is keyed by a hash only (lines 265 and 385), so a collision repoints an unrelated BUFR (spec 9).
6. **logpipe_lost.** `g_log_cache = ""` (common.cc:156) runs for every pipe type and before the write. Cached headers are lost on a DATA or CONTROL send and on a failed write.
7. **hier_cycle.** `module_queue` (line 74) recurses into a cell's type before marking the module processed, and it has no in-progress mark. A cyclic hierarchy therefore recurses without bound. Spec 4.1 leaves acyclicity to the caller, and spec 9 flags this as a latent bug; the pass does not check it.

## 5. Proofs

`ClkbufInvProofs` is checked by `tlapm` with no unproved obligation. It proves two theorems, for every netlist, tag table and sigmap the assumptions `TablesAssumption`, `NetlistAssumption` and `PairAssumption` allow.

- **`InvTypeCorrect`** states `InvSpec => []InvTypeOK`. The proof rests on these lemmas:
  - `SlotShape`: every slot names a connected bit;
  - `BitType` and `PairType`: the canonical bit and the paired bit of a slot are bits. `PairType` needs `PairAssumption`, which is what keeps `getPort()[i]` in range;
  - `ScanType`;
  - `TypeStep`, with one case per action.
- **`FixedPointHolds`** states `InvSpec => []FixedPoint`. `FixedPoint` speaks only of the final state, so it is not inductive. The inductive invariant `IInv` adds one fact: during a pass in which `retry` is still FALSE, every slot already visited is quiescent. It holds because a scan that changes nothing leaves the sets where they were (lemma `ScanUnchanged`). When such a pass ends, `todo` is empty, so every slot is quiescent. `IInvInductive` has one case per action.

`LogPipeProofs` proves three theorems for every bound, every set of categories, every `int` width and every outcome of connect and write, under `LogPipeAssumption` and `IntAssumption` (the largest `int` is a natural number).

- **`LogTypeCorrect`** states `LogSpec => []LogTypeOK`.
- **`HeadersInOrderHolds`** states `LogSpec => []HeadersInOrder`. `HeadersInOrder` alone is not inductive: a LOG send appends the whole cache to the reader's stream. The inductive invariant `LInv` adds three facts:
  - the cache is itself increasing;
  - every header received is below every header still cached;
  - everything received, like everything cached, is below `created`, the number of the next header.
  A new header keeps these facts because it is numbered `created` (lemma `AppendIncreasing`). A LOG send keeps them because the concatenation of two increasing sequences, one below the other, is increasing (lemma `ConcatIncreasing`). The cache it leaves is empty. Every other step leaves both sequences alone or only empties the cache.

- **`ChanRefinement`** states `LogSpec => ChanRefined`: the client implements `LogChannel`. No run checks `ChanRefined`. On the instance it adds nothing to `HeadersInOrder`: the abstract spec's append-only stream holds by the shape of `Deliver`, and a fault that breaks the refinement also breaks `HeadersInOrder`. Its value is the theorem, which holds for every bound. The proof is the standard one for a refinement. The initial state maps to `ChanInit`. Under `LInv` and `LInv'`, every step maps to a `ChanNext` step or a stutter:
  - `CreateLogHeader` is `Create`;
  - every send is a `Receive`. Lemma `SendExtends` shows that it extends the reader's stream by some sequence, possibly the empty one. Lemma `ConcatPrefix` shows that a sequence is the prefix of its extension. Order and range come from `LInv'`;
  - `CreateLogStruct` leaves both mapped variables alone.

`ClkbufModuleProofs` proves one theorem for every module, wire attributes and netlist that `ModuleAssumption` allows. That is more than the run covers: the run also assumes `SingleDriver`.

- **`PortsPreservedHolds`** states `ModSpec => []PortsPreserved`: after the rewiring of input ports and the name swap of lines 402-414, the module has exactly the ports it had. `PortsPreserved` speaks only of the final state, so it is not inductive. The inductive invariant `PortInv` describes the names and the flags up to the swap:
  - every name is still the identity;
  - `port_input` and `port_output` are `FlagBeforeSwap` of the original attributes: a wire keeps its flags, and the copy queued for it in `input_queue` (lines 334-354) has them too;
  - `input_queue` pairs wires with their fresh copies (`CopyPairs`).

  The swap (lemmas `SwapValues` and `SwapStep`) gives each rewired wire no port flags and the copy's name. Each copy gets the original name and flags, and the width of its wire (`CopyFacts`, `CopyInjective`). So the set of (name, width, direction) triples is the same, shown by two inclusions. After the swap, no action is enabled (`EndStutter`).

`ClkbufHierProofs` proves four theorems for every set of modules and primitives, every design that `DesignsAssumption` allows, cyclic or not, and every port attribute that `HierAssumption` allows. The runs check the same properties only on acyclic designs.

- **`BottomUpHolds`** states `HierSpec => []BottomUp`: `module_queue` puts every module after the modules it instantiates. `BottomUp` alone is not inductive: `QueueDone` appends the top frame's module, and `BottomUp` says nothing of that module's cells. The inductive invariant `StackInv` describes the recursion stack of `module_queue`:
  - `modules_processed` (`queued`) holds exactly the modules of `modules_sorted`;
  - each frame below the top has passed the cell whose call is the frame above it (so its `next` is at least 2);
  - every cell a frame has passed whose type is a module is already queued, except the cell whose call is still active.
  When `QueueDone` pops a frame that has passed all its cells, the exception does not apply to the top frame, so all its child modules are already in the order (lemma `ChildrenQueued`). A return (`QueueSkip` or `QueueDone`) puts the module of the popped frame in `queued` (or finds it there), which discharges the exception of the frame below (lemma `ReturnKeeps`). `QueueCell` moves the exception to the cell it calls. `StackInvInductive` has one case per action. The processing loop never changes the order. No acyclicity is needed: on a cycle the recursion grows the stack without bound (finding 7), but every order it does produce is bottom-up.

- **`HierarchyMonotoneHolds`** states `HierSpec => []HierarchyMonotone`: an entry read by a processed module is never added to, changed or overwritten later. The inductive invariant `PInv` adds to `HierarchyMonotone` these facts:
  - the facts of `StackInv`;
  - `EnteredFresh`: a frame past the `modules_processed` test of line 68 holds a module not yet processed;
  - `modules_sorted` is injective;
  - the module loop starts only when the stack is empty;
  - `pidx` stays within `modules_sorted`.

  Injectivity holds even on a cycle. An inner call on a module already on the stack can never finish, because it would need the frame above it to finish first (lemma `DoneFrameUnique`). Processing module `c` adds or overwrites only entries keyed by `c` (`KeyedStep`, lemmas `PortKeyed` and `ModuleKeyed`). A module processed earlier has no cell of type `c` (lemma `NotChildLater`): otherwise `BottomUp` would put `c` before it, so `c` would occur twice. Hence the entries about its cell types do not change (lemmas `TablesKeep`, `CellsKept` and `EarlierKept`). `ProcessModule` records `seen` only for `c`, and `c` is no cell type of itself, by the same lemma. For the proof, `Put` is written as an explicit function rather than with `@@`, which the prover cannot expand; the two agree.
- **`QueueClosedHolds`** states `HierSpec => []QueueClosed`. Once `module_queue` has run for every selected module, every selected module is in `modules_sorted`. Every module in it is selected, or is a cell type of a module sorted after it. Together with `BottomUp` (every child of a sorted module is sorted) and injectivity (from `PInv`), `modules_sorted` is then the least set that contains the selection and is closed under instantiation, which is the reachable set. This is the content of `QueueCovers`, stated without the recursive function. No run checks `QueueClosed`: on the acyclic instance it follows from `QueueCovers` and `BottomUp`, which the hier_order run checks. Its value is the theorem, which holds for every design, cyclic ones included.

  `QueueClosed` is not inductive. While the recursion runs, the module appended by line 76 is instantiated by a module whose call is still on the stack and not yet sorted. The inductive invariant `CInv` therefore lets a stack frame witness a sorted module too (`Witnessed`). It also records these facts:
  - the bottom frame is a selected module;
  - every selected module already passed on is sorted or is that bottom frame;
  - the roots are all passed on before line 138.

  When a return pops a frame whose module is sorted, each module it witnessed is a child of that module, so it is sorted before it (`ChildBefore`, `PoppedWitness`) and keeps a witness. When `QueueDone` appends the popped frame's module, the frame below witnesses that module, or it is the selected bottom frame. The witnesses of the popped frame pass to the appended module. `CInvInductive` has one case per action. Before the proof, TLC checked `CInv` and `QueueClosed` as invariants on both the acyclic and the cyclic designs.
- **`HierTypeCorrect`** states `HierSpec => []HierTypeOK`. It uses `PInv` together with `RestType`, which says:
  - the roots left are selected;
  - the port index is positive;
  - every published key is a port bit of a module of the design (lemma `PortBitsAll`).

**Only model-checked:**

- the liveness properties (`Terminates`, `Completes`), which are out of TLAPS' reach here;
- `ModTypeOK`. Its `lastk` in `ReconnectResult` is the largest index with some property, written with `CHOOSE`. That this maximum exists for a finite non-empty set of naturals needs an induction theorem with an operator parameter, such as `SmallestNatural`, and the provers cannot instantiate those;
- `SinksBuffered`, `SourceKept` and `SecondaryRealigned`. They rest on `NetOf`, the closure of the final netlist, a recursive function whose definition cannot be unfolded without `RecursiveFcnOfNat`, again an operator-parameter theorem;
- `SecondaryUntouched`. It would need the hash to be injective, which the code does not guarantee (the `secondary_hash` run shows the violation);
- the order-independence of the outcome, which compares against a `RECURSIVE` reference in the MC module;
- `QueueCovers` as written, with `Reachable`. Its injectivity is proved, as part of `PInv`, and its content is proved as `QueueClosedHolds`. Identifying the closed set with `ReachIn[Cardinality(Modules)]` needs an induction over the recursive function `ReachIn`, which is out of reach for the reason above;
- `StackBounded`, which is a finding;
- the `LogPipe` violations (`NoHeaderLost`), which is a finding, not theorems.

## 6. Not modelled

- **The composition of `ClkbufHier` with `ClkbufModule`.** `ClkbufHier` lets each ordinary module publish any set of its port bits, instead of what `ClkbufModule` computes from its netlist. The properties of the hierarchy model hold for every choice. Composing the two would multiply the state spaces of the per-module netlists and the designs.
- **The wrap of the message numbers.** `Incr` models the wrap of `++indices[key]` (common.cc:100), and `LogTypeCorrect` keeps every index within the `int` range for every width. The wrap itself takes 2^31 messages of one category. No run reaches it: the run's `int` is 32 bits wide, and its bounds are small.
- **Argument parsing.** It is represented by the constants it produces.
- **The help text, the enum `ToString` functions, the header declarations and the makefile fragment in `common.cc`.** They are formatting, declarations and build rules with no behaviour to check.

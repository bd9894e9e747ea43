------------------------------ MODULE MemBlock ------------------------------
(***************************************************************************)
(* Reference-counted memory blocks in the C that the compiler generates    *)
(* (Futhark/CodeGen/Backends/GenericC.hs, with the order of the memory     *)
(* statements fixed by Futhark/CodeGen/ImpGen.hs).                         *)
(*                                                                         *)
(* A "struct memblock" is a cell: a variable of a generated function, a    *)
(* parameter, or the field of an array the host program holds.  All cells  *)
(* of one block share its counter.  A cell that is a local variable or a   *)
(* host array counts; a parameter is a plain copy of the caller's struct   *)
(* and does not.  The host calls an entry point, entry points call         *)
(* functions, and a function body opens scopes (branches, loop bodies) at  *)
(* whose end the variables declared in them are unreferenced.              *)
(*                                                                         *)
(* A program is any sequence of the statements the generator emits, under  *)
(* the rules it emits them by: a memory is set before it is read, is set   *)
(* only inside the function that declares it and never from itself (the    *)
(* results of a loop body go through fresh temporaries), and the variable  *)
(* that takes the result of a call has just been declared.                 *)
(***************************************************************************)
EXTENDS Integers, FiniteSets, Functions

CONSTANTS
  Cell,       (* the places a struct memblock can be stored in              *)
  Block,      (* the counters malloc can hand out, each with its memory     *)
  Null,       (* the references field of a memblock without memory          *)
  Sizes,      (* the sizes in bytes programs allocate; some may be negative *)
  MaxFrames,  (* nesting of calls; bounds the model                         *)
  MaxInner    (* nesting of scopes inside a function; bounds the model      *)

ASSUME NullAssumption   == Null \notin Block
ASSUME FiniteAssumption == IsFiniteSet(Cell) /\ IsFiniteSet(Block)
ASSUME SizesAssumption  == Sizes \subseteq Int
ASSUME BoundsAssumption == MaxFrames \in Nat /\ MaxInner \in Nat

VARIABLES
  kind,    (* of every cell: "none", "local", "param" or "array"            *)
  frame,   (* the call, counted from the host, a local or parameter is of   *)
  level,   (* the scope of that call a local is declared in                 *)
  ref,     (* the references field of every cell                            *)
  count,   (* *references: the count of every block, 0 if it is not live    *)
  size,    (* the size of every live block, 0 for the others                *)
  usage,   (* ctx->cur_mem_usage                                            *)
  frames,  (* the calls in progress; 0 when the host runs                   *)
  inner,   (* the open scopes inside each of them                           *)
  status   (* "running"; "stopped" after a failed assertion or a negative   *)
           (* allocation; "undefined" once a freed counter has been written *)

cells == <<kind, frame, level, ref>>
heap  == <<count, size, usage>>
stack == <<frames, inner>>
vars  == <<kind, frame, level, ref, count, size, usage, frames, inner, status>>

Counting == {"local", "array"}

(* The locals of the running function, and all it can read.                 *)
Locals  == {c \in Cell : kind[c] = "local" /\ frame[c] = frames}
Visible == {c \in Cell : kind[c] \in {"local", "param"} /\ frame[c] = frames}

(* The locals declared in the innermost scope.                              *)
InScope == {c \in Locals : level[c] = inner[frames]}

Free   == {c \in Cell : kind[c] = "none"}
Arrays == {c \in Cell : kind[c] = "array"}

-----------------------------------------------------------------------------
(* How many of the cells in S refer to b.                                   *)
References(S, b) == Cardinality({c \in S : ref[c] = b})

(* The counts after memblock_unref of every cell in S.                      *)
UnRef(S) == [b \in Block |-> count[b] - References(S, b)]

(* Mutant: memory is freed without being subtracted.                        *)
SetCountsKeepUsage(new) ==
  /\ count' = new
  /\ size' = [b \in Block |-> IF new[b] = 0 THEN 0 ELSE size[b]]
  /\ usage' = usage

(* The counts become "new"; a block whose count has reached 0 is freed and  *)
(* its size subtracted from the usage counter.                              *)
SetCounts(new) ==
  LET freed == {b \in Block : count[b] # 0 /\ new[b] = 0}
  IN /\ count' = new
     /\ size' = [b \in Block |-> IF b \in freed THEN 0 ELSE size[b]]
     /\ usage' = usage - SumFunctionOnSet(size, freed)

(* memblock_alloc: the cells in S, the destination or none, are             *)
(* unreferenced, and a block b that malloc may hand out then is given n     *)
(* bytes and the count 1.                                                   *)
NewBlock(S, b, n) ==
  LET left  == UnRef(S)
      freed == {a \in Block : count[a] # 0 /\ left[a] = 0}
  IN /\ left[b] = 0
     /\ count' = [left EXCEPT ![b] = 1]
     /\ size' = [a \in Block |-> IF a = b THEN n
                                 ELSE IF a \in freed THEN 0 ELSE size[a]]
     /\ usage' = usage - SumFunctionOnSet(size, freed) + n

(* The cells in S are given up.                                             *)
Forget(S) ==
  /\ kind'  = [c \in Cell |-> IF c \in S THEN "none" ELSE kind[c]]
  /\ frame' = [c \in Cell |-> IF c \in S THEN 0 ELSE frame[c]]
  /\ level' = [c \in Cell |-> IF c \in S THEN 0 ELSE level[c]]
  /\ ref'   = [c \in Cell |-> IF c \in S THEN Null ELSE ref[c]]

-----------------------------------------------------------------------------
Init ==
  /\ kind = [c \in Cell |-> "none"]
  /\ frame = [c \in Cell |-> 0]
  /\ level = [c \in Cell |-> 0]
  /\ ref = [c \in Cell |-> Null]
  /\ count = [b \in Block |-> 0]
  /\ size = [b \in Block |-> 0]
  /\ usage = 0
  /\ frames = 0
  /\ inner = [f \in 1..MaxFrames |-> 0]
  /\ status = "running"

(* futhark_new_...: the host makes an array of n bytes.                     *)
NewArray(c, n) ==
  /\ status = "running" /\ frames = 0
  /\ c \in Free
  /\ n >= 0
  /\ \E b \in Block : NewBlock({}, b, n) /\ ref' = [ref EXCEPT ![c] = b]
  /\ kind' = [kind EXCEPT ![c] = "array"]
  /\ UNCHANGED <<frame, level, stack, status>>

(* futhark_free_...: the host gives up an array.                            *)
FreeArray(c) ==
  /\ status = "running" /\ frames = 0
  /\ c \in Arrays
  /\ SetCounts(UnRef({c}))
  /\ Forget({c})
  /\ UNCHANGED <<stack, status>>

(* An entry point or a function is called: each cell in its parameters P    *)
(* becomes a copy of the struct passed for it, without counting.            *)
Call(P, args) ==
  /\ status = "running" /\ frames < MaxFrames
  /\ kind' = [c \in Cell |-> IF c \in P THEN "param" ELSE kind[c]]
  /\ frame' = [c \in Cell |-> IF c \in P THEN frames + 1 ELSE frame[c]]
  /\ ref' = [c \in Cell |-> IF c \in P THEN ref[args[c]] ELSE ref[c]]
  /\ frames' = frames + 1
  /\ inner' = [inner EXCEPT ![frames + 1] = 0]
  /\ UNCHANGED <<level, heap, status>>

(* What may be passed: arrays by the host, memory that is set by functions. *)
Arguments == IF frames = 0 THEN Arrays ELSE {c \in Visible : ref[c] # Null}

(* A branch or a loop body begins.                                          *)
OpenScope ==
  /\ status = "running" /\ frames > 0
  /\ inner[frames] < MaxInner
  /\ inner' = [inner EXCEPT ![frames] = @ + 1]
  /\ UNCHANGED <<cells, heap, frames, status>>

(* Mutant: the releases are only emitted at the end of functions.           *)
CloseScopeNoRelease ==
  /\ status = "running" /\ frames > 0
  /\ inner[frames] > 0
  /\ Forget(InScope)
  /\ inner' = [inner EXCEPT ![frames] = @ - 1]
  /\ UNCHANGED <<heap, frames, status>>

(* A branch or a loop body ends: what it declared is unreferenced.          *)
CloseScope ==
  /\ status = "running" /\ frames > 0
  /\ inner[frames] > 0
  /\ SetCounts(UnRef(InScope))
  /\ Forget(InScope)
  /\ inner' = [inner EXCEPT ![frames] = @ - 1]
  /\ UNCHANGED <<frames, status>>

(* DeclareMem: a variable whose references field is NULL.                   *)
DeclareMem(c) ==
  /\ status = "running" /\ frames > 0
  /\ c \in Free
  /\ kind' = [kind EXCEPT ![c] = "local"]
  /\ frame' = [frame EXCEPT ![c] = frames]
  /\ level' = [level EXCEPT ![c] = inner[frames]]
  /\ UNCHANGED <<ref, heap, stack, status>>

(* Allocate: new memory for a variable of the innermost scope.              *)
Allocate(c, n) ==
  /\ status = "running" /\ frames > 0
  /\ c \in InScope
  /\ n >= 0
  /\ \E b \in Block : NewBlock({c}, b, n) /\ ref' = [ref EXCEPT ![c] = b]
  /\ UNCHANGED <<kind, frame, level, stack, status>>

(* "Negative allocation of %lld bytes attempted": the process ends, as it   *)
(* does when an assertion of the program fails.                             *)
Stop(n) ==
  /\ status = "running" /\ frames > 0
  /\ n < 0
  /\ status' = "stopped"
  /\ UNCHANGED <<cells, heap, stack>>

(* Mutant: the destination keeps its old reference counted.                 *)
SetMemNoUnRef(d, s) ==
  /\ status = "running" /\ frames > 0
  /\ d \in Locals
  /\ s \in Visible \ {d} /\ ref[s] # Null
  /\ SetCounts([count EXCEPT ![ref[s]] = @ + 1])
  /\ ref' = [ref EXCEPT ![d] = ref[s]]
  /\ UNCHANGED <<kind, frame, level, stack, status>>

(* SetMem: the destination is unreferenced first; if that frees the block   *)
(* of the source, the increment that follows writes a freed counter.        *)
SetMem(d, s) ==
  /\ status = "running" /\ frames > 0
  /\ d \in Locals
  /\ s \in Visible \ {d} /\ ref[s] # Null
  /\ LET left == UnRef({d})
     IN /\ status' = IF left[ref[s]] = 0 THEN "undefined" ELSE status
        /\ SetCounts([left EXCEPT ![ref[s]] = @ + 1])
  /\ ref' = [ref EXCEPT ![d] = ref[s]]
  /\ UNCHANGED <<kind, frame, level, stack>>

(* Where the results of a call go: variables the caller has just declared,  *)
(* or new arrays of the host.                                               *)
Results == IF frames = 1 THEN Free
           ELSE {c \in Cell : /\ kind[c] = "local" /\ frame[c] = frames - 1
                              /\ level[c] = inner[frames - 1] /\ ref[c] = Null}

(* The variables of the running function are given up, and the caller, or   *)
(* the host, copies the result into the cells D.                            *)
Leave(D, outs) ==
  /\ kind' = [c \in Cell |->
                IF c \in D THEN (IF frames = 1 THEN "array" ELSE "local")
                ELSE IF c \in Visible THEN "none" ELSE kind[c]]
  /\ frame' = [c \in Cell |-> IF c \in Visible THEN 0 ELSE frame[c]]
  /\ level' = [c \in Cell |-> IF c \in Visible THEN 0 ELSE level[c]]
  /\ ref' = [c \in Cell |-> IF c \in D THEN ref[outs[c]]
                            ELSE IF c \in Visible THEN Null ELSE ref[c]]
  /\ frames' = frames - 1
  /\ UNCHANGED inner

(* Mutant: the result is a plain copy of the outputs.                       *)
ReturnUncounted(D, outs) ==
  /\ status = "running" /\ frames > 0
  /\ inner[frames] = 0
  /\ SetCounts(UnRef(Locals))
  /\ Leave(D, outs)
  /\ UNCHANGED status

(* How many of the results in D refer to b.                                 *)
Resulting(D, outs, b) == Cardinality({d \in D : ref[outs[d]] = b})

(* Mutant: everything is unreferenced before the outputs are counted.       *)
ReturnReleaseFirst(D, outs) ==
  /\ status = "running" /\ frames > 0
  /\ inner[frames] = 0
  /\ LET left == UnRef(Locals)
     IN /\ status' = IF \E d \in D : left[ref[outs[d]]] = 0 THEN "undefined" ELSE status
        /\ SetCounts([b \in Block |-> left[b] + Resulting(D, outs, b)])
  /\ Leave(D, outs)

(* The body of a function ends.  First the outputs are counted once more    *)
(* for the result (compileFunBody), by increments of counters that must not *)
(* have been freed; then everything it declared is unreferenced, and the    *)
(* caller copies the result into the variables D.  As no count is lowered   *)
(* before all are raised, what is freed is what the net counts say.         *)
Return(D, outs) ==
  /\ status = "running" /\ frames > 0
  /\ inner[frames] = 0
  /\ status' = IF \E d \in D : count[ref[outs[d]]] = 0 THEN "undefined" ELSE status
  /\ SetCounts([b \in Block |-> count[b] + Resulting(D, outs, b) - References(Locals, b)])
  /\ Leave(D, outs)

Next ==
  \/ \E c \in Cell : FreeArray(c) \/ DeclareMem(c)
  \/ \E c \in Cell, n \in Sizes : NewArray(c, n) \/ Allocate(c, n)
  \/ \E n \in Sizes : Stop(n)
  \/ \E P \in SUBSET Free : \E args \in [P -> Arguments] : Call(P, args)
  \/ OpenScope \/ CloseScope
  \/ \E d, s \in Cell : SetMem(d, s)
  \/ \E D \in SUBSET Results :
       \E outs \in [D -> {c \in Locals : ref[c] # Null}] : Return(D, outs)

Spec == Init /\ [][Next]_vars

-----------------------------------------------------------------------------
(* The cells that count as references to b.                                 *)
Owners(b) == {c \in Cell : kind[c] \in Counting /\ ref[c] = b}

(* The shapes of the variables; that of usage is part of UsageExact.        *)
TypeOK ==
  /\ kind \in [Cell -> {"none", "local", "param", "array"}]
  /\ frame \in [Cell -> 0..MaxFrames]
  /\ level \in [Cell -> 0..MaxInner]
  /\ ref \in [Cell -> Block \cup {Null}]
  /\ count \in [Block -> Nat]
  /\ size \in [Block -> Nat]
  /\ frames \in 0..MaxFrames
  /\ inner \in [1..MaxFrames -> 0..MaxInner]
  /\ status \in {"running", "stopped", "undefined"}

(* The count of a block is the number of variables and host arrays that     *)
(* refer to it, through every nesting of calls and scopes.                  *)
RefcountExact ==
  status # "undefined" => \A b \in Block : count[b] = Cardinality(Owners(b))

(* Nothing a function or the host can still reach has been freed: not even  *)
(* a parameter, which is not counted, while the callee reassigns and frees  *)
(* everything it can.                                                       *)
NoDangling ==
  status # "undefined" =>
    \A c \in Cell : ref[c] # Null => count[ref[c]] # 0

(* When the host runs again, the only memory left is that of the arrays it  *)
(* holds: calls leak nothing.                                               *)
NoLeak ==
  frames = 0 /\ status = "running" =>
    \A b \in Block : count[b] # 0 => \E c \in Arrays : ref[c] = b

(* The usage counter of the memory report is what is allocated.             *)
UsageExact == usage = SumFunction(size)

(* memblock_set never increments the counter of a block that has been       *)
(* freed, neither by its own first half nor, when a function counts its     *)
(* results, by the releases of the scopes and calls before.                 *)
NoFreedCounter == status # "undefined"

=============================================================================

---------------------------- MODULE ContextSizes ----------------------------
(***************************************************************************)
(* How a compiled OpenCL program comes by its group sizes, numbers of      *)
(* groups, tile sizes and thresholds (rts/c/opencl.h, the configuration    *)
(* and context functions of CodeGen/Backends/COpenCL/Boilerplate.hs, and   *)
(* sizeHeuristicsTable of CodeGen/OpenCL/Kernels.hs).                      *)
(*                                                                         *)
(* A configuration has a default for each class of sizes, and a value for  *)
(* each size, where 0 stands for "not set".  A context copies the struct,  *)
(* and so the defaults, but the values are behind a pointer: what          *)
(* setup_opencl makes of them for one device is what the next context of   *)
(* the same configuration starts from.                                     *)
(***************************************************************************)
EXTENDS Integers, Sequences

CONSTANTS
  Size,          (* the names of the sizes of the program                   *)
  Class,         (* size_classes: the class of each of them                 *)
  Device,        (* the OpenCL devices of the machine                       *)
  SizeValue,     (* what the user gives to set_size                         *)
  DefaultValue,  (* what the user gives to the set_default functions        *)
  MaxSettings,   (* bound: calls of those functions                         *)
  MaxContexts    (* bound: contexts made of the configuration               *)

Classes == {"group_size", "num_groups", "tile_size", "threshold"}

ASSUME SizeAssumption == Class \in [Size -> Classes]

(* max_tile_size is the square root of max_group_size, rounded down.        *)
ASSUME DeviceAssumption ==
  \A d \in Device :
    /\ d.max_group_size \in Nat \ {0} /\ d.max_tile_size \in Nat \ {0}
    /\ d.max_tile_size * d.max_tile_size <= d.max_group_size
    /\ d.max_group_size < (d.max_tile_size + 1) * (d.max_tile_size + 1)
    /\ d.type \in {"CPU", "GPU", "ACCELERATOR"} /\ d.units \in Nat \ {0}

ASSUME ValueAssumption ==
  /\ SizeValue \subseteq Nat /\ DefaultValue \subseteq Nat \ {0}
  /\ MaxSettings \in Nat /\ MaxContexts \in Nat

VARIABLES
  default,   (* default_group_size and the others of the configuration      *)
  values,    (* size_values, shared with the contexts                       *)
  asked,     (* history: what set_size was last called with                 *)
  settings,  (* the number of calls that have set something                 *)
  contexts   (* the contexts, in the order they were made                   *)

vars == <<default, values, asked, settings, contexts>>

(* ------------------------------- setup -------------------------------- *)

(* opencl_config_init                                                       *)
InitialDefault == [c \in Classes |-> CASE c = "group_size" -> 256
                                       [] c = "num_groups" -> 128
                                       [] c = "tile_size"  -> 32
                                       [] c = "threshold"  -> 32 * 1024]

AtMost(x, limit) == IF limit < x THEN limit ELSE x

(* The defaults of a context, limited to what the device can do; those of   *)
(* the other two classes have no limit here.                                *)
LimitedDefault(d) ==
  [default EXCEPT !["group_size"] = AtMost(@, d.max_group_size),
                  !["tile_size"] = AtMost(@, d.max_tile_size)]

(* max_value; 0 stands for no limit.                                        *)
MaxValue(d, c) == CASE c = "group_size" -> d.max_group_size
                    [] c = "num_groups" -> d.max_group_size
                    [] c = "tile_size"  -> d.max_tile_size
                    [] c = "threshold"  -> 0

(* Mutant: only the explicit sizes are limited to the device.               *)
ResolvedUnlimited(d, n) ==
  LET max == MaxValue(d, Class[n])
  IN IF values[n] = 0 THEN default[Class[n]]
     ELSE IF max > 0 THEN AtMost(values[n], max) ELSE values[n]

(* Mutant: "no limit" is taken for a limit of zero.                         *)
ResolvedToNoLimit(d, n) ==
  IF values[n] = 0 THEN LimitedDefault(d)[Class[n]]
  ELSE AtMost(values[n], MaxValue(d, Class[n]))

(* Mutant: an explicit size is also limited by the default of its class.    *)
ResolvedByDefault(d, n) ==
  IF values[n] = 0 THEN LimitedDefault(d)[Class[n]]
  ELSE AtMost(values[n], LimitedDefault(d)[Class[n]])

(* A size that is not set gets its default, another one is limited.         *)
Resolved(d, n) ==
  LET max == MaxValue(d, Class[n])
  IN IF values[n] = 0 THEN LimitedDefault(d)[Class[n]]
     ELSE IF max > 0 THEN AtMost(values[n], max) ELSE values[n]

(* ----------------------------- heuristics ----------------------------- *)

Heuristic(platform, type, which, what) ==
  [platform |-> platform, type |-> type, which |-> which, what |-> what]

(* sizeHeuristicsTable, as it reads on device d.                            *)
sizeHeuristicsTable(d) ==
  << Heuristic("NVIDIA CUDA", "GPU", "lockstep_width", 32),
     Heuristic("AMD Accelerated Parallel Processing", "GPU", "lockstep_width", 64),
     Heuristic("", "GPU", "lockstep_width", 1),
     Heuristic("", "GPU", "num_groups", 128),
     Heuristic("", "GPU", "group_size", 256),
     Heuristic("", "GPU", "tile_size", 32),
     Heuristic("", "CPU", "lockstep_width", 1),
     Heuristic("", "CPU", "num_groups", d.units),
     Heuristic("", "CPU", "group_size", 32),
     Heuristic("", "CPU", "tile_size", 4) >>

(* The rows for one setting that fit the device: every platform name        *)
(* contains the empty string.                                               *)
Applicable(d, which) ==
  {k \in DOMAIN sizeHeuristicsTable(d) :
     LET h == sizeHeuristicsTable(d)[k]
     IN h.which = which /\ h.type = d.type /\ h.platform \in {"", d.platform}}

First(rows) == CHOOSE k \in rows : \A j \in rows : k <= j

(* Mutant: a later row of the table overwrites an earlier one.              *)
TunedByLast(d, which, now) ==
  LET rows == Applicable(d, which)
  IN IF now = 0 /\ rows # {}
     THEN sizeHeuristicsTable(d)[CHOOSE k \in rows : \A j \in rows : j <= k].what
     ELSE now

(* post_opencl_setup: each row in turn sets what is still zero.             *)
Tuned(d, which, now) ==
  LET rows == Applicable(d, which)
  IN IF now = 0 /\ rows # {} THEN sizeHeuristicsTable(d)[First(rows)].what ELSE now

(* ------------------------------ actions ------------------------------- *)

(* context_config_new                                                       *)
Init ==
  /\ default = InitialDefault
  /\ values = [n \in Size |-> 0]
  /\ asked = [n \in Size |-> 0]
  /\ settings = 0
  /\ contexts = <<>>

(* Bound.                                                                   *)
Count == settings < MaxSettings /\ settings' = settings + 1

(* context_config_set_default_group_size, ..._num_groups, ..._tile_size     *)
(* and ..._threshold                                                        *)
SetDefault(c, v) ==
  /\ Count
  /\ default' = [default EXCEPT ![c] = v]
  /\ UNCHANGED <<values, asked, contexts>>

(* context_config_set_size; an unknown name changes nothing.                *)
SetSize(n, v) ==
  /\ Count
  /\ values' = [values EXCEPT ![n] = v]
  /\ asked' = [asked EXCEPT ![n] = v]
  /\ UNCHANGED <<default, contexts>>

(* context_new, with setup_opencl: first the sizes, written through the     *)
(* shared pointer, then post_opencl_setup, then the sizes of the context.   *)
(* The last field is history.                                               *)
NewContext(d) ==
  /\ Len(contexts) < MaxContexts
  /\ values' = [n \in Size |-> Resolved(d, n)]
  /\ contexts' = Append(contexts,
       [device   |-> d,
        lockstep |-> Tuned(d, "lockstep_width", 0),
        default  |-> [c \in Classes |-> Tuned(d, c, LimitedDefault(d)[c])],
        sizes    |-> values',
        asked    |-> asked])
  /\ UNCHANGED <<default, asked, settings>>

Next == \/ \E c \in Classes, v \in DefaultValue : SetDefault(c, v)
        \/ \E n \in Size, v \in SizeValue : SetSize(n, v)
        \/ \E d \in Device : NewContext(d)

Spec == Init /\ [][Next]_vars

(* ----------------------------- properties ----------------------------- *)

(* A context; its sizes are all set, whatever device it was made for.       *)
Context == [device   : Device,
            lockstep : Nat,
            default  : [Classes -> Nat \ {0}],
            sizes    : [Size -> Nat \ {0}],
            asked    : [Size -> Nat]]

(* What the variables hold.                                                 *)
TypeOK ==
  /\ default \in [Classes -> Nat \ {0}]
  /\ values \in [Size -> Nat] /\ asked \in [Size -> Nat]
  /\ settings \in 0..MaxSettings
  /\ contexts \in Seq(Context) /\ Len(contexts) <= MaxContexts

(* No kernel is started with groups the device cannot run, and no tile of   *)
(* threads is larger than a group: whatever the defaults, the explicit      *)
(* sizes, and the devices of the contexts made before of the configuration. *)
GroupAndTileFit ==
  \A i \in 1..Len(contexts), n \in Size :
    LET size == contexts[i].sizes[n]
        limit == contexts[i].device.max_group_size
    IN /\ Class[n] = "group_size" => size <= limit
       /\ Class[n] = "tile_size"  => size * size <= limit

(* A size that was asked for is what the context uses, unless a device the  *)
(* configuration has been used with could not do it, this or an earlier     *)
(* one: then it is the limit of that device, and smaller than asked for.    *)
LessOnlyByDevice ==
  \A i \in 1..Len(contexts), n \in Size :
    LET c == contexts[i]
    IN c.asked[n] # 0 =>
         \/ c.sizes[n] = c.asked[n]
         \/ /\ c.sizes[n] < c.asked[n]
            /\ \E j \in 1..i : c.sizes[n] = MaxValue(contexts[j].device, Class[n])

(* The kernels of a GPU rely on the widest lockstep that is known of its    *)
(* platform, and no row for all GPUs takes the place of one for a platform. *)
LockstepOfPlatform ==
  \A i \in 1..Len(contexts) :
    LET c == contexts[i]
    IN c.device.type = "GPU" =>
         \A k \in 1..Len(sizeHeuristicsTable(c.device)) :
           LET h == sizeHeuristicsTable(c.device)[k]
           IN h.which = "lockstep_width" /\ h.platform = c.device.platform => c.lockstep = h.what

(* "Futhark assumes this constraint" (opencl.h) of num_groups, which is     *)
(* the group size of the second kernel of a scan or reduction: there are    *)
(* never more groups than a group has threads at most.                      *)
NumGroupsFit ==
  \A i \in 1..Len(contexts), n \in Size :
    Class[n] = "num_groups" => contexts[i].sizes[n] <= contexts[i].device.max_group_size
=============================================================================

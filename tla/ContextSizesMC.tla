--------------------------- MODULE ContextSizesMC ---------------------------
(* PyContext, and with it ContextSizes, on a machine with devices of all    *)
(* kinds.                                                                   *)
EXTENDS PyContext

(* One size of each class.                                                  *)
Sizes == {"main.group_size", "main.num_groups", "main.tile_size", "main.suff"}
SomeClass == [n \in Sizes |-> CASE n = "main.group_size" -> "group_size"
                                [] n = "main.num_groups" -> "num_groups"
                                [] n = "main.tile_size"  -> "tile_size"
                                [] n = "main.suff"       -> "threshold"]

OpenCLDevice(type, platform, max, tile, units) ==
  [type |-> type, platform |-> platform, max_group_size |-> max, max_tile_size |-> tile, units |-> units]

(* Two platforms of the table, a GPU below all defaults, a CPU that has     *)
(* groups of a single thread, and an accelerator.                           *)
NVIDIA == OpenCLDevice("GPU", "NVIDIA CUDA", 1024, 32, 16)
AMD == OpenCLDevice("GPU", "AMD Accelerated Parallel Processing", 256, 16, 8)
Small == OpenCLDevice("GPU", "Clover", 64, 8, 4)
Apple == OpenCLDevice("CPU", "Apple", 1, 1, 4)
Xeon == OpenCLDevice("ACCELERATOR", "Intel", 8192, 90, 60)

SomeDevices == {NVIDIA, AMD, Small, Apple, Xeon}

(* The device on the blacklist comes first; one name is part of another's,  *)
(* and two devices share a platform and a name.                             *)
Listed(d, name, fp64) == [device |-> d, name |-> name, fp64 |-> fp64]

SomeMachine == << Listed(Apple, "Intel(R) Core(TM) i7", TRUE),
                  Listed(NVIDIA, "GeForce GTX 780 Ti", TRUE),
                  Listed(NVIDIA, "GeForce GTX 780", TRUE),
                  Listed(Small, "Radeon", FALSE),
                  Listed(Xeon, "Intel(R) Xeon Phi", TRUE) >>

Names == {m.name : m \in {SomeMachine[k] : k \in DOMAIN SomeMachine}}
           \cup {d.platform : d \in SomeDevices}

Texts(name) == CASE name = "Intel(R) Core(TM) i7" -> {"Intel(R) Core(TM)", "Intel"}
                 [] name = "Intel(R) Xeon Phi"    -> {"Intel"}
                 [] name = "GeForce GTX 780 Ti"   -> {"GeForce GTX 780"}
                 [] OTHER                         -> {}

SomePart == [name \in Names |-> {"", name} \cup Texts(name)]

SomePlatform == {"", "NVIDIA CUDA", "Intel"}

Preferred(sign, digits, name) == [sign |-> sign, digits |-> digits, name |-> name]

(* "", "Intel", "#", "#1", "#10", "#1 GeForce GTX 780".                      *)
SomePreference == { Preferred(FALSE, <<>>, ""), Preferred(FALSE, <<>>, "Intel"),
                    Preferred(TRUE, <<>>, ""), Preferred(TRUE, <<1>>, ""),
                    Preferred(TRUE, <<1, 0>>, ""), Preferred(TRUE, <<1>>, "GeForce GTX 780") }
=============================================================================

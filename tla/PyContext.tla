----------------------------- MODULE PyContext ------------------------------
(***************************************************************************)
(* The Python counterpart of ContextSizes: how an object of a program that *)
(* futhark-pyopencl compiled finds its device and its sizes                *)
(* (rts/python/opencl.py), beside the contexts of the C program, for a     *)
(* user who gives both the same settings.                                  *)
(*                                                                         *)
(* The Python code tunes the defaults by the table before it limits them,  *)
(* and limits only those that the user gave; there is no default of its    *)
(* own, None, 0 here, is what remains where the table has nothing.  A size *)
(* is not set when the dict the user gives has no entry for it, while C    *)
(* takes a 0 for "not set".                                                *)
(***************************************************************************)
EXTENDS ContextSizes, FiniteSets

LOCAL INSTANCE SequencesExt

CONSTANTS
  Machine,    (* the devices, in the order OpenCL lists them: a member of   *)
              (* Device, its name, and whether it has double precision      *)
  Part,       (* the texts that find() finds in a name                      *)
  Platform,   (* the values of platform_pref                                *)
  Preference  (* the values of device_pref: "#", digits and a name          *)

(* None, for a text and for device_pref.                                    *)
None == "None"
NoPreference == [none |-> TRUE]

ASSUME MachineAssumption ==
  /\ Machine \in Seq([device : Device, name : STRING, fp64 : BOOLEAN])
  /\ \A k \in DOMAIN Machine :
       "" \in Part[Machine[k].name] /\ "" \in Part[Machine[k].device.platform]

(* The one platform with Apple in its name is called Apple: the C program   *)
(* looks for the word, the Python program for the name.                     *)
ASSUME AppleAssumption ==
  \A k \in DOMAIN Machine :
    "Apple" \in Part[Machine[k].device.platform] <=> Machine[k].device.platform = "Apple"

ASSUME PreferenceAssumption ==
  /\ Platform \subseteq STRING \ {None}
  /\ Preference \subseteq [sign : BOOLEAN, digits : Seq(0..9), name : STRING \ {None}]
  /\ NoPreference \notin Preference

VARIABLES
  given,   (* the arguments default_group_size, default_num_groups and      *)
           (* default_tile_size of the constructor, 0 for None              *)
  user_sizes,  (* the sizes the dict "sizes" of the constructor has an      *)
           (* entry for, which is what was asked for last                   *)
  object   (* the arguments and the outcome of the constructor, once called *)

pyvars == <<vars, given, user_sizes, object>>

NoObject == [outcome |-> "not made"]

Find(name, text) == text \in Part[name]

(* ------------------------------- device ------------------------------- *)

Decimal(digits) == FoldLeft(LAMBDA num, digit : num * 10 + digit, 0, digits)

(* A preference "#12 name"; without the sign it is the name alone, and a    *)
(* lone sign is a name, too.                                                *)
parse_preferred_device(s) ==
  IF ~s.sign THEN <<s.name, 0>>
  ELSE IF s.digits = <<>> /\ s.name = "" THEN <<"#", 0>>
  ELSE <<s.name, Decimal(s.digits)>>

(* Match number n, from 0, among those places of the machine, or 0: an      *)
(* Exception.                                                               *)
Match(n, places) ==
  LET nth == {k \in places : Cardinality({j \in places : j < k}) = n}
  IN IF nth = {} THEN 0 ELSE CHOOSE k \in nth : TRUE

Intel(m) == Find(m.name, "Intel(R) Core(TM)")

(* Mutant: the blacklist holds whatever the user prefers.                   *)
BlacklistedAlways(platform_pref, name, m) == m.device.platform = "Apple" /\ Intel(m)

Blacklisted(platform_pref, name, m) ==
  platform_pref = None /\ name = None /\ m.device.platform = "Apple" /\ Intel(m)

(* None and "" both prefer nothing, but only None keeps the blacklist.      *)
get_prefered_context(platform_pref, device_pref) ==
  LET parsed == IF device_pref = NoPreference THEN <<None, 0>> ELSE parse_preferred_device(device_pref)
      platform_ok(m) == platform_pref \in {None, ""} \/ Find(m.device.platform, platform_pref)
      device_ok(m) == parsed[1] \in {None, ""} \/ Find(m.name, parsed[1])
  IN Match(parsed[2], {k \in DOMAIN Machine :
                         /\ platform_ok(Machine[k])
                         /\ ~Blacklisted(platform_pref, parsed[1], Machine[k])
                         /\ device_ok(Machine[k])})

(* The device of the C program: set_preferred_platform and                  *)
(* set_preferred_device, then get_preferred_device.                         *)
get_preferred_device(platform_pref, device_pref) ==
  LET platform == IF platform_pref = None THEN "" ELSE platform_pref
      name == IF device_pref = NoPreference THEN "" ELSE device_pref.name
      num == IF device_pref # NoPreference /\ device_pref.sign THEN Decimal(device_pref.digits) ELSE 0
      is_blacklisted(m) == /\ platform = "" /\ name = ""
                           /\ Find(m.device.platform, "Apple") /\ Intel(m)
  IN Match(num, {k \in DOMAIN Machine :
                   /\ ~is_blacklisted(Machine[k])
                   /\ Find(Machine[k].device.platform, platform)
                   /\ Find(Machine[k].name, name)})

(* -------------------------------- sizes ------------------------------- *)

(* sizes[size] is None: the first row for the device gives the value.       *)
apply_size_heuristics(d, sizes) == [s \in DOMAIN sizes |-> Tuned(d, s, sizes[s])]

TunedSizes(d) ==
  apply_size_heuristics(d, [s \in Classes \cup {"lockstep_width"} |->
                              IF s \in {"group_size", "num_groups", "tile_size"} THEN given[s] ELSE 0])

(* Mutant: a tile size that the user gave is not limited.                   *)
TilesUnlimited(d) ==
  [c \in Classes |-> IF c = "group_size" /\ given[c] # 0
                     THEN AtMost(TunedSizes(d)[c], d.max_group_size) ELSE TunedSizes(d)[c]]

(* Mutant: the defaults the user gave come after those of the table.        *)
TableFirst(d) ==
  [c \in Classes |-> IF Tuned(d, c, 0) # 0 THEN Tuned(d, c, 0) ELSE TunedSizes(d)[c]]

(* The defaults: those the user gave are limited to the device, those of    *)
(* the table are not.                                                       *)
PyDefault(d) ==
  [c \in Classes |-> IF c \in {"group_size", "tile_size"} /\ given[c] # 0
                     THEN AtMost(TunedSizes(d)[c], MaxValue(d, c))
                     ELSE TunedSizes(d)[c]]

(* self.sizes, and max_value, which is None, or 0, for thresholds.  Only an *)
(* entry that is missing gives way to the default: the size of an entry 0   *)
(* is 0.  Without an entry, 0 is a default that is None.                    *)
PySize(d, n) ==
  LET max == MaxValue(d, Class[n])
  IN CASE n \notin user_sizes            -> PyDefault(d)[Class[n]]
       [] n \in user_sizes /\ max # 0    -> AtMost(asked[n], max)
       [] n \in user_sizes /\ max = 0    -> asked[n]

(* None > max_group_size is an error in Python 3, whoever set the default.  *)
Incomparable(d, python) ==
  python = 3 /\ \E c \in {"group_size", "tile_size"} : TunedSizes(d)[c] = 0

(* ------------------------------- actions ------------------------------ *)

(* The rest of initialise_opencl_object, for device number k, which is 0 if *)
(* there is none: the checks in the order they are made.                    *)
Outcome(k, python, f64, unknown) ==
  CASE k = 0                                    -> "no device"
    [] k # 0 /\ f64 /\ ~Machine[k].fp64         -> "no double precision"
    [] k # 0 /\ (f64 => Machine[k].fp64)        ->
         IF Incomparable(Machine[k].device, python) THEN "TypeError"
         ELSE IF unknown THEN "unknown size" ELSE "made"

(* The constructor; f64 tells whether the program needs double precision,   *)
(* unknown whether one of the user's sizes has a name the program has not.  *)
Construct(k, how, python, f64, unknown) ==
  /\ object = NoObject /\ contexts = <<>>
  /\ object' = [outcome |-> Outcome(k, python, f64, unknown), how |-> how, place |-> k,
                sizes   |-> IF Outcome(k, python, f64, unknown) = "made"
                            THEN [n \in Size |-> PySize(Machine[k].device, n)]
                            ELSE <<>>]
  /\ UNCHANGED <<vars, given, user_sizes>>

(* The device is looked for, by the preferences of the user.                *)
NewObject ==
  \E p \in Platform \cup {None}, q \in Preference \cup {NoPreference},
     python \in {2, 3}, f64 \in BOOLEAN, unknown \in BOOLEAN :
    Construct(get_prefered_context(p, q), [by |-> "preference", platform |-> p, device |-> q],
              python, f64, unknown)

(* The user hands over a command queue, or picks the device interactively.  *)
NewObjectOn ==
  \E k \in DOMAIN Machine, python \in {2, 3}, f64 \in BOOLEAN, unknown \in BOOLEAN :
    Construct(k, [by |-> "user"], python, f64, unknown)

PyInit == Init /\ given = [c \in Classes |-> 0] /\ user_sizes = {} /\ object = NoObject

(* The settings of the C configuration are also those of the constructor.   *)
(* Either contexts are made of them here, or an object.                     *)
Give(c, v) ==
  /\ object = NoObject
  /\ SetDefault(c, v)
  /\ given' = [given EXCEPT ![c] = v]
  /\ UNCHANGED <<user_sizes, object>>

Ask(n, v) ==
  /\ object = NoObject
  /\ SetSize(n, v)
  /\ user_sizes' = user_sizes \cup {n}
  /\ UNCHANGED <<given, object>>

InC(d) == object = NoObject /\ NewContext(d) /\ UNCHANGED <<given, user_sizes, object>>

PyNext == \/ \E c \in Classes, v \in DefaultValue : Give(c, v)
          \/ \E n \in Size, v \in SizeValue : Ask(n, v)
          \/ \E d \in Device : InC(d)
          \/ NewObject
          \/ NewObjectOn

PySpec == PyInit /\ [][PyNext]_pyvars

(* ----------------------------- properties ----------------------------- *)

(* Preferences that prefer nothing, but are given: "", "#" or "#k".  The    *)
(* blacklist of the C program holds for them, that of Python does not.      *)
GivenForNothing(p, q) ==
  p \in {None, ""} /\ (q = NoPreference \/ q.name = "") /\ ~(p = None /\ q = NoPreference)

(* The Python program runs on the device that the C program picks for the   *)
(* same preferences, or both find none: whatever the order of the devices,  *)
(* their names and the number that match.  A lone "#" is a name only in     *)
(* Python, and preferences for nothing are left out, see GivenForNothing.   *)
SameDevice ==
  (object # NoObject /\ object.how.by = "preference") =>
    LET p == object.how.platform
        q == object.how.device
    IN \/ object.place = get_preferred_device(p, q)
       \/ q # NoPreference /\ q.sign /\ q.digits = <<>> /\ q.name = ""
       \/ GivenForNothing(p, q)

(* The user has set size n, or the default of its class.                    *)
SetByUser(n) == n \in user_sizes \/ (given[Class[n]] # 0 /\ Class[n] # "threshold")

(* What the user set is the same in both programs, an explicit size and the *)
(* size of a class with a default from the user alike, although the one     *)
(* limits before it tunes, and the other tunes before it limits.  The two   *)
(* differ exactly for an explicit 0: it is a size in Python and no setting  *)
(* in C.                                                                    *)
SizesLikeC ==
  (object.outcome = "made") =>
    \A n \in Size :
      SetByUser(n) =>
        (object.sizes[n] = Resolved(Machine[object.place].device, n)
           <=> ~(n \in user_sizes /\ asked[n] = 0))

(* A size is larger than the device allows only if nobody set it and the    *)
(* table gives a default, which is never limited.  It is 0, or missing,     *)
(* only if the user wants it to be 0, or nobody set it and the table has no *)
(* row: never on a CPU or a GPU, but for thresholds.                        *)
UnfitOnlyUnset ==
  (object.outcome = "made") =>
    \A n \in Size :
      LET d == Machine[object.place].device
          c == Class[n]
          size == object.sizes[n]
      IN /\ (c \in {"group_size", "tile_size"} /\ size > MaxValue(d, c)) =>
              ~SetByUser(n) /\ Tuned(d, c, 0) = size
         /\ size = 0 =>
              IF n \in user_sizes THEN asked[n] = 0
              ELSE c = "threshold" \/ (given[c] = 0 /\ d.type = "ACCELERATOR")
=============================================================================

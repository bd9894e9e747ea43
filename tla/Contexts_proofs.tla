-------------------------- MODULE Contexts_proofs ---------------------------
(***************************************************************************)
(* Proofs about ContextSizes, for all programs, devices and settings; and  *)
(* then about PyContext: that the Python program uses the device and the   *)
(* sizes that the C program would, as far as the user has set them.        *)
(***************************************************************************)
EXTENDS PyContext, TLAPS

(* What fits a device: the sizes of one context.                            *)
Fits(c) ==
  \A n \in Size :
    /\ Class[n] = "group_size" => c.sizes[n] <= c.device.max_group_size
    /\ Class[n] = "tile_size"  => c.sizes[n] <= c.device.max_tile_size

AllFit == \A i \in 1..Len(contexts) : Fits(contexts[i])

(* The value x of size n is what was asked for, or the limit of the device  *)
(* of one of the first k contexts cs.                                       *)
From(n, x, ask, cs, k) ==
  ask # 0 => /\ x # 0
             /\ \/ x = ask
                \/ x < ask /\ \E j \in 1..k : x = MaxValue(cs[j].device, Class[n])

(* So is what the configuration keeps for the next context, ...             *)
Kept == \A n \in Size : From(n, values[n], asked[n], contexts, Len(contexts))

(* ... and what each context has.                                           *)
Honoured == \A i \in 1..Len(contexts), n \in Size :
              From(n, contexts[i].sizes[n], contexts[i].asked[n], contexts, i)

IInv == TypeOK /\ AllFit /\ Kept /\ Honoured

-----------------------------------------------------------------------------
(* The table only has numbers of at least one.                              *)
LEMMA TableType ==
  ASSUME NEW d \in Device
  PROVE  /\ DOMAIN sizeHeuristicsTable(d) = 1..10
         /\ \A k \in 1..10 : sizeHeuristicsTable(d)[k].what \in Nat \ {0}
<1>1. d.units \in Nat \ {0}
  BY DeviceAssumption
<1> DEFINE table == sizeHeuristicsTable(d)
<1>2. DOMAIN table = 1..10
  BY DEF sizeHeuristicsTable
<1>3. table[1].what = 32 /\ table[2].what = 64 /\ table[3].what = 1 /\ table[4].what = 128
  BY DEF sizeHeuristicsTable, Heuristic
<1>4. table[5].what = 256 /\ table[6].what = 32 /\ table[7].what = 1
  BY DEF sizeHeuristicsTable, Heuristic
<1>5. table[8].what = d.units /\ table[9].what = 32 /\ table[10].what = 4
  BY DEF sizeHeuristicsTable, Heuristic
<1> HIDE DEF table
<1>6. ASSUME NEW k \in 1..10 PROVE table[k].what \in Nat \ {0}
  BY <1>1, <1>3, <1>4, <1>5
<1> QED
  BY <1>2, <1>6 DEF table

(* The smallest of some rows of the table is one of them.                   *)
LEMMA FirstIsOne ==
  ASSUME NEW rows \in SUBSET (1..10), rows # {}
  PROVE  First(rows) \in rows
<1>1. \E k \in rows : \A j \in rows : k <= j
  <2> SUFFICES ASSUME \A k \in rows : \E j \in rows : j < k PROVE FALSE
    BY rows \subseteq Nat
  <2>1. 1 \notin rows
    OBVIOUS
  <2>2. 2 \notin rows
    BY <2>1
  <2>3. 3 \notin rows
    BY <2>1, <2>2
  <2>4. 4 \notin rows
    BY <2>1, <2>2, <2>3
  <2>5. 5 \notin rows
    BY <2>1, <2>2, <2>3, <2>4
  <2>6. 6 \notin rows
    BY <2>1, <2>2, <2>3, <2>4, <2>5
  <2>7. 7 \notin rows
    BY <2>1, <2>2, <2>3, <2>4, <2>5, <2>6
  <2>8. 8 \notin rows
    BY <2>1, <2>2, <2>3, <2>4, <2>5, <2>6, <2>7
  <2>9. 9 \notin rows
    BY <2>1, <2>2, <2>3, <2>4, <2>5, <2>6, <2>7, <2>8
  <2>10. 10 \notin rows
    BY <2>1, <2>2, <2>3, <2>4, <2>5, <2>6, <2>7, <2>8, <2>9
  <2>11. PICK x \in 1..10 : x \in rows
    OBVIOUS
  <2>12. x = 1 \/ x = 2 \/ x = 3 \/ x = 4 \/ x = 5 \/ x = 6 \/ x = 7 \/ x = 8 \/ x = 9 \/ x = 10
    OBVIOUS
  <2> QED
    BY <2>1, <2>2, <2>3, <2>4, <2>5, <2>6, <2>7, <2>8, <2>9, <2>10, <2>11, <2>12
<1> QED
  BY <1>1 DEF First

(* A heuristic never takes a setting away.                                  *)
LEMMA TunedType ==
  ASSUME NEW d \in Device, NEW which, NEW now \in Nat
  PROVE  Tuned(d, which, now) \in Nat /\ (now # 0 => Tuned(d, which, now) # 0)
<1> DEFINE rows == Applicable(d, which)
<1>1. rows \in SUBSET (1..10)
  BY TableType DEF Applicable
<1>2. rows # {} => First(rows) \in 1..10
  BY <1>1, FirstIsOne
<1>3. rows # {} => sizeHeuristicsTable(d)[First(rows)].what \in Nat
  BY <1>2, TableType
<1> HIDE DEF rows
<1>4. Tuned(d, which, now)
        = IF now = 0 /\ rows # {} THEN sizeHeuristicsTable(d)[First(rows)].what ELSE now
  BY DEF Tuned, rows
<1> QED
  BY <1>3, <1>4

(* A size always gets a value, within the limits of the device.             *)
LEMMA ResolvedFits ==
  ASSUME TypeOK, NEW d \in Device, NEW n \in Size
  PROVE  /\ Resolved(d, n) \in Nat \ {0}
         /\ Class[n] = "group_size" => Resolved(d, n) <= d.max_group_size
         /\ Class[n] = "tile_size"  => Resolved(d, n) <= d.max_tile_size
<1>1. d.max_group_size \in Nat \ {0} /\ d.max_tile_size \in Nat \ {0}
  BY DeviceAssumption
<1>2. Class[n] \in Classes
  BY SizeAssumption
<1>3. values[n] \in Nat
  BY DEF TypeOK
<1>4. /\ LimitedDefault(d) \in [Classes -> Nat \ {0}]
      /\ LimitedDefault(d)["group_size"] <= d.max_group_size
      /\ LimitedDefault(d)["tile_size"] <= d.max_tile_size
  BY <1>1 DEF TypeOK, LimitedDefault, AtMost, Classes
<1> DEFINE l == LimitedDefault(d)
<1> HIDE DEF l
<1>5. l \in [Classes -> Nat \ {0}] /\ l["group_size"] <= d.max_group_size /\ l["tile_size"] <= d.max_tile_size
  BY <1>4 DEF l
<1>6. Resolved(d, n) = LET max == MaxValue(d, Class[n])
                       IN IF values[n] = 0 THEN l[Class[n]]
                          ELSE IF max > 0 THEN AtMost(values[n], max) ELSE values[n]
  BY DEF Resolved, l
<1>7. MaxValue(d, "group_size") = d.max_group_size /\ MaxValue(d, "tile_size") = d.max_tile_size
      /\ MaxValue(d, "num_groups") = d.max_group_size /\ MaxValue(d, "threshold") = 0
  BY DEF MaxValue
<1>8. CASE values[n] = 0
  BY <1>2, <1>5, <1>6, <1>8
<1>9. CASE values[n] # 0
  <2> DEFINE max == MaxValue(d, Class[n])
  <2>1. max \in Nat
    BY <1>1, <1>2, <1>7 DEF Classes
  <2>2. /\ Class[n] = "group_size" => max = d.max_group_size
        /\ Class[n] = "tile_size" => max = d.max_tile_size
    BY <1>7
  <2> HIDE DEF max
  <2>3. Resolved(d, n) = IF max > 0 THEN AtMost(values[n], max) ELSE values[n]
    BY <1>6, <1>9 DEF max
  <2> QED
    BY <1>1, <1>3, <1>9, <2>1, <2>2, <2>3 DEF AtMost
<1> QED
  BY <1>8, <1>9

-----------------------------------------------------------------------------
LEMMA InitIInv == Init => IInv
<1> SUFFICES ASSUME Init PROVE IInv
  OBVIOUS
<1>1. default \in [Classes -> Nat \ {0}]
  BY DEF Init, InitialDefault, Classes
<1>2. TypeOK
  BY <1>1, ValueAssumption DEF Init, TypeOK
<1> QED
  BY <1>2 DEF Init, IInv, AllFit, Kept, From, Honoured

(* A setting changes no context.                                            *)
LEMMA SettingIInv ==
  ASSUME IInv, UNCHANGED contexts, TypeOK', Kept'
  PROVE  IInv'
<1>1. AllFit'
  BY DEF IInv, AllFit, Fits
<1>2. Honoured'
  BY DEF IInv, Honoured, From
<1> QED
  BY <1>1, <1>2 DEF IInv

LEMMA SetDefaultType ==
  ASSUME TypeOK, NEW c \in Classes, NEW v \in DefaultValue, SetDefault(c, v)
  PROVE  TypeOK'
BY ValueAssumption DEF TypeOK, SetDefault, Count

LEMMA SetSizeType ==
  ASSUME TypeOK, NEW n \in Size, NEW v \in SizeValue, SetSize(n, v)
  PROVE  TypeOK'
BY ValueAssumption DEF TypeOK, SetSize, Count

(* How a size that is set gets its value.                                   *)
LEMMA ResolvedSet ==
  ASSUME TypeOK, NEW d \in Device, NEW n \in Size, values[n] # 0
  PROVE  \/ Resolved(d, n) = values[n]
         \/ Resolved(d, n) < values[n] /\ Resolved(d, n) = MaxValue(d, Class[n])
<1> DEFINE max == MaxValue(d, Class[n])
<1>1. max \in Nat
  <2>1. d.max_group_size \in Nat \ {0} /\ d.max_tile_size \in Nat \ {0}
    BY DeviceAssumption
  <2>2. Class[n] \in Classes
    BY SizeAssumption
  <2> QED
    BY <2>1, <2>2 DEF MaxValue, Classes
<1>2. values[n] \in Nat
  BY DEF TypeOK
<1> HIDE DEF max
<1>3. Resolved(d, n) = IF max > 0 THEN AtMost(values[n], max) ELSE values[n]
  BY DEF Resolved, max
<1>4. Resolved(d, n) = values[n] \/ (Resolved(d, n) < values[n] /\ Resolved(d, n) = max)
  BY <1>1, <1>2, <1>3 DEF AtMost
<1> QED
  BY <1>4 DEF max

(* A new context fits, and leaves the earlier ones as they are.             *)
LEMMA NewContextIInv ==
  ASSUME IInv, NEW d \in Device, NewContext(d)
  PROVE  IInv'
<1> DEFINE new == [device   |-> d,
                   lockstep |-> Tuned(d, "lockstep_width", 0),
                   default  |-> [c \in Classes |-> Tuned(d, c, LimitedDefault(d)[c])],
                   sizes    |-> values',
                   asked    |-> asked]
<1>1. contexts' = Append(contexts, new) /\ values' = [n \in Size |-> Resolved(d, n)]
  BY DEF NewContext
<1>2. values' \in [Size -> Nat \ {0}]
  BY <1>1, ResolvedFits DEF IInv
<1>3. LimitedDefault(d) \in [Classes -> Nat \ {0}]
  <2>1. d.max_group_size \in Nat \ {0} /\ d.max_tile_size \in Nat \ {0}
    BY DeviceAssumption
  <2> QED
    BY <2>1 DEF IInv, TypeOK, LimitedDefault, AtMost, Classes
<1>4. \A c \in Classes : Tuned(d, c, LimitedDefault(d)[c]) \in Nat \ {0}
  BY <1>3, TunedType
<1>5. Tuned(d, "lockstep_width", 0) \in Nat
  BY TunedType
<1>6. new \in Context
  BY <1>2, <1>4, <1>5 DEF Context, IInv, TypeOK
<1>7. Fits(new)
  BY <1>1, ResolvedFits DEF Fits, IInv
<1> HIDE DEF new
<1>8. contexts \in Seq(Context)
  BY DEF IInv, TypeOK
<1>9. TypeOK'
  <2>1. contexts' \in Seq(Context) /\ Len(contexts') = Len(contexts) + 1
    BY <1>1, <1>6, <1>8
  <2>2. Len(contexts) < MaxContexts /\ Len(contexts) \in Nat /\ MaxContexts \in Nat
    BY <1>8, ValueAssumption DEF NewContext
  <2>3. Len(contexts') <= MaxContexts
    BY <2>1, <2>2
  <2>4. UNCHANGED <<default, asked, settings>>
    BY DEF NewContext
  <2>5. values' \in [Size -> Nat]
    BY <1>2
  <2> QED
    BY <2>1, <2>3, <2>4, <2>5 DEF IInv, TypeOK
<1>10. \A i \in 1..Len(contexts') : contexts'[i] = new \/ (i \in 1..Len(contexts) /\ contexts'[i] = contexts[i])
  <2>1. Len(contexts') = Len(contexts) + 1
    BY <1>1, <1>6, <1>8
  <2>2. contexts'[Len(contexts) + 1] = new
    BY <1>1, <1>6, <1>8
  <2>3. \A i \in 1..Len(contexts) : contexts'[i] = contexts[i]
    BY <1>1, <1>6, <1>8
  <2>4. Len(contexts) \in Nat
    BY <1>8
  <2> DEFINE n == Len(contexts)
  <2> HIDE DEF n
  <2>5. ASSUME NEW i \in 1..n + 1 PROVE contexts'[i] = new \/ (i \in 1..n /\ contexts'[i] = contexts[i])
    BY <2>2, <2>3, <2>4 DEF n
  <2> QED
    BY <2>1, <2>5 DEF n
<1>11. AllFit'
  <2> SUFFICES ASSUME NEW i \in 1..Len(contexts') PROVE Fits(contexts'[i])
    BY DEF AllFit, Fits
  <2> QED
    BY <1>7, <1>10 DEF IInv, AllFit
<1> DEFINE k == Len(contexts) + 1
<1>12. /\ Len(contexts) \in Nat /\ Len(contexts') = k /\ contexts'[k] = new
       /\ \A i \in 1..Len(contexts) : contexts'[i] = contexts[i]
  BY <1>1, <1>6, <1>8
<1>13. new.device = d /\ new.asked = asked /\ new.sizes = values' /\ asked' = asked
  BY DEF new, NewContext
<1> HIDE DEF k
<1>14. k \in Nat /\ k = Len(contexts) + 1
  BY <1>12 DEF k
<1>15. ASSUME NEW n \in Size PROVE From(n, values'[n], asked[n], contexts', k)
  <2> SUFFICES ASSUME asked[n] # 0
               PROVE  /\ values'[n] # 0
                      /\ \/ values'[n] = asked[n]
                         \/ /\ values'[n] < asked[n]
                            /\ \E j \in 1..k : values'[n] = MaxValue(contexts'[j].device, Class[n])
    BY <1>12, <1>13, <1>14 DEF From, k
  <2>1. /\ values[n] # 0
        /\ \/ values[n] = asked[n]
           \/ /\ values[n] < asked[n]
              /\ \E j \in 1..Len(contexts) : values[n] = MaxValue(contexts[j].device, Class[n])
    BY DEF IInv, Kept, From
  <2>2. values'[n] = Resolved(d, n) /\ values'[n] \in Nat \ {0}
    BY <1>1, <1>2
  <2>3. values[n] \in Nat /\ asked[n] \in Nat
    BY DEF IInv, TypeOK
  <2>4. \/ values'[n] = values[n]
        \/ values'[n] < values[n] /\ values'[n] = MaxValue(d, Class[n])
    BY <2>1, <2>2, ResolvedSet DEF IInv
  <2>5. CASE values'[n] = values[n] /\ values[n] = asked[n]
    BY <2>2, <2>5
  <2>6. CASE values'[n] = values[n] /\ values[n] < asked[n]
    <3>1. PICK j \in 1..Len(contexts) : values[n] = MaxValue(contexts[j].device, Class[n])
      BY <2>1, <2>3, <2>6
    <3>2. j \in 1..k /\ contexts'[j] = contexts[j]
      BY <1>12, <1>14
    <3> QED
      BY <2>2, <2>6, <3>1, <3>2
  <2>7. CASE values'[n] < values[n] /\ values'[n] = MaxValue(d, Class[n])
    <3>1. k \in 1..k /\ contexts'[k].device = d
      BY <1>12, <1>13, <1>14
    <3>2. values'[n] < asked[n]
      BY <2>1, <2>2, <2>3, <2>7
    <3> QED
      BY <2>2, <2>7, <3>1, <3>2
  <2> QED
    BY <2>1, <2>4, <2>5, <2>6, <2>7
<1>16. Kept'
  BY <1>12, <1>13, <1>15 DEF Kept
<1>17. Honoured'
  <2> SUFFICES ASSUME NEW i \in 1..k, NEW n \in Size
               PROVE  From(n, contexts'[i].sizes[n], contexts'[i].asked[n], contexts', i)
    BY <1>12 DEF Honoured
  <2>1. CASE i = k
    BY <1>12, <1>13, <1>15, <2>1 DEF From
  <2>2. CASE i # k
    <3>1. i \in 1..Len(contexts) /\ contexts'[i] = contexts[i]
      BY <1>12, <1>14, <2>2
    <3>2. From(n, contexts[i].sizes[n], contexts[i].asked[n], contexts, i)
      BY <3>1 DEF IInv, Honoured
    <3>3. \A j \in 1..i : contexts'[j] = contexts[j]
      BY <1>12, <3>1
    <3> QED
      BY <3>1, <3>2, <3>3 DEF From
  <2> QED
    BY <2>1, <2>2
<1> QED
  BY <1>9, <1>11, <1>16, <1>17 DEF IInv

(* IInv holds of every reachable state.                                     *)
THEOREM Invariance == Spec => []IInv
<1>1. IInv /\ [Next]_vars => IInv'
  <2> SUFFICES ASSUME IInv, [Next]_vars PROVE IInv'
    OBVIOUS
  <2>1. CASE \E c \in Classes, v \in DefaultValue : SetDefault(c, v)
    <3>1. TypeOK' /\ UNCHANGED <<contexts, values, asked>>
      BY <2>1, SetDefaultType DEF IInv, SetDefault
    <3>2. Kept'
      BY <3>1 DEF IInv, Kept, From
    <3> QED
      BY <3>1, <3>2, SettingIInv
  <2>2. CASE \E n \in Size, v \in SizeValue : SetSize(n, v)
    <3> PICK m \in Size, v \in SizeValue : SetSize(m, v)
      BY <2>2
    <3>1. TypeOK' /\ UNCHANGED contexts
      BY SetSizeType DEF IInv, SetSize
    <3>2. values' = [values EXCEPT ![m] = v] /\ asked' = [asked EXCEPT ![m] = v]
      BY DEF SetSize
    <3>3. ASSUME NEW n \in Size PROVE From(n, values'[n], asked'[n], contexts', Len(contexts'))
      <4>1. values \in [Size -> Nat] /\ asked \in [Size -> Nat]
        BY DEF IInv, TypeOK
      <4>2. CASE n = m
        BY <3>2, <4>1, <4>2 DEF From
      <4>3. CASE n # m
        <5>1. values'[n] = values[n] /\ asked'[n] = asked[n]
          BY <3>2, <4>1, <4>3
        <5> QED
          BY <3>1, <5>1 DEF IInv, Kept, From
      <4> QED
        BY <4>2, <4>3
    <3>4. Kept'
      BY <3>3 DEF Kept
    <3> QED
      BY <3>1, <3>4, SettingIInv
  <2>3. CASE \E d \in Device : NewContext(d)
    BY <2>3, NewContextIInv
  <2>4. CASE UNCHANGED vars
    BY <2>4 DEF IInv, TypeOK, AllFit, Fits, Kept, Honoured, From, vars
  <2> QED
    BY <2>1, <2>2, <2>3, <2>4 DEF Next
<1> QED
  BY InitIInv, <1>1, PTL DEF Spec

(* The variables keep their types; every size of every context is set.      *)
THEOREM TypeCorrect == Spec => []TypeOK
<1>1. IInv => TypeOK
  BY DEF IInv
<1> QED
  BY Invariance, <1>1, PTL

(* A square below a square.                                                 *)
LEMMA Square ==
  ASSUME NEW a \in Nat, NEW b \in Nat, a <= b
  PROVE  a * a <= b * b
<1>1. a * a <= a * b
  BY SMT
<1>2. a * b <= b * b
  BY SMT
<1> QED
  BY <1>1, <1>2, SMT

(* Whatever was set, and whatever devices earlier contexts of the           *)
(* configuration were for, a context only starts groups its device can run, *)
(* with tiles that fit in them.                                             *)
THEOREM SizesFit == Spec => []GroupAndTileFit
<1>1. IInv => GroupAndTileFit
  <2> SUFFICES ASSUME IInv, NEW i \in 1..Len(contexts), NEW n \in Size
               PROVE  LET size == contexts[i].sizes[n]
                          limit == contexts[i].device.max_group_size
                      IN /\ Class[n] = "group_size" => size <= limit
                         /\ Class[n] = "tile_size"  => size * size <= limit
    BY DEF GroupAndTileFit
  <2> DEFINE size == contexts[i].sizes[n]
             d == contexts[i].device
  <2>1. contexts[i] \in Context
    BY DEF IInv, TypeOK
  <2>2. d \in Device /\ size \in Nat
    BY <2>1 DEF Context
  <2>3. /\ Class[n] = "group_size" => size <= d.max_group_size
        /\ Class[n] = "tile_size"  => size <= d.max_tile_size
    BY DEF IInv, AllFit, Fits
  <2> DEFINE tile == d.max_tile_size
             group == d.max_group_size
  <2>4. tile \in Nat /\ group \in Nat /\ tile * tile <= group
    BY <2>2, DeviceAssumption
  <2>5. ASSUME Class[n] = "tile_size" PROVE size * size <= group
    <3>1. size <= tile
      BY <2>3, <2>5
    <3> HIDE DEF size, tile, group
    <3>2. size * size <= tile * tile
      BY <2>2, <2>4, <3>1, Square DEF size
    <3>3. size * size \in Nat /\ tile * tile \in Nat
      BY <2>2, <2>4 DEF size
    <3> QED
      BY <2>4, <3>2, <3>3
  <2> QED
    BY <2>3, <2>5
<1> QED
  BY Invariance, <1>1, PTL

(* A context has the size that was asked for, however often the             *)
(* configuration has been used, unless that is more than this device or     *)
(* that of an earlier context can do.                                       *)
THEOREM SizesHonoured == Spec => []LessOnlyByDevice
<1>1. IInv => LessOnlyByDevice
  BY DEF IInv, Honoured, From, LessOnlyByDevice
<1> QED
  BY Invariance, <1>1, PTL
-----------------------------------------------------------------------------
(* No context is made while the default number of groups is more than its   *)
(* device can do, unless every size of that class has been set.             *)
DefaultGroupsFit ==
  [][\A d \in Device, n \in Size :
       NewContext(d) /\ Class[n] = "num_groups" /\ values[n] = 0
         => default["num_groups"] <= d.max_group_size]_vars

(* A number of groups that is set is limited to the device, as its class    *)
(* has a limit; only a default is not.                                      *)
LEMMA ResolvedGroupsFit ==
  ASSUME TypeOK, NEW d \in Device, NEW n \in Size, Class[n] = "num_groups",
         values[n] = 0 => default["num_groups"] <= d.max_group_size
  PROVE  Resolved(d, n) <= d.max_group_size
<1>1. d.max_group_size \in Nat \ {0}
  BY DeviceAssumption
<1>2. CASE values[n] = 0
  <2>1. LimitedDefault(d)["num_groups"] = default["num_groups"]
    BY DEF TypeOK, LimitedDefault, Classes
  <2> QED
    BY <1>2, <2>1 DEF Resolved
<1>3. CASE values[n] # 0
  <2>1. MaxValue(d, Class[n]) = d.max_group_size /\ values[n] \in Nat
    BY DEF MaxValue, TypeOK
  <2>2. Resolved(d, n) = AtMost(values[n], d.max_group_size)
    BY <1>1, <1>3, <2>1 DEF Resolved
  <2> QED
    BY <1>1, <2>1, <2>2 DEF AtMost
<1> QED
  BY <1>2, <1>3

(* The constraint "Futhark assumes" (opencl.h) of the numbers of groups is  *)
(* broken only by a default: however a configuration is used, also for many *)
(* devices, it holds of all contexts if no default for num_groups is in     *)
(* force that exceeds the device a context is made for.                     *)
THEOREM NumGroupsFitUnlessDefault == Spec /\ DefaultGroupsFit => []NumGroupsFit
<1> DEFINE Guarded == \A d \in Device, n \in Size :
                        NewContext(d) /\ Class[n] = "num_groups" /\ values[n] = 0
                          => default["num_groups"] <= d.max_group_size
<1>1. Init => NumGroupsFit
  BY DEF Init, NumGroupsFit
<1>2. TypeOK /\ NumGroupsFit /\ [Next]_vars /\ [Guarded]_vars => NumGroupsFit'
  <2> SUFFICES ASSUME TypeOK, NumGroupsFit, [Next]_vars, [Guarded]_vars PROVE NumGroupsFit'
    OBVIOUS
  <2>1. CASE UNCHANGED contexts
    BY <2>1 DEF NumGroupsFit
  <2>2. ASSUME NEW d \in Device, NewContext(d) PROVE NumGroupsFit'
    <3>1. values' = [n \in Size |-> Resolved(d, n)]
          /\ \E c : c.device = d /\ c.sizes = values' /\ contexts' = Append(contexts, c)
      BY <2>2 DEF NewContext
    <3>2. PICK new : new.device = d /\ new.sizes = values' /\ contexts' = Append(contexts, new)
      BY <3>1
    <3>3. contexts \in Seq(Context)
      BY DEF TypeOK
    <3>4. ASSUME NEW i \in 1..Len(contexts')
          PROVE  contexts'[i] = new \/ (i \in 1..Len(contexts) /\ contexts'[i] = contexts[i])
      BY <3>2, <3>3
    <3>5. contexts' # contexts
      BY <3>2, <3>3
    <3>6. Guarded
      BY <3>5 DEF vars
    <3>7. ASSUME NEW n \in Size, Class[n] = "num_groups"
          PROVE  new.sizes[n] <= new.device.max_group_size
      BY <2>2, <3>1, <3>2, <3>6, <3>7, ResolvedGroupsFit
    <3> QED
      BY <3>4, <3>7 DEF NumGroupsFit
  <2>3. UNCHANGED contexts \/ \E d \in Device : NewContext(d)
    BY DEF Next, vars, SetDefault, SetSize
  <2> QED
    BY <2>1, <2>2, <2>3
<1> QED
  BY <1>1, <1>2, TypeCorrect, PTL DEF Spec, DefaultGroupsFit
-----------------------------------------------------------------------------
(* What a context has for the lockstep width is what the table gives its    *)
(* device.                                                                  *)
Tabulated == \A i \in 1..Len(contexts) :
               contexts[i].lockstep = Tuned(contexts[i].device, "lockstep_width", 0)

(* The rows of the table that are about the lockstep width.                 *)
LEMMA LockstepRows ==
  ASSUME NEW d \in Device
  PROVE  LET table == sizeHeuristicsTable(d)
         IN /\ \A k \in {1, 2, 3, 7} : table[k].which = "lockstep_width"
            /\ \A k \in {4, 5, 6, 8, 9, 10} : table[k].which # "lockstep_width"
            /\ table[1].platform = "NVIDIA CUDA" /\ table[1].type = "GPU" /\ table[1].what = 32
            /\ table[2].platform = "AMD Accelerated Parallel Processing" /\ table[2].type = "GPU"
            /\ table[2].what = 64
            /\ table[3].platform = "" /\ table[3].type = "GPU" /\ table[3].what = 1
            /\ table[7].platform = "" /\ table[7].type = "CPU" /\ table[7].what = 1
<1> DEFINE table == sizeHeuristicsTable(d)
<1>4. table[1].which = "lockstep_width" /\ table[2].which = "lockstep_width"
      /\ table[3].which = "lockstep_width" /\ table[7].which = "lockstep_width"
  BY DEF sizeHeuristicsTable, Heuristic
<1>5. table[4].which = "num_groups" /\ table[8].which = "num_groups"
  BY DEF sizeHeuristicsTable, Heuristic
<1>6. table[5].which = "group_size" /\ table[9].which = "group_size"
  BY DEF sizeHeuristicsTable, Heuristic
<1>7. table[6].which = "tile_size" /\ table[10].which = "tile_size"
  BY DEF sizeHeuristicsTable, Heuristic
<1>8. /\ table[1].platform = "NVIDIA CUDA" /\ table[1].type = "GPU" /\ table[1].what = 32
      /\ table[2].platform = "AMD Accelerated Parallel Processing" /\ table[2].type = "GPU"
      /\ table[2].what = 64
  BY DEF sizeHeuristicsTable, Heuristic
<1>9. /\ table[3].platform = "" /\ table[3].type = "GPU" /\ table[3].what = 1
      /\ table[7].platform = "" /\ table[7].type = "CPU" /\ table[7].what = 1
  BY DEF sizeHeuristicsTable, Heuristic
<1> HIDE DEF table
<1>10. \A k \in {1, 2, 3, 7} : table[k].which = "lockstep_width"
  BY <1>4
<1>11. \A k \in {4, 5, 6, 8, 9, 10} : table[k].which # "lockstep_width"
  BY <1>5, <1>6, <1>7
<1> QED
  BY <1>8, <1>9, <1>10, <1>11 DEF table

(* Of the rows that fit a GPU the first is the one for its platform, where  *)
(* there is one.                                                            *)
LEMMA LockstepOfGPU ==
  ASSUME NEW d \in Device, d.type = "GPU", NEW k \in 1..10,
         sizeHeuristicsTable(d)[k].which = "lockstep_width",
         sizeHeuristicsTable(d)[k].platform = d.platform
  PROVE  Tuned(d, "lockstep_width", 0) = sizeHeuristicsTable(d)[k].what
<1> DEFINE table == sizeHeuristicsTable(d)
           rows == Applicable(d, "lockstep_width")
<1>1. /\ \A j \in {1, 2, 3, 7} : table[j].which = "lockstep_width"
      /\ \A j \in {4, 5, 6, 8, 9, 10} : table[j].which # "lockstep_width"
  BY LockstepRows
<1>2. /\ table[1].type = "GPU" /\ table[2].type = "GPU"
      /\ table[3].type = "GPU" /\ table[7].type = "CPU"
  BY LockstepRows
<1>3. /\ table[1].platform = "NVIDIA CUDA"
      /\ table[2].platform = "AMD Accelerated Parallel Processing"
      /\ table[3].platform = "" /\ table[7].platform = ""
  BY LockstepRows
<1>4. table[3].what = 1 /\ table[7].what = 1
  BY LockstepRows
<1>5. DOMAIN table = 1..10
  BY TableType
<1>6. rows = {j \in DOMAIN table : /\ table[j].which = "lockstep_width" /\ table[j].type = d.type
                                  /\ table[j].platform \in {"", d.platform}}
  BY DEF Applicable
<1>7. Tuned(d, "lockstep_width", 0) = IF rows # {} THEN table[First(rows)].what ELSE 0
  BY DEF Tuned
<1>8. table[k].which = "lockstep_width" /\ table[k].platform = d.platform
  OBVIOUS
<1> HIDE DEF table, rows
<1>9. \A j \in {1, 2, 3} : j \in rows <=> table[j].platform \in {"", d.platform}
  <2> SUFFICES ASSUME NEW j \in {1, 2, 3} PROVE j \in rows <=> table[j].platform \in {"", d.platform}
    OBVIOUS
  <2>1. j \in 1..10 /\ table[j].which = "lockstep_width"
    BY <1>1
  <2>2. table[j].type = d.type
    BY <1>2
  <2> QED
    BY <1>5, <1>6, <2>1, <2>2
<1>10. 3 \in rows
  <2>1. table[3].platform = ""
    BY <1>3
  <2> QED
    BY <1>9, <2>1
<1>11. \A j \in rows : j \in {1, 2, 3}
  <2> SUFFICES ASSUME NEW j \in rows PROVE j \in {1, 2, 3}
    OBVIOUS
  <2>1. j \in 1..10 /\ table[j].which = "lockstep_width" /\ table[j].type = "GPU"
    BY <1>5, <1>6
  <2>2. j # 7
    BY <1>2, <2>1
  <2>3. j \notin {4, 5, 6, 8, 9, 10}
    BY <1>1, <2>1
  <2> QED
    BY <2>1, <2>2, <2>3
<1>12. /\ 1 \in rows <=> d.platform = "NVIDIA CUDA"
       /\ 2 \in rows <=> d.platform = "AMD Accelerated Parallel Processing"
  <2>1. /\ "NVIDIA CUDA" \in {"", d.platform} <=> d.platform = "NVIDIA CUDA"
        /\ "AMD Accelerated Parallel Processing" \in {"", d.platform}
             <=> d.platform = "AMD Accelerated Parallel Processing"
    OBVIOUS
  <2>2. /\ 1 \in rows <=> table[1].platform \in {"", d.platform}
        /\ 2 \in rows <=> table[2].platform \in {"", d.platform}
    BY <1>9
  <2> QED
    BY <1>3, <2>1, <2>2
<1>13. First(rows) \in rows /\ \A j \in rows : First(rows) <= j
  <2>1. \E r \in rows : \A j \in rows : r <= j
    <3>1. CASE 1 \in rows
      BY <1>11, <3>1
    <3>2. CASE 1 \notin rows /\ 2 \in rows
      BY <1>11, <3>2
    <3>3. CASE 1 \notin rows /\ 2 \notin rows
      BY <1>10, <1>11, <3>3
    <3> QED
      BY <3>1, <3>2, <3>3
  <2> QED
    BY <2>1 DEF First
<1> DEFINE f == First(rows)
<1>14. f \in rows /\ \A j \in rows : f <= j
  BY <1>13
<1>15. Tuned(d, "lockstep_width", 0) = table[f].what
  BY <1>7, <1>10
<1> HIDE DEF f
<1>16. k = 1 \/ k = 2 \/ k = 3 \/ k = 7
  <2>1. k \notin {4, 5, 6, 8, 9, 10}
    BY <1>1, <1>8
  <2> QED
    BY <2>1
<1>17. CASE k = 1
  <2>1. d.platform = "NVIDIA CUDA"
    BY <1>8, <1>17, <1>3
  <2>2. 1 \in rows
    BY <1>12, <2>1
  <2>3. f \in {1, 2, 3} /\ f <= 1
    BY <1>11, <1>14, <2>2
  <2>4. f = 1
    BY <2>3
  <2> QED
    BY <1>15, <1>17, <2>4 DEF table
<1>18. CASE k = 2
  <2>1. d.platform = "AMD Accelerated Parallel Processing"
    BY <1>8, <1>18, <1>3
  <2>2. 2 \in rows
    BY <1>12, <2>1
  <2>3. 1 \notin rows
    BY <1>12, <2>1
  <2>4. f \in {1, 2, 3} /\ f <= 2 /\ f # 1
    BY <1>11, <1>14, <2>2, <2>3
  <2>5. f = 2
    BY <2>4
  <2> QED
    BY <1>15, <1>18, <2>5 DEF table
<1>19. CASE k = 3 \/ k = 7
  <2>1. d.platform = ""
    BY <1>8, <1>19, <1>3
  <2>2. 1 \notin rows /\ 2 \notin rows
    BY <1>12, <2>1
  <2>3. f \in {1, 2, 3} /\ f # 1 /\ f # 2
    BY <1>11, <1>14, <2>2
  <2>4. f = 3
    BY <2>3
  <2> QED
    BY <1>15, <1>19, <1>4, <2>4 DEF table
<1> QED
  BY <1>16, <1>17, <1>18, <1>19

(* Only a new context adds to the list, and it takes what the table says.   *)
LEMMA TabulatedKept == IInv /\ Tabulated /\ [Next]_vars => Tabulated'
<1> SUFFICES ASSUME IInv, Tabulated, [Next]_vars PROVE Tabulated'
  OBVIOUS
<1>1. CASE UNCHANGED contexts
  BY <1>1 DEF Tabulated
<1>2. CASE \E d \in Device : NewContext(d)
  <2> PICK d \in Device : NewContext(d)
    BY <1>2
  <2> DEFINE new == [device   |-> d,
                     lockstep |-> Tuned(d, "lockstep_width", 0),
                     default  |-> [c \in Classes |-> Tuned(d, c, LimitedDefault(d)[c])],
                     sizes    |-> values',
                     asked    |-> asked]
  <2>1. contexts' = Append(contexts, new)
    BY DEF NewContext
  <2>2. new.device = d /\ new.lockstep = Tuned(d, "lockstep_width", 0)
    OBVIOUS
  <2> HIDE DEF new
  <2>3. contexts \in Seq(Context)
    BY DEF IInv, TypeOK
  <2>4. /\ Len(contexts) \in Nat /\ Len(contexts') = Len(contexts) + 1
        /\ \A i \in 1..Len(contexts) : contexts'[i] = contexts[i]
        /\ contexts'[Len(contexts) + 1] = new
    BY <2>1, <2>3
  <2> SUFFICES ASSUME NEW i \in 1..Len(contexts')
               PROVE  contexts'[i].lockstep = Tuned(contexts'[i].device, "lockstep_width", 0)
    BY DEF Tabulated
  <2>5. CASE i \in 1..Len(contexts)
    BY <2>4, <2>5 DEF Tabulated
  <2>6. CASE i = Len(contexts) + 1
    BY <2>2, <2>4, <2>6
  <2> QED
    BY <2>4, <2>5, <2>6
<1> QED
  BY <1>1, <1>2 DEF Next, SetDefault, SetSize, vars

(* A GPU never runs with a narrower lockstep than is known of its platform: *)
(* no row of the table for all GPUs is taken before the one for it.         *)
THEOREM LockstepKnown == Spec => []LockstepOfPlatform
<1>1. Init => Tabulated
  BY DEF Init, Tabulated
<1>2. IInv /\ Tabulated => LockstepOfPlatform
  <2> SUFFICES ASSUME IInv, Tabulated, NEW i \in 1..Len(contexts),
                      contexts[i].device.type = "GPU",
                      NEW k \in 1..Len(sizeHeuristicsTable(contexts[i].device)),
                      sizeHeuristicsTable(contexts[i].device)[k].which = "lockstep_width",
                      sizeHeuristicsTable(contexts[i].device)[k].platform = contexts[i].device.platform
               PROVE  contexts[i].lockstep = sizeHeuristicsTable(contexts[i].device)[k].what
    BY DEF LockstepOfPlatform
  <2>1. contexts[i] \in Context
    BY DEF IInv, TypeOK
  <2>2. contexts[i].device \in Device
    BY <2>1 DEF Context
  <2>3. k \in 1..10
    <3>1. Len(sizeHeuristicsTable(contexts[i].device)) = 10
      BY DEF sizeHeuristicsTable
    <3> QED
      BY <3>1
  <2>4. Tuned(contexts[i].device, "lockstep_width", 0) = sizeHeuristicsTable(contexts[i].device)[k].what
    BY <2>2, <2>3, LockstepOfGPU
  <2> QED
    BY <2>4 DEF Tabulated
<1> QED
  BY Invariance, TabulatedKept, <1>1, <1>2, PTL DEF Spec

-----------------------------------------------------------------------------
(* What the settings of the C program are to those of the constructor.      *)
SameSettings ==
  /\ given \in [Classes -> {0} \cup DefaultValue]
  /\ default = [c \in Classes |-> IF given[c] # 0 THEN given[c] ELSE InitialDefault[c]]
  /\ asked \in [Size -> Nat]
  /\ \A n \in Size : n \notin user_sizes => asked[n] = 0
  /\ contexts = <<>> => values = asked

PyInv == SameSettings /\ SizesLikeC /\ UnfitOnlyUnset /\ SameDevice

-----------------------------------------------------------------------------
(* The limits of a device.                                                  *)
LEMMA Limits ==
  ASSUME NEW d \in Device
  PROVE  /\ MaxValue(d, "group_size") = d.max_group_size /\ d.max_group_size \in Nat \ {0}
         /\ MaxValue(d, "num_groups") = d.max_group_size
         /\ MaxValue(d, "tile_size") = d.max_tile_size /\ d.max_tile_size \in Nat \ {0}
         /\ MaxValue(d, "threshold") = 0
  BY DeviceAssumption DEF MaxValue

(* What the user gave is not tuned; the other defaults are what the table   *)
(* says, and thresholds never are the user's.                               *)
LEMMA TunedGiven ==
  ASSUME NEW d \in Device, NEW c \in Classes, given \in [Classes -> {0} \cup DefaultValue]
  PROVE  /\ given[c] # 0 /\ c # "threshold" => TunedSizes(d)[c] = given[c]
         /\ given[c] = 0 => TunedSizes(d)[c] = Tuned(d, c, 0)
<1> DEFINE of == [s \in Classes \cup {"lockstep_width"} |->
                    IF s \in {"group_size", "num_groups", "tile_size"} THEN given[s] ELSE 0]
<1>1. TunedSizes(d)[c] = Tuned(d, c, of[c])
  BY DEF TunedSizes, apply_size_heuristics
<1>2. ASSUME given[c] # 0, c # "threshold" PROVE TunedSizes(d)[c] = given[c]
  <2>1. of[c] = given[c]
    BY <1>2 DEF Classes
  <2> QED
    BY <1>1, <1>2, <2>1 DEF Tuned
<1>3. ASSUME given[c] = 0 PROVE of[c] = 0
  BY <1>3
<1> QED
  BY <1>1, <1>2, <1>3

(* The table has a default for each class but thresholds, on a CPU or GPU.  *)
LEMMA TableComplete ==
  ASSUME NEW d \in Device, NEW c \in Classes, c # "threshold", Tuned(d, c, 0) = 0
  PROVE  d.type = "ACCELERATOR"
<1> DEFINE rows == Applicable(d, c)
           table == sizeHeuristicsTable(d)
<1>1. DOMAIN table = 1..10 /\ \A k \in 1..10 : table[k].what # 0
  BY TableType
<1>2. rows \in SUBSET (1..10)
  BY <1>1 DEF Applicable
<1>3. rows = {}
  <2> SUFFICES ASSUME rows # {} PROVE FALSE
    OBVIOUS
  <2>1. First(rows) \in 1..10
    BY <1>2, FirstIsOne
  <2>2. Tuned(d, c, 0) = table[First(rows)].what
    BY DEF Tuned
  <2> QED
    BY <1>1, <2>1, <2>2
<1>4. d.type \in {"CPU", "GPU", "ACCELERATOR"}
  BY DeviceAssumption
<1> HIDE DEF rows, table
<1>5. ASSUME NEW k \in {4, 5, 6, 8, 9, 10}, table[k].which = c, table[k].type = d.type PROVE FALSE
  <2>1. table[k].platform = ""
    <3>1. table[4].platform = "" /\ table[5].platform = "" /\ table[6].platform = ""
      BY Zenon DEF table, sizeHeuristicsTable, Heuristic
    <3>2. table[8].platform = "" /\ table[9].platform = "" /\ table[10].platform = ""
      BY Zenon DEF table, sizeHeuristicsTable, Heuristic
    <3> QED
      BY <3>1, <3>2
  <2>2. k \in DOMAIN table
    BY <1>1
  <2>3. k \in rows
    BY <1>5, <2>1, <2>2, Zenon DEF rows, table, Applicable
  <2> QED
    BY <1>3, <2>3
<1>6. ASSUME d.type = "GPU" PROVE FALSE
  <2>1. ASSUME c = "num_groups" PROVE FALSE
    <3>1. table[4].which = "num_groups" /\ table[4].type = "GPU"
      BY DEF table, sizeHeuristicsTable, Heuristic
    <3> QED
      BY <1>5, <1>6, <2>1, <3>1
  <2>2. ASSUME c = "group_size" PROVE FALSE
    <3>1. table[5].which = "group_size" /\ table[5].type = "GPU"
      BY DEF table, sizeHeuristicsTable, Heuristic
    <3> QED
      BY <1>5, <1>6, <2>2, <3>1
  <2>3. ASSUME c = "tile_size" PROVE FALSE
    <3>1. table[6].which = "tile_size" /\ table[6].type = "GPU"
      BY DEF table, sizeHeuristicsTable, Heuristic
    <3> QED
      BY <1>5, <1>6, <2>3, <3>1
  <2> QED
    BY <2>1, <2>2, <2>3 DEF Classes
<1>7. ASSUME d.type = "CPU" PROVE FALSE
  <2>1. ASSUME c = "num_groups" PROVE FALSE
    <3>1. table[8].which = "num_groups" /\ table[8].type = "CPU"
      BY DEF table, sizeHeuristicsTable, Heuristic
    <3> QED
      BY <1>5, <1>7, <2>1, <3>1
  <2>2. ASSUME c = "group_size" PROVE FALSE
    <3>1. table[9].which = "group_size" /\ table[9].type = "CPU"
      BY DEF table, sizeHeuristicsTable, Heuristic
    <3> QED
      BY <1>5, <1>7, <2>2, <3>1
  <2>3. ASSUME c = "tile_size" PROVE FALSE
    <3>1. table[10].which = "tile_size" /\ table[10].type = "CPU"
      BY DEF table, sizeHeuristicsTable, Heuristic
    <3> QED
      BY <1>5, <1>7, <2>3, <3>1
  <2> QED
    BY <2>1, <2>2, <2>3 DEF Classes
<1> QED
  BY <1>4, <1>6, <1>7

(* The default of a C context is a size.                                    *)
LEMMA DefaultPositive ==
  ASSUME NEW d \in Device, NEW n \in Size, SameSettings
  PROVE  LimitedDefault(d)[Class[n]] # 0
<1> DEFINE c == Class[n]
<1>1. c \in Classes
  BY SizeAssumption
<1>2. default \in [Classes -> Nat \ {0}]
  BY ValueAssumption DEF SameSettings, InitialDefault, Classes
<1>3. c = "group_size" => LimitedDefault(d)[c] = AtMost(default[c], d.max_group_size)
  BY <1>2 DEF LimitedDefault, Classes
<1>4. c = "tile_size" => LimitedDefault(d)[c] = AtMost(default[c], d.max_tile_size)
  BY <1>2 DEF LimitedDefault, Classes
<1>5. c \notin {"group_size", "tile_size"} => LimitedDefault(d)[c] = default[c]
  BY <1>1, <1>2 DEF LimitedDefault
<1>6. default[c] \in Nat \ {0}
  BY <1>1, <1>2
<1> QED
  BY <1>3, <1>4, <1>5, <1>6, Limits DEF AtMost

(* A size that was asked for: both programs limit it, but where it is 0 the *)
(* C program has a default.                                                 *)
LEMMA AskedSize ==
  ASSUME NEW d \in Device, NEW n \in Size, SameSettings, contexts = <<>>, n \in user_sizes
  PROVE  /\ PySize(d, n) = Resolved(d, n) <=> asked[n] # 0
         /\ PySize(d, n) = 0 => asked[n] = 0
         /\ Class[n] \in {"group_size", "tile_size"} => ~(PySize(d, n) > MaxValue(d, Class[n]))
<1>1. values[n] = asked[n] /\ asked[n] \in Nat
  BY DEF SameSettings
<1>2. Class[n] \in Classes
  BY SizeAssumption
<1> DEFINE max == MaxValue(d, Class[n])
<1>3. max \in Nat /\ (Class[n] # "threshold" => max # 0)
  BY <1>2, Limits DEF Classes
<1>4. PySize(d, n) = IF max # 0 THEN AtMost(asked[n], max) ELSE asked[n]
  BY DEF PySize
<1>5. asked[n] # 0 => Resolved(d, n) = IF max > 0 THEN AtMost(asked[n], max) ELSE asked[n]
  BY <1>1 DEF Resolved
<1>6. asked[n] = 0 => Resolved(d, n) # 0
  BY <1>1, DefaultPositive DEF Resolved
<1> HIDE DEF max
<1>7. asked[n] # 0 => PySize(d, n) = Resolved(d, n) /\ PySize(d, n) # 0
  BY <1>1, <1>3, <1>4, <1>5 DEF AtMost
<1>8. asked[n] = 0 => PySize(d, n) = 0
  BY <1>3, <1>4 DEF AtMost
<1>9. ASSUME Class[n] \in {"group_size", "tile_size"} PROVE ~(PySize(d, n) > max)
  BY <1>1, <1>3, <1>4, <1>9 DEF AtMost
<1> QED
  BY <1>6, <1>7, <1>8, <1>9 DEF max

(* A size that was not asked for, of a class with a default from the user.  *)
LEMMA GivenSize ==
  ASSUME NEW d \in Device, NEW n \in Size, SameSettings, contexts = <<>>, n \notin user_sizes,
         given[Class[n]] # 0, Class[n] # "threshold"
  PROVE  /\ PySize(d, n) = Resolved(d, n)
         /\ PySize(d, n) # 0
         /\ Class[n] \in {"group_size", "tile_size"} => ~(PySize(d, n) > MaxValue(d, Class[n]))
<1> DEFINE c == Class[n]
<1>1. c \in Classes
  BY SizeAssumption
<1>2. given[c] \in Nat \ {0} /\ default[c] = given[c]
  BY <1>1, ValueAssumption DEF SameSettings
<1>3. TunedSizes(d)[c] = given[c]
  BY <1>1, TunedGiven DEF SameSettings
<1>4. PySize(d, n) = IF c \in {"group_size", "tile_size"} THEN AtMost(given[c], MaxValue(d, c))
                     ELSE given[c]
  BY <1>1, <1>3 DEF PySize, PyDefault
<1>5. Resolved(d, n) = LimitedDefault(d)[c]
  BY DEF Resolved, SameSettings
<1>6. default \in [Classes -> Nat]
  BY ValueAssumption DEF SameSettings, InitialDefault, Classes
<1>7. CASE c = "group_size"
  <2>1. LimitedDefault(d)[c] = AtMost(default[c], d.max_group_size)
    BY <1>6, <1>7 DEF LimitedDefault, Classes
  <2> QED
    BY <1>2, <1>4, <1>5, <1>7, <2>1, Limits DEF AtMost
<1>8. CASE c = "tile_size"
  <2>1. LimitedDefault(d)[c] = AtMost(default[c], d.max_tile_size)
    BY <1>6, <1>8 DEF LimitedDefault, Classes
  <2> QED
    BY <1>2, <1>4, <1>5, <1>8, <2>1, Limits DEF AtMost
<1>9. CASE c = "num_groups"
  <2>1. LimitedDefault(d)[c] = default[c]
    BY <1>6, <1>9 DEF LimitedDefault, Classes
  <2> QED
    BY <1>2, <1>4, <1>5, <1>9, <2>1
<1> QED
  BY <1>1, <1>7, <1>8, <1>9 DEF Classes

(* A size that nobody has set.                                              *)
LEMMA UnsetSize ==
  ASSUME NEW d \in Device, NEW n \in Size, SameSettings, n \notin user_sizes,
         given[Class[n]] = 0 \/ Class[n] = "threshold"
  PROVE  /\ Class[n] \in {"group_size", "tile_size"} => Tuned(d, Class[n], 0) = PySize(d, n)
         /\ PySize(d, n) = 0 => Class[n] = "threshold" \/ d.type = "ACCELERATOR"
<1> DEFINE c == Class[n]
<1>1. c \in Classes
  BY SizeAssumption
<1>2. ASSUME c # "threshold" PROVE PySize(d, n) = Tuned(d, c, 0)
  <2>1. given[c] = 0
    BY <1>2
  <2>2. TunedSizes(d)[c] = Tuned(d, c, 0)
    BY <1>1, <2>1, TunedGiven DEF SameSettings
  <2> QED
    BY <1>1, <2>1, <2>2 DEF PySize, PyDefault
<1> QED
  BY <1>1, <1>2, TableComplete

(* The two programs count the same devices.                                 *)
LEMMA Preferred ==
  ASSUME NEW p \in Platform \cup {None}, NEW q \in Preference \cup {NoPreference},
         ~GivenForNothing(p, q),
         ~(q # NoPreference /\ q.sign /\ q.digits = <<>> /\ q.name = "")
  PROVE  get_prefered_context(p, q) = get_preferred_device(p, q)
<1> DEFINE parsed == IF q = NoPreference THEN <<None, 0>> ELSE parse_preferred_device(q)
           platform_ok(m) == p \in {None, ""} \/ Find(m.device.platform, p)
           device_ok(m) == parsed[1] \in {None, ""} \/ Find(m.name, parsed[1])
           python == {k \in DOMAIN Machine : /\ platform_ok(Machine[k])
                                             /\ ~Blacklisted(p, parsed[1], Machine[k])
                                             /\ device_ok(Machine[k])}
           platform == IF p = None THEN "" ELSE p
           name == IF q = NoPreference THEN "" ELSE q.name
           num == IF q # NoPreference /\ q.sign THEN Decimal(q.digits) ELSE 0
           is_blacklisted(m) == /\ platform = "" /\ name = ""
                                /\ Find(m.device.platform, "Apple") /\ Intel(m)
           c == {k \in DOMAIN Machine : /\ ~is_blacklisted(Machine[k])
                                        /\ Find(Machine[k].device.platform, platform)
                                        /\ Find(Machine[k].name, name)}
<1>1. get_prefered_context(p, q) = Match(parsed[2], python)
  BY Zenon DEF get_prefered_context
<1>2. get_preferred_device(p, q) = Match(num, c)
  BY Zenon DEF get_preferred_device
<1>3. q # NoPreference => parse_preferred_device(q) = <<q.name, IF q.sign THEN Decimal(q.digits) ELSE 0>>
  BY Zenon DEF parse_preferred_device
<1>4. parsed = <<IF q = NoPreference THEN None ELSE q.name, num>>
  BY <1>3, Zenon
<1> DEFINE text == IF q = NoPreference THEN None ELSE q.name
<1> HIDE DEF num
<1>5. parsed[2] = num /\ parsed[1] = text
  <2>1. <<text, num>>[1] = text /\ <<text, num>>[2] = num
    OBVIOUS
  <2> QED
    BY <1>4, <2>1, Zenon
<1> HIDE DEF parsed
<1>6. q # NoPreference => q.name # None
  BY PreferenceAssumption
<1>7. ASSUME NEW k \in DOMAIN Machine PROVE k \in python <=> k \in c
  <2> DEFINE m == Machine[k]
  <2>1. Find(m.name, "") /\ Find(m.device.platform, "")
    BY MachineAssumption, Zenon DEF Find
  <2>2. platform_ok(m) <=> Find(m.device.platform, platform)
    BY <2>1, Zenon
  <2>3. device_ok(m) <=> Find(m.name, name)
    BY <1>5, <1>6, <2>1, Zenon
  <2>4. (p = None /\ text = None) <=> (platform = "" /\ name = "")
    <3>1. (p = None /\ text = None) <=> (p = None /\ q = NoPreference)
      BY <1>6, Zenon
    <3>2. platform = "" <=> p \in {None, ""}
      BY Zenon
    <3>3. name = "" <=> (q = NoPreference \/ q.name = "")
      BY Zenon
    <3> QED
      BY <3>1, <3>2, <3>3, Zenon DEF GivenForNothing
  <2>5. Blacklisted(p, parsed[1], m) <=> is_blacklisted(m)
    <3>1. Find(m.device.platform, "Apple") <=> m.device.platform = "Apple"
      BY AppleAssumption, Zenon DEF Find
    <3> QED
      BY <1>5, <2>4, <3>1, Zenon DEF Blacklisted
  <2> QED
    BY <2>2, <2>3, <2>5, Zenon
<1>8. python = c
  BY <1>7, Zenon
<1> QED
  BY <1>1, <1>2, <1>5, <1>8, Zenon

(* A device that is found is one of those that match.                       *)
LEMMA MatchIsPlace ==
  ASSUME NEW n, NEW places
  PROVE  Match(n, places) \in places \cup {0}
  BY Zenon DEF Match

LEMMA PreferredPlace ==
  ASSUME NEW p, NEW q
  PROVE  get_prefered_context(p, q) \in DOMAIN Machine \cup {0}
<1>1. \E n : \E places \in SUBSET DOMAIN Machine : get_prefered_context(p, q) = Match(n, places)
  BY Zenon DEF get_prefered_context
<1> QED
  BY <1>1, MatchIsPlace

(* What the constructor does to the parts of the invariant.                 *)
LEMMA ConstructStep ==
  ASSUME PyInv, NEW k \in DOMAIN Machine \cup {0}, NEW how, NEW python, NEW f64, NEW unknown,
         Construct(k, how, python, f64, unknown)
  PROVE  /\ SameSettings' /\ SizesLikeC' /\ UnfitOnlyUnset'
         /\ object'.how = how /\ object'.place = k
<1>1. contexts = <<>> /\ UNCHANGED <<default, values, asked, contexts, given, user_sizes>>
  BY DEF Construct, vars
<1>2. SameSettings /\ SameSettings'
  BY <1>1 DEF PyInv, SameSettings
<1>3. object'.how = how /\ object'.place = k
  BY DEF Construct
<1>4. SUFFICES ASSUME object'.outcome = "made" PROVE SizesLikeC' /\ UnfitOnlyUnset'
  BY <1>2, <1>3 DEF SizesLikeC, UnfitOnlyUnset
<1>5. Outcome(k, python, f64, unknown) = "made"
  BY <1>4 DEF Construct
<1>6. k \in DOMAIN Machine
  BY <1>5 DEF Outcome
<1> DEFINE d == Machine[k].device
<1>7. d \in Device
  <2>1. Machine[k] \in [device : Device, name : STRING, fp64 : BOOLEAN]
    <3> DEFINE S == [device : Device, name : STRING, fp64 : BOOLEAN]
    <3>1. Machine \in Seq(S)
      BY MachineAssumption, Zenon
    <3> HIDE DEF S
    <3> SUFFICES Machine[k] \in S
      BY DEF S
    <3>2. Machine \in [1..Len(Machine) -> S] /\ DOMAIN Machine = 1..Len(Machine)
      BY <3>1
    <3> QED
      BY <1>6, <3>2
  <2> QED
    BY <2>1
<1>8. object'.sizes = [n \in Size |-> PySize(d, n)]
  BY <1>5 DEF Construct
<1> HIDE DEF d
<1>9. ASSUME NEW n \in Size
      PROVE  /\ SetByUser(n) =>
                  (PySize(d, n) = Resolved(d, n) <=> ~(n \in user_sizes /\ asked[n] = 0))
             /\ (Class[n] \in {"group_size", "tile_size"} /\ PySize(d, n) > MaxValue(d, Class[n])) =>
                  ~SetByUser(n) /\ Tuned(d, Class[n], 0) = PySize(d, n)
             /\ PySize(d, n) = 0 =>
                  IF n \in user_sizes THEN asked[n] = 0
                  ELSE Class[n] = "threshold" \/ (given[Class[n]] = 0 /\ d.type = "ACCELERATOR")
  <2>1. CASE n \in user_sizes
    BY <1>1, <1>2, <1>7, <2>1, AskedSize
  <2>2. CASE n \notin user_sizes /\ given[Class[n]] # 0 /\ Class[n] # "threshold"
    BY <1>1, <1>2, <1>7, <2>2, GivenSize
  <2>3. CASE n \notin user_sizes /\ (given[Class[n]] = 0 \/ Class[n] = "threshold")
    BY <1>2, <1>7, <2>3, UnsetSize DEF SetByUser
  <2> QED
    BY <2>1, <2>2, <2>3
<1>10. ASSUME NEW n \in Size PROVE Resolved(d, n)' = Resolved(d, n)
  BY <1>1 DEF Resolved, LimitedDefault
<1>11. SizesLikeC'
  BY <1>1, <1>3, <1>8, <1>9, <1>10 DEF SizesLikeC, SetByUser, d
<1>12. UnfitOnlyUnset'
  BY <1>1, <1>3, <1>8, <1>9 DEF UnfitOnlyUnset, SetByUser, d
<1> QED
  BY <1>2, <1>3, <1>11, <1>12

(* While there is no object, only the settings matter.                      *)
LEMMA NothingMade == object = NoObject => SizesLikeC /\ UnfitOnlyUnset /\ SameDevice
<1> SUFFICES ASSUME object = NoObject PROVE SizesLikeC /\ UnfitOnlyUnset /\ SameDevice
  OBVIOUS
<1>1. object.outcome # "made"
  BY DEF NoObject
<1> QED
  BY <1>1, Zenon DEF SizesLikeC, UnfitOnlyUnset, SameDevice

LEMMA SettingsStep ==
  ASSUME PyInv, TypeOK, object = NoObject,
         \/ \E c \in Classes, v \in DefaultValue : Give(c, v)
         \/ \E n \in Size, v \in SizeValue : Ask(n, v)
         \/ \E d \in Device : InC(d)
  PROVE  SameSettings'
<1> USE DEF PyInv, SameSettings
<1>1. ASSUME NEW c \in Classes, NEW v \in DefaultValue, Give(c, v) PROVE SameSettings'
  <2>1. v # 0
    BY ValueAssumption
  <2>2. /\ default' = [default EXCEPT ![c] = v] /\ given' = [given EXCEPT ![c] = v]
        /\ UNCHANGED <<values, asked, contexts, user_sizes>>
    BY <1>1 DEF Give, SetDefault
  <2> QED
    BY <2>1, <2>2
<1>2. ASSUME NEW n \in Size, NEW v \in SizeValue, Ask(n, v) PROVE SameSettings'
  <2>1. v \in Nat
    BY ValueAssumption
  <2>2. /\ values' = [values EXCEPT ![n] = v] /\ asked' = [asked EXCEPT ![n] = v]
        /\ user_sizes' = user_sizes \cup {n}
        /\ UNCHANGED <<default, contexts, given>>
    BY <1>2 DEF Ask, SetSize
  <2> QED
    BY <2>1, <2>2
<1>3. ASSUME NEW d \in Device, InC(d) PROVE SameSettings'
  <2>1. UNCHANGED <<default, asked, given, user_sizes>> /\ \E c : contexts' = Append(contexts, c)
    BY <1>3 DEF InC, NewContext
  <2>2. contexts' # <<>>
    BY <2>1 DEF TypeOK
  <2> QED
    BY <2>1, <2>2
<1> QED
  BY <1>1, <1>2, <1>3

(* All steps.                                                               *)
LEMMA PyStep ==
  ASSUME PyInv, TypeOK, [PyNext]_pyvars
  PROVE  PyInv'
<1>1. CASE UNCHANGED pyvars
  <2>1. SameSettings' /\ SizesLikeC' /\ UnfitOnlyUnset'
    BY <1>1 DEF PyInv, pyvars, vars, SameSettings, SizesLikeC, UnfitOnlyUnset, SetByUser, Resolved, LimitedDefault
  <2>2. SameDevice'
    BY <1>1, Zenon DEF PyInv, pyvars, SameDevice
  <2> QED
    BY <2>1, <2>2 DEF PyInv
<1>2. ASSUME NEW p \in Platform \cup {None}, NEW q \in Preference \cup {NoPreference},
             NEW python, NEW f64, NEW unknown,
             Construct(get_prefered_context(p, q), [by |-> "preference", platform |-> p, device |-> q],
                       python, f64, unknown)
      PROVE  PyInv'
  <2> DEFINE how == [by |-> "preference", platform |-> p, device |-> q]
  <2>1. how.platform = p /\ how.device = q
    OBVIOUS
  <2> HIDE DEF how
  <2>2. /\ SameSettings' /\ SizesLikeC' /\ UnfitOnlyUnset'
        /\ object'.how = how /\ object'.place = get_prefered_context(p, q)
    BY <1>2, ConstructStep, PreferredPlace, Zenon DEF how
  <2>3. SameDevice'
    BY <2>1, <2>2, Preferred, Zenon DEF SameDevice
  <2> QED
    BY <2>2, <2>3 DEF PyInv
<1>3. ASSUME NEW k \in DOMAIN Machine, NEW python, NEW f64, NEW unknown,
             Construct(k, [by |-> "user"], python, f64, unknown)
      PROVE  PyInv'
  <2>1. SameSettings' /\ SizesLikeC' /\ UnfitOnlyUnset' /\ object'.how = [by |-> "user"]
    BY <1>3, ConstructStep
  <2>2. object'.how.by # "preference"
    BY <2>1
  <2>3. SameDevice'
    BY <2>2, Zenon DEF SameDevice
  <2> QED
    BY <2>1, <2>3 DEF PyInv
<1>4. ASSUME \/ \E c \in Classes, v \in DefaultValue : Give(c, v)
             \/ \E n \in Size, v \in SizeValue : Ask(n, v)
             \/ \E d \in Device : InC(d)
      PROVE  PyInv'
  <2>1. object = NoObject /\ (object = NoObject)'
    BY <1>4 DEF Give, Ask, InC, NoObject
  <2>2. SameSettings'
    BY <1>4, <2>1, SettingsStep
  <2>3. (SizesLikeC /\ UnfitOnlyUnset /\ SameDevice)'
    BY <2>1, NothingMade, PTL
  <2> QED
    BY <2>2, <2>3 DEF PyInv
<1> QED
  BY <1>1, <1>2, <1>3, <1>4 DEF PyNext, NewObject, NewObjectOn

-----------------------------------------------------------------------------
(* A behaviour with an object is one of the contexts, so that their         *)
(* invariants can be cited here.                                            *)
LEMMA ImplementsContexts == PySpec => Spec
<1>1. PyInit => Init
  BY DEF PyInit
<1>2. [PyNext]_pyvars => [Next]_vars
  BY DEF PyNext, pyvars, Next, Give, Ask, InC, NewObject, NewObjectOn, Construct
<1> QED
  BY <1>1, <1>2, PTL DEF PySpec, Spec

LEMMA PyInvariance == PySpec => []PyInv
<1>1. PyInit => PyInv
  <2> SUFFICES ASSUME PyInit PROVE PyInv
    OBVIOUS
  <2>1. SameSettings
    BY DEF PyInit, Init, SameSettings, InitialDefault, Classes
  <2>2. object = NoObject
    BY DEF PyInit
  <2> QED
    BY <2>1, <2>2, NothingMade DEF PyInv
<1>2. PyInv /\ TypeOK /\ [PyNext]_pyvars => PyInv'
  BY PyStep
<1> QED
  BY <1>1, <1>2, ImplementsContexts, TypeCorrect, PTL DEF PySpec

(* Whatever the machine and the preferences, but for those SameDevice       *)
(* leaves out, both programs pick the same device (opencl.py:27-56,         *)
(* opencl.h:402-443).                                                       *)
THEOREM PicksSameDevice == PySpec => []SameDevice
<1>1. PyInv => SameDevice
  BY Zenon DEF PyInv
<1> QED
  BY <1>1, PyInvariance, PTL

(* What the user sets has the same effect in both programs, on every        *)
(* device, unless it is an explicit 0, which only C takes for "not set"     *)
(* (opencl.py:111-164, opencl.h:534-583).                                   *)
THEOREM SizesAgree == PySpec => []SizesLikeC
<1>1. PyInv => SizesLikeC
  BY DEF PyInv
<1> QED
  BY <1>1, PyInvariance, PTL

(* A size the user has set fits the device, and is there unless the user    *)
(* has set it to 0 (opencl.py:125-164).                                     *)
THEOREM SetSizesFit == PySpec => []UnfitOnlyUnset
<1>1. PyInv => UnfitOnlyUnset
  BY DEF PyInv
<1> QED
  BY <1>1, PyInvariance, PTL
=============================================================================

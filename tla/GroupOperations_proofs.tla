----------------------- MODULE GroupOperations_proofs -----------------------
(***************************************************************************)
(* Proofs about the group operations of a device.  Those about the scan    *)
(* are in GroupScan_proofs; here is the reduction, for groups, waves and   *)
(* arrays of any size, and then the two on one device.                     *)
(***************************************************************************)
EXTENDS GroupOperationsMC, GroupScan_proofs

Summed(t, d) == Elements(t, (IF t + d < width THEN t + d ELSE width) - 1)

(* The threads that have the result of d elements of their wave, and the    *)
(* first threads, of those waves that have the result of k waves.           *)
Leads(t, d) == Reduce!InWaveId(t) % d = 0
LeadsWaves(t, k) == Reduce!InWaveId(t) = 0 /\ Reduce!WaveId(t) % k = 0

(* A power of two is all that is needed of a lockstep width: the double of  *)
(* a proper divisor divides as well.                                        *)
Doubles(n) == \A d \in 1..n : n % d = 0 => d = n \/ n % (2 * d) = 0

Device ==
  /\ lockstep \in Nat \ {0} /\ Doubles(lockstep)
  /\ width \in Nat /\ width <= ReduceGroupSize

(* Where a thread is, with its distance and number of waves: at level 0 it  *)
(* reduces in its wave, at level m > 0 it takes the result of m waves to    *)
(* that of as many again.  The level is that of the whole group.            *)
PlacedAt(m, place, d, k) ==
  /\ d \in Nat /\ k \in Nat \ {0}
  /\ \/ m = 0 /\ k = 1 /\ place = "init"
     \/ m = 0 /\ k = 1 /\ place \in {"waveRead", "waveWrite"} /\ d \in 1..lockstep - 1 /\ lockstep % d = 0
     \/ m = 0 /\ k = 1 /\ place \in {"barrier", "end"}
     \/ m # 0 /\ k = m /\ place \in {"crossRead", "crossWrite"} /\ d = k * lockstep
     \/ m # 0 /\ k = 2 * m /\ place \in {"barrier", "end"}
  /\ place = "end" <=> Reduce!NumWaves <= k /\ place \in {"barrier", "end"}

(* What thread t then finds at its index (a) and in its register (r): if it *)
(* leads the threads whose results it has.  Who has not led at this level   *)
(* still has, in memory, what others read from it.                          *)
Holds(m, place, t, d, k, a, r) ==
  /\ place = "init" => a = <<t>>
  /\ place \in {"waveRead", "waveWrite"} /\ Leads(t, d) => a = Summed(t, d)
  /\ place = "waveRead" /\ Leads(t, d) => r = Summed(t, d)
  /\ place = "waveWrite" /\ Leads(t, 2 * d) => r = Summed(t, 2 * d)
  /\ place \in {"crossRead", "crossWrite"} /\ LeadsWaves(t, k) => a = Summed(t, k * lockstep)
  /\ place = "crossRead" /\ LeadsWaves(t, k) => r = Summed(t, k * lockstep)
  /\ place = "crossWrite" /\ LeadsWaves(t, 2 * k) => r = Summed(t, (2 * k) * lockstep)
  /\ place \in {"barrier", "end"} /\ LeadsWaves(t, k) =>
       a = Summed(t, k * lockstep) /\ r = Summed(t, k * lockstep)
  /\ place \in {"barrier", "end"} /\ m # 0 /\ LeadsWaves(t, m) /\ ~ LeadsWaves(t, 2 * m) =>
       a = Summed(t, m * lockstep)

(* The threads of a wave agree on the distance.                             *)
Agree == \A s, t \in Reduce!Thread : Reduce!WaveId(s) = Reduce!WaveId(t) => offset[s] = offset[t]

AtLevel(m) ==
  /\ m \in Nat /\ Device /\ Agree
  /\ \A t \in Reduce!Thread : PlacedAt(m, pc[t], offset[t], skipWaves[t])
  /\ \A t \in Reduce!Thread : t < width =>
       Holds(m, pc[t], t, offset[t], skipWaves[t], acc[t], reduceAcc[t])

ReduceInv == \E m \in Nat : AtLevel(m)

-----------------------------------------------------------------------------
(* Quotients and remainders by the lockstep width.                          *)
LEMMA MultipleHasNoRest ==
  ASSUME NEW y \in Nat \ {0}, NEW q \in Nat, NEW x \in Nat, x = y * q
  PROVE  x % y = 0
<1>1. 0 \in 0..y - 1 /\ x = y * q + 0
  OBVIOUS
<1> QED
  BY <1>1, RestUnique

LEMMA Residues ==
  ASSUME NEW x \in Nat, NEW y \in Nat \ {0}
  PROVE  /\ x % (2 * y) = 0 => x % y = 0 /\ (x + y) % y = 0 /\ (x + y) % (2 * y) = y
<1> SUFFICES ASSUME x % (2 * y) = 0
             PROVE  x % y = 0 /\ (x + y) % y = 0 /\ (x + y) % (2 * y) = y
  OBVIOUS
<1> DEFINE q == x \div (2 * y)
<1>1. q \in Nat /\ x = (2 * y) * q
  <2> DEFINE z == 2 * y
  <2>1. z \in Nat \ {0} /\ x % z = 0
    OBVIOUS
  <2> HIDE DEF z
  <2>2. x \div z \in Nat /\ x = z * (x \div z)
    BY <2>1, Division
  <2> QED
    BY <2>2 DEF z
<1> HIDE DEF q
<1>2. x = y * (2 * q) /\ x + y = y * (2 * q + 1) /\ x + y = (2 * y) * q + y
  BY <1>1
<1>3. x % y = 0 /\ (x + y) % y = 0
  <2> DEFINE m == 2 * q
  <2>1. m \in Nat /\ x = y * m /\ x + y = y * (m + 1)
    BY <1>1, <1>2
  <2> HIDE DEF m
  <2> QED
    BY <2>1, MultipleHasNoRest
<1>4. (x + y) % (2 * y) = y
  <2> DEFINE z == 2 * y
  <2>1. z \in Nat \ {0} /\ y \in 0..z - 1 /\ x + y = z * q + y
    BY <1>2
  <2> HIDE DEF z
  <2>2. (x + y) % z = y
    BY <1>1, <2>1, RestUnique
  <2> QED
    BY <2>2 DEF z
<1> QED
  BY <1>3, <1>4

LEMMA InWaveIds ==
  ASSUME Device, NEW t \in Nat
  PROVE  /\ Reduce!WaveId(t) \in Nat /\ Reduce!InWaveId(t) \in 0..lockstep - 1
         /\ t = lockstep * Reduce!WaveId(t) + Reduce!InWaveId(t)
<1>1. t \div lockstep \in Nat /\ t % lockstep \in 0..lockstep - 1
      /\ t = lockstep * (t \div lockstep) + (t % lockstep)
  BY Division DEF Device
<1>2. (t \div lockstep) * lockstep = lockstep * (t \div lockstep)
  BY <1>1 DEF Device
<1> QED
  BY <1>1, <1>2 DEF Reduce!WaveId, Reduce!InWaveId, Device

(* The ids of an index, from where it lies.                                 *)
LEMMA IdsOf ==
  ASSUME Device, NEW q \in Nat, NEW i \in 0..lockstep - 1, NEW t \in Nat, t = lockstep * q + i
  PROVE  Reduce!WaveId(t) = q /\ Reduce!InWaveId(t) = i
<1>1. Reduce!WaveId(t) = q
  BY DivisionUnique DEF Device, Reduce!WaveId
<1>2. q * lockstep = lockstep * q
  BY DEF Device
<1> QED
  BY <1>1, <1>2 DEF Reduce!InWaveId, Device

(* A thread that combines within its wave has the partner in its wave, who  *)
(* leads as many threads as it does.                                        *)
LEMMA Partner ==
  ASSUME Device, NEW t \in Nat, NEW d \in 1..lockstep - 1, lockstep % d = 0, Leads(t, 2 * d)
  PROVE  /\ Leads(t, d) /\ Leads(t + d, d) /\ Reduce!WaveId(t + d) = Reduce!WaveId(t)
         /\ lockstep % (2 * d) = 0 /\ 2 * d <= lockstep
<1> DEFINE i == Reduce!InWaveId(t)
           q == Reduce!WaveId(t)
<1>1. i \in 0..lockstep - 1 /\ q \in Nat /\ t = lockstep * q + i
  BY InWaveIds
<1>2. lockstep % (2 * d) = 0
  <2>1. d \in 1..lockstep /\ d # lockstep
    BY DEF Device
  <2> QED
    BY <2>1 DEF Device, Doubles
<1>3. i % (2 * d) = 0
  BY DEF Leads
<1> HIDE DEF i, q
<1>4. i % d = 0 /\ (i + d) % d = 0
  BY <1>1, <1>3, Residues
<1>5. 2 * d <= lockstep /\ i + d <= lockstep - 1
  <2> DEFINE e == 2 * d
             x == lockstep \div e
             y == i \div e
  <2>1. e \in Nat \ {0} /\ lockstep \in Nat \ {0} /\ i \in Nat
    BY <1>1 DEF Device
  <2>2. x \in Nat /\ y \in Nat /\ lockstep = e * x /\ i = e * y
    <3>1. lockstep % e = 0 /\ i % e = 0
      BY <1>2, <1>3
    <3> HIDE DEF e
    <3>2. lockstep = e * x + 0 /\ i = e * y + 0 /\ x \in Nat /\ y \in Nat
      BY <2>1, <3>1, Division
    <3> HIDE DEF x, y
    <3> QED
      BY <2>1, <3>2
  <2> HIDE DEF e, x, y
  <2>3. x # 0
    BY <2>1, <2>2
  <2>4. y + 1 <= x
    <3> SUFFICES ASSUME x <= y PROVE FALSE
      BY <2>2
    <3>1. e * x <= e * y
      BY <2>1, <2>2, ProductMonotonic
    <3> QED
      BY <1>1, <2>1, <2>2, <3>1
  <2>5. e * (y + 1) <= e * x /\ e * 1 <= e * x /\ e * (y + 1) = e * y + e
    BY <2>1, <2>2, <2>3, <2>4, ProductMonotonic, Products
  <2>6. i + e <= lockstep /\ e <= lockstep
    BY <2>1, <2>2, <2>5
  <2> QED
    BY <2>6, <1>1 DEF e, Device
<1>6. Reduce!WaveId(t + d) = q /\ Reduce!InWaveId(t + d) = i + d
  <2>1. i + d \in 0..lockstep - 1 /\ t + d \in Nat /\ t + d = lockstep * q + (i + d)
    BY <1>1, <1>5 DEF Device
  <2> QED
    BY <2>1, <1>1, IdsOf
<1> QED
  BY <1>2, <1>4, <1>5, <1>6 DEF i, q, Leads

(* So has one that combines across waves: the partner's wave does not       *)
(* combine at this level.                                                   *)
LEMMA PartnerWave ==
  ASSUME Device, NEW t \in Nat, NEW k \in Nat \ {0}, LeadsWaves(t, 2 * k)
  PROVE  /\ LeadsWaves(t, k) /\ t + k * lockstep \in Nat
         /\ LeadsWaves(t + k * lockstep, k) /\ ~ LeadsWaves(t + k * lockstep, 2 * k)
<1> DEFINE q == Reduce!WaveId(t)
           u == t + k * lockstep
<1>1. q \in Nat /\ t = lockstep * q + 0 /\ q % (2 * k) = 0
  BY InWaveIds DEF LeadsWaves
<1>2. u \in Nat /\ u = lockstep * (q + k) + 0
  <2>1. k * lockstep \in Nat /\ lockstep * (q + k) = lockstep * q + k * lockstep
    BY <1>1 DEF Device
  <2> QED
    BY <1>1, <2>1 DEF Device
<1> HIDE DEF q, u
<1>3. q % k = 0 /\ (q + k) % k = 0 /\ (q + k) % (2 * k) # 0
  BY <1>1, Residues
<1>4. Reduce!WaveId(u) = q + k /\ Reduce!InWaveId(u) = 0
  BY <1>1, <1>2, IdsOf DEF Device
<1> QED
  BY <1>1, <1>2, <1>3, <1>4 DEF q, u, LeadsWaves

(* What two partners have together; without a partner it is all there is.   *)
LEMMA Combine ==
  ASSUME NEW t \in Nat, NEW d \in Nat \ {0}, width \in Nat, t < width
  PROVE  /\ t + d < width => Summed(t, d) \o Summed(t + d, d) = Summed(t, 2 * d)
         /\ ~ (t + d < width) => Summed(t, d) = Summed(t, 2 * d)
<1>1. ASSUME t + d < width PROVE Summed(t, d) \o Summed(t + d, d) = Summed(t, 2 * d)
  <2> DEFINE b == t + d
             c == (IF b + d < width THEN b + d ELSE width) - 1
  <2>1. t \in Int /\ b \in Int /\ c \in Int /\ t <= b /\ b - 1 <= c /\ b + d = t + 2 * d
    BY <1>1
  <2>2. Summed(t, d) = Elements(t, b - 1) /\ Summed(b, d) = Elements(b, c)
    BY <1>1 DEF Summed
  <2>3. Summed(t, 2 * d) = Elements(t, c)
    BY <2>1 DEF Summed
  <2> HIDE DEF b, c
  <2>4. Elements(t, b - 1) \o Elements(b, c) = Elements(t, c)
    BY <2>1, ElementsConcat
  <2>5. Summed(t, d) \o Summed(b, d) = Summed(t, 2 * d)
    BY <2>2, <2>3, <2>4
  <2> QED
    BY <2>5 DEF b
<1>2. ASSUME ~ (t + d < width) PROVE Summed(t, d) = Summed(t, 2 * d)
  BY <1>2 DEF Summed
<1> QED
  BY <1>1, <1>2

-----------------------------------------------------------------------------
(* A step of a wave that leaves the other waves, and their indices, alone.  *)
LEMMA WaveMoves ==
  ASSUME NEW m, AtLevel(m), NEW w, lockstep' = lockstep, width' = width,
         \A t \in Reduce!Thread \ Reduce!Wave(w) :
           /\ pc'[t] = pc[t] /\ offset'[t] = offset[t] /\ skipWaves'[t] = skipWaves[t]
           /\ acc'[t] = acc[t] /\ reduceAcc'[t] = reduceAcc[t],
         \A s, t \in Reduce!Wave(w) : offset'[s] = offset'[t],
         \A t \in Reduce!Wave(w) : PlacedAt(m, pc'[t], offset'[t], skipWaves'[t]),
         \A t \in Reduce!Wave(w) : t < width =>
           Holds(m, pc'[t], t, offset'[t], skipWaves'[t], acc'[t], reduceAcc'[t])
  PROVE  AtLevel(m)'
<1>1. m \in Nat /\ Device'
  BY DEF AtLevel, Device, Doubles
<1>2. Agree'
  <2> SUFFICES ASSUME NEW s \in Reduce!Thread, NEW t \in Reduce!Thread,
                      Reduce!WaveId(s) = Reduce!WaveId(t)
               PROVE  offset'[s] = offset'[t]
    BY DEF Agree, Reduce!WaveId, Reduce!Thread
  <2>1. s \in Reduce!Wave(w) <=> t \in Reduce!Wave(w)
    BY DEF Reduce!Wave
  <2>2. offset[s] = offset[t]
    BY DEF AtLevel, Agree
  <2> QED
    BY <2>1, <2>2
<1>3. ASSUME NEW t \in Reduce!Thread PROVE PlacedAt(m, pc[t], offset[t], skipWaves[t])'
  <2>1. PlacedAt(m, pc'[t], offset'[t], skipWaves'[t])
    <3>1. CASE t \in Reduce!Wave(w)
      BY <3>1
    <3>2. CASE t \notin Reduce!Wave(w)
      BY <3>2 DEF AtLevel
    <3> QED
      BY <3>1, <3>2
  <2> QED
    BY <2>1 DEF PlacedAt, Reduce!NumWaves
<1>4. ASSUME NEW t \in Reduce!Thread, t < width
      PROVE  Holds(m, pc[t], t, offset[t], skipWaves[t], acc[t], reduceAcc[t])'
  <2>1. Holds(m, pc'[t], t, offset'[t], skipWaves'[t], acc'[t], reduceAcc'[t])
    <3>1. CASE t \in Reduce!Wave(w)
      BY <1>4, <3>1
    <3>2. CASE t \notin Reduce!Wave(w)
      BY <1>4, <3>2 DEF AtLevel
    <3> QED
      BY <3>1, <3>2
  <2> QED
    BY <2>1 DEF Holds, Leads, LeadsWaves, Summed, Reduce!WaveId, Reduce!InWaveId
<1> QED
  BY <1>1, <1>2, <1>3, <1>4 DEF AtLevel, Reduce!Thread

(* What is known of a thread of a wave.                                     *)
LEMMA OfWave ==
  ASSUME NEW m, AtLevel(m), NEW w, NEW t \in Reduce!Wave(w)
  PROVE  /\ t \in Reduce!Thread /\ t \in Nat /\ t < ReduceGroupSize /\ Reduce!WaveId(t) = w
         /\ PlacedAt(m, pc[t], offset[t], skipWaves[t])
         /\ t < width => Holds(m, pc[t], t, offset[t], skipWaves[t], acc[t], reduceAcc[t])
         /\ \A s \in Reduce!Wave(w) : offset[s] = offset[t]
<1>1. t \in Reduce!Thread /\ Reduce!WaveId(t) = w
  BY DEF Reduce!Wave
<1>2. \A s \in Reduce!Wave(w) : offset[s] = offset[t]
  BY <1>1 DEF AtLevel, Agree, Reduce!Wave
<1>3. t \in Nat /\ t < ReduceGroupSize
  BY <1>1, ReduceAssumption DEF Reduce!Thread, Reduce!LaunchOK
<1> QED
  BY <1>1, <1>2, <1>3 DEF AtLevel

(* The width of the wave, and one thread, as distances: those that lead.    *)
LEMMA WholeWave ==
  ASSUME Device, NEW t \in Nat
  PROVE  /\ Leads(t, lockstep) <=> LeadsWaves(t, 1)
         /\ t < width => Summed(t, 1) = <<t>>
<1>1. Reduce!InWaveId(t) \in 0..lockstep - 1 /\ Reduce!WaveId(t) \in Nat
  BY InWaveIds
<1>2. Reduce!WaveId(t) % 1 = 0
  BY <1>1
<1>3. Reduce!InWaveId(t) % lockstep = 0 <=> Reduce!InWaveId(t) = 0
  BY <1>1 DEF Device
<1>4. ASSUME t < width PROVE Summed(t, 1) = <<t>>
  <2>1. (IF t + 1 < width THEN t + 1 ELSE width) - 1 = t
    BY <1>4 DEF Device
  <2> QED
    BY <2>1, ElementsOne DEF Summed
<1> QED
  BY <1>2, <1>3, <1>4 DEF Leads, LeadsWaves

LEMMA WavesOfGroup == Device => Reduce!NumWaves \in Nat /\ ReduceGroupSize <= Reduce!NumWaves * lockstep
<1> SUFFICES ASSUME Device PROVE Reduce!NumWaves \in Nat /\ ReduceGroupSize <= Reduce!NumWaves * lockstep
  OBVIOUS
<1> DEFINE x == ReduceGroupSize + lockstep - 1
<1>1. x \in Nat /\ lockstep \in Nat \ {0} /\ ReduceGroupSize \in Nat
  BY ReduceAssumption DEF Device, Reduce!LaunchOK
<1>2. Reduce!NumWaves = x \div lockstep
  BY DEF Reduce!NumWaves
<1> HIDE DEF x
<1>3. x \div lockstep \in Nat /\ x < lockstep * (x \div lockstep) + lockstep
  BY <1>1, Division
<1> DEFINE n == x \div lockstep
<1>4. n \in Nat /\ n * lockstep = lockstep * n /\ n * lockstep \in Nat
  BY <1>1, <1>3
<1> HIDE DEF n
<1>5. x < n * lockstep + lockstep
  BY <1>3, <1>4 DEF n
<1>6. ReduceGroupSize <= n * lockstep
  BY <1>1, <1>4, <1>5 DEF x
<1> QED
  BY <1>2, <1>4, <1>6 DEF n

(* Where a thread goes after a level, and after its wave is reduced.        *)
LEMMA NextLevel ==
  ASSUME Device, NEW k \in Nat
  PROVE  \/ Reduce!AfterLevel(k) = "barrier" /\ ~ (Reduce!NumWaves <= k)
         \/ Reduce!AfterLevel(k) = "end" /\ Reduce!NumWaves <= k
BY WavesOfGroup DEF Reduce!AfterLevel

LEMMA SetInitParamsKeeps ==
  ASSUME NEW m, AtLevel(m), NEW w, Reduce!SetInitParams(Reduce!Wave(w))
  PROVE  AtLevel(m)'
<1> DEFINE T == Reduce!Wave(w)
           next == Reduce!AfterInWave(1)
<1>1. Device /\ lockstep' = lockstep /\ width' = width
  BY DEF AtLevel, Reduce!SetInitParams, Reduce!device
<1>2. \A t \in Reduce!Thread :
        /\ acc'[t] = acc[t] /\ skipWaves'[t] = skipWaves[t]
        /\ pc'[t] = IF t \in T THEN next ELSE pc[t]
        /\ offset'[t] = IF t \in T THEN 1 ELSE offset[t]
        /\ reduceAcc'[t] = IF t \in T /\ t < width THEN acc[t] ELSE reduceAcc[t]
  BY DEF Reduce!SetInitParams, Reduce!Goto
<1>3. \/ 1 < lockstep /\ next = "waveRead"
      \/ lockstep = 1 /\ next = "barrier" /\ ~ (Reduce!NumWaves <= 1)
      \/ lockstep = 1 /\ next = "end" /\ Reduce!NumWaves <= 1
  BY <1>1, NextLevel DEF Device, Reduce!AfterInWave
<1> HIDE DEF next
<1>4. ASSUME NEW t \in T PROVE PlacedAt(m, pc'[t], offset'[t], skipWaves'[t])
  <2>1. t \in Reduce!Thread /\ PlacedAt(m, "init", offset[t], skipWaves[t])
    BY OfWave DEF Reduce!SetInitParams, Reduce!At
  <2>2. m = 0 /\ skipWaves[t] = 1
    BY <2>1 DEF PlacedAt
  <2>3. pc'[t] = next /\ offset'[t] = 1 /\ skipWaves'[t] = 1
    BY <1>2, <2>1, <2>2
  <2>4. PlacedAt(0, next, 1, 1)
    BY <1>1, <1>3 DEF PlacedAt, Device
  <2> QED
    BY <2>2, <2>3, <2>4
<1>5. ASSUME NEW t \in T, t < width
      PROVE  Holds(m, pc'[t], t, offset'[t], skipWaves'[t], acc'[t], reduceAcc'[t])
  <2>1. /\ t \in Reduce!Thread /\ t \in Nat /\ PlacedAt(m, "init", offset[t], skipWaves[t])
        /\ Holds(m, "init", t, offset[t], skipWaves[t], acc[t], reduceAcc[t])
    BY <1>5, OfWave DEF Reduce!SetInitParams, Reduce!At
  <2>2. m = 0 /\ skipWaves[t] = 1 /\ acc[t] = <<t>>
    BY <2>1 DEF PlacedAt, Holds
  <2>3. /\ pc'[t] = next /\ offset'[t] = 1 /\ skipWaves'[t] = 1
        /\ acc'[t] = Summed(t, 1) /\ reduceAcc'[t] = Summed(t, 1)
    BY <1>1, <1>2, <1>5, <2>1, <2>2, WholeWave
  <2>4. Holds(0, next, t, 1, 1, Summed(t, 1), Summed(t, 1))
    <3>1. lockstep = 1 => 1 * lockstep = 1
      OBVIOUS
    <3>2. next # "waveWrite" /\ next # "init" /\ next \notin {"crossRead", "crossWrite"}
      BY <1>3
    <3>3. next \in {"barrier", "end"} => 1 * lockstep = 1
      BY <1>3, <3>1
    <3> QED
      BY <3>2, <3>3 DEF Holds
  <2> QED
    BY <2>2, <2>3, <2>4
<1>6. \A t \in Reduce!Thread \ T :
           /\ pc'[t] = pc[t] /\ offset'[t] = offset[t] /\ skipWaves'[t] = skipWaves[t]
           /\ acc'[t] = acc[t] /\ reduceAcc'[t] = reduceAcc[t]
  BY <1>2
<1>7. \A s, t \in T : offset'[s] = offset'[t]
  BY <1>2 DEF Reduce!Wave
<1> QED
  BY <1>1, <1>4, <1>5, <1>6, <1>7, WaveMoves

LEMMA InWaveReadKeeps ==
  ASSUME NEW m, AtLevel(m), NEW w, Reduce!InWaveRead(Reduce!Wave(w))
  PROVE  AtLevel(m)'
<1> DEFINE T == Reduce!Wave(w)
           Combines(t) == t \in T /\ Reduce!InWaveActive(t)
<1>1. Device /\ lockstep' = lockstep /\ width' = width
  BY DEF AtLevel, Reduce!InWaveRead, Reduce!device
<1>2. \A t \in Reduce!Thread :
        /\ acc'[t] = acc[t] /\ skipWaves'[t] = skipWaves[t] /\ offset'[t] = offset[t]
        /\ pc'[t] = IF t \in T THEN "waveWrite" ELSE pc[t]
        /\ reduceAcc'[t] = IF Combines(t) THEN reduceAcc[t] \o acc[t + offset[t]] ELSE reduceAcc[t]
  BY DEF Reduce!InWaveRead, Reduce!Goto, Reduce!ReadAndReduce
<1>3. ASSUME NEW t \in T
      PROVE  /\ t \in Reduce!Thread /\ t \in Nat /\ t < ReduceGroupSize /\ Reduce!WaveId(t) = w
             /\ PlacedAt(m, "waveRead", offset[t], skipWaves[t])
             /\ t < width => Holds(m, "waveRead", t, offset[t], skipWaves[t], acc[t], reduceAcc[t])
             /\ \A s \in T : offset[s] = offset[t]
  BY OfWave DEF Reduce!InWaveRead, Reduce!At
<1>4. ASSUME NEW t \in T PROVE PlacedAt(m, pc'[t], offset'[t], skipWaves'[t])
  BY <1>2, <1>3 DEF PlacedAt
<1>5. ASSUME NEW t \in T, t < width
      PROVE  Holds(m, pc'[t], t, offset'[t], skipWaves'[t], acc'[t], reduceAcc'[t])
  <2> DEFINE d == offset[t]
  <2>1. m = 0 /\ skipWaves[t] = 1 /\ d \in 1..lockstep - 1 /\ lockstep % d = 0
    BY <1>3 DEF PlacedAt
  <2>2. Leads(t, d) => acc[t] = Summed(t, d) /\ reduceAcc[t] = Summed(t, d)
    BY <1>3, <1>5 DEF Holds
  <2>3. /\ pc'[t] = "waveWrite" /\ offset'[t] = d /\ acc'[t] = acc[t]
        /\ reduceAcc'[t] = IF Combines(t) THEN reduceAcc[t] \o acc[t + d] ELSE reduceAcc[t]
    BY <1>2, <1>3
  <2>4. Reduce!InWaveActive(t) <=> t + d < width /\ Leads(t, 2 * d)
    BY DEF Reduce!InWaveActive, Reduce!ArgInBounds, Reduce!MultipleOfTwice, Leads
  <2>5. ASSUME Leads(t, 2 * d), t + d < width PROVE acc[t + d] = Summed(t + d, d)
    <3>1. Leads(t + d, d) /\ Reduce!WaveId(t + d) = w /\ t + d \in Nat
      BY <1>1, <1>3, <2>1, <2>5, Partner
    <3>2. t + d \in T
      BY <1>1, <2>5, <3>1, ReduceAssumption DEF Device, Reduce!Wave, Reduce!Thread, Reduce!LaunchOK
    <3>3. Holds(m, "waveRead", t + d, offset[t + d], skipWaves[t + d], acc[t + d], reduceAcc[t + d])
          /\ offset[t + d] = d
      BY <1>3, <2>5, <3>2
    <3> QED
      BY <3>1, <3>3 DEF Holds
  <2>6. Leads(t, 2 * d) => reduceAcc'[t] = Summed(t, 2 * d)
    <3> SUFFICES ASSUME Leads(t, 2 * d) PROVE reduceAcc'[t] = Summed(t, 2 * d)
      OBVIOUS
    <3>1. Leads(t, d) /\ d \in Nat \ {0} /\ width \in Nat
      BY <1>1, <1>3, <2>1, Partner DEF Device
    <3>2. /\ t + d < width => Summed(t, d) \o Summed(t + d, d) = Summed(t, 2 * d)
          /\ ~ (t + d < width) => Summed(t, d) = Summed(t, 2 * d)
      BY <1>3, <1>5, <3>1, Combine
    <3> HIDE DEF d
    <3> QED
      BY <2>2, <2>3, <2>4, <2>5, <3>1, <3>2
  <2> HIDE DEF d
  <2>7. Holds(m, "waveWrite", t, d, skipWaves'[t], acc[t], reduceAcc'[t])
    BY <2>2, <2>6 DEF Holds
  <2> QED
    BY <2>3, <2>7
<1>6. \A t \in Reduce!Thread \ T :
           /\ pc'[t] = pc[t] /\ offset'[t] = offset[t] /\ skipWaves'[t] = skipWaves[t]
           /\ acc'[t] = acc[t] /\ reduceAcc'[t] = reduceAcc[t]
  BY <1>2
<1>7. \A s, t \in T : offset'[s] = offset'[t]
  BY <1>2, <1>3
<1> HIDE DEF T
<1> QED
  BY <1>1, <1>4, <1>5, <1>6, <1>7, WaveMoves DEF T

LEMMA InWaveWriteKeeps ==
  ASSUME NEW m, AtLevel(m), NEW w, Reduce!InWaveWrite(Reduce!Wave(w))
  PROVE  AtLevel(m)'
<1> DEFINE T == Reduce!Wave(w)
           Combines(t) == t \in T /\ Reduce!InWaveActive(t)
<1>1. Device /\ lockstep' = lockstep /\ width' = width
  BY DEF AtLevel, Reduce!InWaveWrite, Reduce!device
<1>2. PICK d \in {offset[t] : t \in T} : Reduce!Goto(T, Reduce!AfterInWave(2 * d))
  BY DEF Reduce!InWaveWrite
<1> DEFINE next == Reduce!AfterInWave(2 * d)
<1>3. \A t \in Reduce!Thread :
        /\ reduceAcc'[t] = reduceAcc[t] /\ skipWaves'[t] = skipWaves[t]
        /\ offset'[t] = IF t \in T THEN 2 * offset[t] ELSE offset[t]
        /\ pc'[t] = IF t \in T THEN next ELSE pc[t]
        /\ acc'[t] = IF Combines(t) THEN reduceAcc[t] ELSE acc[t]
  BY <1>2 DEF Reduce!InWaveWrite, Reduce!Goto, Reduce!WriteResult
<1>4. ASSUME NEW t \in T
      PROVE  /\ t \in Reduce!Thread /\ t \in Nat
             /\ PlacedAt(m, "waveWrite", offset[t], skipWaves[t])
             /\ t < width => Holds(m, "waveWrite", t, offset[t], skipWaves[t], acc[t], reduceAcc[t])
             /\ offset[t] = d
  <2>1. PICK s \in T : d = offset[s]
    BY <1>2
  <2> QED
    BY <2>1, OfWave DEF Reduce!InWaveWrite, Reduce!At
<1>5. m = 0 /\ d \in 1..lockstep - 1 /\ lockstep % d = 0 /\ \A t \in T : skipWaves[t] = 1
  <2>1. PICK s \in T : d = offset[s]
    BY <1>2
  <2>2. m = 0 /\ d \in 1..lockstep - 1 /\ lockstep % d = 0
    BY <1>4, <2>1 DEF PlacedAt
  <2> QED
    BY <1>4, <2>2 DEF PlacedAt
<1>6. /\ lockstep % (2 * d) = 0
      /\ \/ 2 * d \in 1..lockstep - 1 /\ next = "waveRead"
         \/ 2 * d = lockstep /\ next = "barrier" /\ ~ (Reduce!NumWaves <= 1)
         \/ 2 * d = lockstep /\ next = "end" /\ Reduce!NumWaves <= 1
  <2>1. lockstep \in Nat \ {0} /\ lockstep % (2 * d) = 0 /\ 2 * d <= lockstep
    <3>1. 0 \in Nat /\ 0 = lockstep * 0 + 0 /\ 0 \in 0..lockstep - 1 /\ 0 % (2 * d) = 0
      BY <1>1, <1>5 DEF Device
    <3>2. Reduce!InWaveId(0) = 0
      BY <1>1, <3>1, IdsOf
    <3>3. Leads(0, 2 * d)
      BY <3>1, <3>2 DEF Leads
    <3> QED
      BY <1>1, <1>5, <3>1, <3>3, Partner DEF Device
  <2>2. CASE 2 * d < lockstep
    BY <1>5, <2>1, <2>2 DEF Reduce!AfterInWave
  <2>3. CASE 2 * d = lockstep
    <3>1. next = Reduce!AfterLevel(1)
      BY <2>1, <2>3 DEF Reduce!AfterInWave
    <3> QED
      BY <1>1, <2>1, <2>3, <3>1, NextLevel
  <2> QED
    BY <1>5, <2>1, <2>2, <2>3
<1> DEFINE e == 2 * d
<1> HIDE DEF next
<1>7. ASSUME NEW t \in T PROVE PlacedAt(m, pc'[t], offset'[t], skipWaves'[t])
  <2>1. pc'[t] = next /\ offset'[t] = e /\ skipWaves'[t] = 1
    BY <1>3, <1>4, <1>5
  <2>2. PlacedAt(0, next, e, 1)
    BY <1>5, <1>6 DEF PlacedAt
  <2> HIDE DEF e
  <2> QED
    BY <1>5, <2>1, <2>2
<1>8. ASSUME NEW t \in T, t < width
      PROVE  Holds(m, pc'[t], t, offset'[t], skipWaves'[t], acc'[t], reduceAcc'[t])
  <2>1. /\ Leads(t, d) => acc[t] = Summed(t, d)
        /\ Leads(t, 2 * d) => reduceAcc[t] = Summed(t, 2 * d)
    BY <1>4, <1>8 DEF Holds
  <2>2. /\ pc'[t] = next /\ offset'[t] = e /\ skipWaves'[t] = 1 /\ reduceAcc'[t] = reduceAcc[t]
        /\ acc'[t] = IF Combines(t) THEN reduceAcc[t] ELSE acc[t]
    BY <1>3, <1>4, <1>5
  <2>3. Reduce!InWaveActive(t) <=> t + d < width /\ Leads(t, 2 * d)
    BY <1>4 DEF Reduce!InWaveActive, Reduce!ArgInBounds, Reduce!MultipleOfTwice, Leads
  <2>4. Leads(t, e) => acc'[t] = Summed(t, e) /\ reduceAcc'[t] = Summed(t, e)
    <3> SUFFICES ASSUME Leads(t, 2 * d)
                 PROVE  acc'[t] = Summed(t, 2 * d) /\ reduceAcc'[t] = Summed(t, 2 * d)
      OBVIOUS
    <3>1. Leads(t, d) /\ d \in Nat \ {0} /\ width \in Nat
      BY <1>1, <1>4, <1>5, Partner DEF Device
    <3>2. ~ (t + d < width) => Summed(t, d) = Summed(t, 2 * d)
      BY <1>4, <1>8, <3>1, Combine
    <3> QED
      BY <2>1, <2>2, <2>3, <3>1, <3>2
  <2>5. e = lockstep => (Leads(t, e) <=> LeadsWaves(t, 1))
    BY <1>1, <1>4, WholeWave
  <2>6. next \in {"barrier", "end"} => e = 1 * lockstep
    BY <1>1, <1>6 DEF Device
  <2>7. next \in {"waveRead", "barrier", "end"}
    BY <1>6
  <2>8. next \in {"barrier", "end"} => e = lockstep
    BY <1>6
  <2> HIDE DEF e
  <2>9. Holds(0, next, t, e, 1, acc'[t], reduceAcc'[t])
    BY <2>4, <2>5, <2>6, <2>7, <2>8 DEF Holds
  <2> QED
    BY <1>5, <2>2, <2>9
<1>9. \A t \in Reduce!Thread \ T :
           /\ pc'[t] = pc[t] /\ offset'[t] = offset[t] /\ skipWaves'[t] = skipWaves[t]
           /\ acc'[t] = acc[t] /\ reduceAcc'[t] = reduceAcc[t]
  BY <1>3
<1>10. \A s, t \in T : offset'[s] = offset'[t]
  BY <1>3, <1>4
<1> HIDE DEF T
<1> QED
  BY <1>1, <1>7, <1>8, <1>9, <1>10, WaveMoves DEF T

(* All waves are through a level when the barrier lets go: the next begins. *)
LEMMA BarrierKeeps ==
  ASSUME NEW m, AtLevel(m), Reduce!Barrier
  PROVE  \E n \in Nat : AtLevel(n)'
<1> DEFINE n == IF m = 0 THEN 1 ELSE 2 * m
<1>1. Device /\ lockstep' = lockstep /\ width' = width /\ m \in Nat /\ n \in Nat /\ n # 0
  BY DEF AtLevel, Reduce!Barrier, Reduce!device
<1>2. ASSUME NEW t \in Reduce!Thread
      PROVE  /\ pc'[t] = "crossRead" /\ offset'[t] = n * lockstep /\ skipWaves'[t] = n
             /\ acc'[t] = acc[t] /\ reduceAcc'[t] = reduceAcc[t]
             /\ PlacedAt(m, "barrier", offset[t], n)
             /\ t < width => Holds(m, "barrier", t, offset[t], n, acc[t], reduceAcc[t])
  <2>1. PlacedAt(m, "barrier", offset[t], skipWaves[t])
        /\ (t < width => Holds(m, "barrier", t, offset[t], skipWaves[t], acc[t], reduceAcc[t]))
    BY DEF AtLevel, Reduce!Barrier, Reduce!At
  <2>2. skipWaves[t] = n
    BY <2>1 DEF PlacedAt
  <2>3. /\ pc'[t] = "crossRead" /\ offset'[t] = skipWaves[t] * lockstep
        /\ skipWaves'[t] = skipWaves[t] /\ acc'[t] = acc[t] /\ reduceAcc'[t] = reduceAcc[t]
    BY DEF Reduce!Barrier, Reduce!Goto
  <2> HIDE DEF n
  <2> QED
    BY <2>1, <2>2, <2>3
<1>3. Device' /\ Agree'
  BY <1>1, <1>2 DEF Device, Doubles, Agree, Reduce!Thread
<1> HIDE DEF n
<1>4. ASSUME NEW t \in Reduce!Thread PROVE PlacedAt(n, pc[t], offset[t], skipWaves[t])'
  <2>1. PlacedAt(n, "crossRead", n * lockstep, n)
    BY <1>1 DEF PlacedAt, Device
  <2> QED
    BY <1>1, <1>2, <2>1 DEF PlacedAt, Reduce!NumWaves
<1>5. ASSUME NEW t \in Reduce!Thread, t < width
      PROVE  Holds(n, pc[t], t, offset[t], skipWaves[t], acc[t], reduceAcc[t])'
  <2>1. Holds(m, "barrier", t, offset[t], n, acc[t], reduceAcc[t])
    BY <1>2, <1>5
  <2>2. Holds(n, "crossRead", t, n * lockstep, n, acc[t], reduceAcc[t])
    BY <2>1 DEF Holds
  <2>3. Holds(n, pc'[t], t, offset'[t], skipWaves'[t], acc'[t], reduceAcc'[t])
    BY <1>2, <2>2
  <2> QED
    BY <1>1, <2>3 DEF Holds, Leads, LeadsWaves, Summed, Reduce!WaveId, Reduce!InWaveId
<1>6. AtLevel(n)'
  BY <1>1, <1>3, <1>4, <1>5 DEF AtLevel, Reduce!Thread
<1> QED
  BY <1>1, <1>6

(* What a wave reads is from one that does not combine at this level,       *)
(* whether that is ahead or behind.                                         *)
LEMMA NotCombined ==
  ASSUME NEW m, AtLevel(m), m # 0, NEW t \in Reduce!Thread, t < width,
         LeadsWaves(t, m), ~ LeadsWaves(t, 2 * m)
  PROVE  acc[t] = Summed(t, m * lockstep)
<1>1. /\ PlacedAt(m, pc[t], offset[t], skipWaves[t])
      /\ Holds(m, pc[t], t, offset[t], skipWaves[t], acc[t], reduceAcc[t])
  BY DEF AtLevel
<1>2. CASE pc[t] \in {"crossRead", "crossWrite"}
  <2>1. skipWaves[t] = m
    BY <1>1, <1>2 DEF PlacedAt
  <2> QED
    BY <1>1, <1>2, <2>1 DEF Holds
<1>3. CASE pc[t] \in {"barrier", "end"}
  BY <1>1, <1>3 DEF Holds
<1> QED
  BY <1>1, <1>2, <1>3 DEF PlacedAt

LEMMA CrossWaveReadKeeps ==
  ASSUME NEW m, AtLevel(m), NEW w, Reduce!CrossWaveRead(Reduce!Wave(w))
  PROVE  AtLevel(m)'
<1> DEFINE T == Reduce!Wave(w)
           Combines(t) == t \in T /\ Reduce!CrossWaveActive(t)
<1>1. Device /\ lockstep' = lockstep /\ width' = width /\ m \in Nat
  BY DEF AtLevel, Reduce!CrossWaveRead, Reduce!device
<1>2. \A t \in Reduce!Thread :
        /\ acc'[t] = acc[t] /\ skipWaves'[t] = skipWaves[t] /\ offset'[t] = offset[t]
        /\ pc'[t] = IF t \in T THEN "crossWrite" ELSE pc[t]
        /\ reduceAcc'[t] = IF Combines(t) THEN reduceAcc[t] \o acc[t + offset[t]] ELSE reduceAcc[t]
  BY DEF Reduce!CrossWaveRead, Reduce!Goto, Reduce!ReadAndReduce
<1>3. ASSUME NEW t \in T
      PROVE  /\ t \in Reduce!Thread /\ t \in Nat
             /\ PlacedAt(m, "crossRead", offset[t], skipWaves[t])
             /\ t < width => Holds(m, "crossRead", t, offset[t], skipWaves[t], acc[t], reduceAcc[t])
             /\ \A s \in T : offset[s] = offset[t]
  BY OfWave DEF Reduce!CrossWaveRead, Reduce!At
<1>4. ASSUME NEW t \in T PROVE PlacedAt(m, pc'[t], offset'[t], skipWaves'[t])
  BY <1>2, <1>3 DEF PlacedAt
<1>5. ASSUME NEW t \in T, t < width
      PROVE  Holds(m, pc'[t], t, offset'[t], skipWaves'[t], acc'[t], reduceAcc'[t])
  <2> DEFINE d == m * lockstep
  <2>1. m # 0 /\ skipWaves[t] = m /\ offset[t] = d /\ d \in Nat \ {0}
    <3>1. m # 0 /\ skipWaves[t] = m /\ offset[t] = skipWaves[t] * lockstep
      BY <1>3 DEF PlacedAt
    <3> QED
      BY <1>1, <3>1 DEF Device
  <2>2. LeadsWaves(t, m) => acc[t] = Summed(t, d) /\ reduceAcc[t] = Summed(t, d)
    BY <1>3, <1>5, <2>1 DEF Holds
  <2>3. /\ pc'[t] = "crossWrite" /\ offset'[t] = d /\ skipWaves'[t] = m /\ acc'[t] = acc[t]
        /\ reduceAcc'[t] = IF Combines(t) THEN reduceAcc[t] \o acc[t + d] ELSE reduceAcc[t]
    BY <1>2, <1>3, <2>1
  <2>4. Reduce!CrossWaveActive(t) <=> t + d < width /\ LeadsWaves(t, 2 * m)
    BY <2>1 DEF Reduce!CrossWaveActive, Reduce!ArgInBounds, Reduce!MultipleOfTwice, LeadsWaves
  <2>5. ASSUME LeadsWaves(t, 2 * m), t + d < width PROVE acc[t + d] = Summed(t + d, d)
    <3>1. t + d \in Nat /\ LeadsWaves(t + d, m) /\ ~ LeadsWaves(t + d, 2 * m)
      BY <1>1, <1>3, <2>1, <2>5, PartnerWave
    <3>2. t + d \in Reduce!Thread
      BY <1>1, <2>5, <3>1, ReduceAssumption DEF Device, Reduce!Thread, Reduce!LaunchOK
    <3> DEFINE u == t + d
    <3> HIDE DEF u
    <3>3. u \in Reduce!Thread /\ u < width /\ LeadsWaves(u, m) /\ ~ LeadsWaves(u, 2 * m)
      BY <2>5, <3>1, <3>2 DEF u
    <3>4. acc[u] = Summed(u, d)
      BY <2>1, <3>3, NotCombined
    <3> QED
      BY <3>4 DEF u
  <2>6. LeadsWaves(t, 2 * m) => reduceAcc'[t] = Summed(t, 2 * d)
    <3> SUFFICES ASSUME LeadsWaves(t, 2 * m) PROVE reduceAcc'[t] = Summed(t, 2 * d)
      OBVIOUS
    <3>1. LeadsWaves(t, m) /\ width \in Nat
      BY <1>1, <1>3, <2>1, PartnerWave DEF Device
    <3> HIDE DEF d
    <3>2. /\ t + d < width => Summed(t, d) \o Summed(t + d, d) = Summed(t, 2 * d)
          /\ ~ (t + d < width) => Summed(t, d) = Summed(t, 2 * d)
      BY <1>3, <1>5, <2>1, <3>1, Combine
    <3> QED
      BY <2>2, <2>3, <2>4, <2>5, <3>1, <3>2
  <2>7. 2 * d = (2 * m) * lockstep
    BY <1>1 DEF Device
  <2>8. Holds(m, "crossWrite", t, d, m, acc[t], reduceAcc'[t])
    BY <2>2, <2>6, <2>7 DEF Holds
  <2> HIDE DEF d
  <2> QED
    BY <2>3, <2>8
<1>6. \A t \in Reduce!Thread \ T :
           /\ pc'[t] = pc[t] /\ offset'[t] = offset[t] /\ skipWaves'[t] = skipWaves[t]
           /\ acc'[t] = acc[t] /\ reduceAcc'[t] = reduceAcc[t]
  BY <1>2
<1>7. \A s, t \in T : offset'[s] = offset'[t]
  BY <1>2, <1>3
<1> HIDE DEF T
<1> QED
  BY <1>1, <1>4, <1>5, <1>6, <1>7, WaveMoves DEF T

LEMMA CrossWaveWriteKeeps ==
  ASSUME NEW m, AtLevel(m), NEW w, Reduce!CrossWaveWrite(Reduce!Wave(w))
  PROVE  AtLevel(m)'
<1> DEFINE T == Reduce!Wave(w)
           Combines(t) == t \in T /\ Reduce!CrossWaveActive(t)
<1>1. Device /\ lockstep' = lockstep /\ width' = width /\ m \in Nat
  BY DEF AtLevel, Reduce!CrossWaveWrite, Reduce!device
<1>2. PICK k \in {skipWaves[t] : t \in T} : Reduce!Goto(T, Reduce!AfterLevel(2 * k))
  BY DEF Reduce!CrossWaveWrite
<1> DEFINE next == Reduce!AfterLevel(2 * k)
<1>3. \A t \in Reduce!Thread :
        /\ reduceAcc'[t] = reduceAcc[t] /\ offset'[t] = offset[t]
        /\ skipWaves'[t] = IF t \in T THEN 2 * skipWaves[t] ELSE skipWaves[t]
        /\ pc'[t] = IF t \in T THEN next ELSE pc[t]
        /\ acc'[t] = IF Combines(t) THEN reduceAcc[t] ELSE acc[t]
  BY <1>2 DEF Reduce!CrossWaveWrite, Reduce!Goto, Reduce!WriteResult
<1>4. ASSUME NEW t \in T
      PROVE  /\ t \in Reduce!Thread /\ t \in Nat
             /\ PlacedAt(m, "crossWrite", offset[t], skipWaves[t])
             /\ t < width => Holds(m, "crossWrite", t, offset[t], skipWaves[t], acc[t], reduceAcc[t])
             /\ \A s \in T : offset[s] = offset[t]
  BY OfWave DEF Reduce!CrossWaveWrite, Reduce!At
<1> DEFINE d == m * lockstep
<1>5. m # 0 /\ k = m /\ \A t \in T : skipWaves[t] = m /\ offset[t] = d
  <2>1. \A t \in T : m # 0 /\ skipWaves[t] = m /\ offset[t] = d
    BY <1>4 DEF PlacedAt
  <2> QED
    BY <1>2, <2>1
<1>6. d \in Nat \ {0} /\ 2 * d = (2 * m) * lockstep
  BY <1>1, <1>5 DEF Device
<1>7. \/ next = "barrier" /\ ~ (Reduce!NumWaves <= 2 * m)
      \/ next = "end" /\ Reduce!NumWaves <= 2 * m
  BY <1>1, <1>5, NextLevel
<1> HIDE DEF next
<1>8. ASSUME NEW t \in T PROVE PlacedAt(m, pc'[t], offset'[t], skipWaves'[t])
  <2>1. pc'[t] = next /\ offset'[t] = d /\ skipWaves'[t] = 2 * m
    BY <1>3, <1>4, <1>5
  <2>2. PlacedAt(m, next, d, 2 * m)
    BY <1>1, <1>5, <1>6, <1>7 DEF PlacedAt
  <2> HIDE DEF d
  <2> QED
    BY <2>1, <2>2
<1>9. ASSUME NEW t \in T, t < width
      PROVE  Holds(m, pc'[t], t, offset'[t], skipWaves'[t], acc'[t], reduceAcc'[t])
  <2>1. /\ LeadsWaves(t, m) => acc[t] = Summed(t, d)
        /\ LeadsWaves(t, 2 * m) => reduceAcc[t] = Summed(t, 2 * d)
    BY <1>4, <1>5, <1>6, <1>9 DEF Holds
  <2>2. /\ pc'[t] = next /\ offset'[t] = d /\ skipWaves'[t] = 2 * m /\ reduceAcc'[t] = reduceAcc[t]
        /\ acc'[t] = IF Combines(t) THEN reduceAcc[t] ELSE acc[t]
    BY <1>3, <1>4, <1>5
  <2>3. Reduce!CrossWaveActive(t) <=> t + d < width /\ LeadsWaves(t, 2 * m)
    BY <1>4, <1>5
       DEF Reduce!CrossWaveActive, Reduce!ArgInBounds, Reduce!MultipleOfTwice, LeadsWaves
  <2> HIDE DEF d
  <2>4. LeadsWaves(t, 2 * m) => acc'[t] = Summed(t, 2 * d) /\ reduceAcc'[t] = Summed(t, 2 * d)
    <3> SUFFICES ASSUME LeadsWaves(t, 2 * m)
                 PROVE  acc'[t] = Summed(t, 2 * d) /\ reduceAcc'[t] = Summed(t, 2 * d)
      OBVIOUS
    <3>1. LeadsWaves(t, m) /\ width \in Nat
      BY <1>1, <1>4, <1>5, PartnerWave DEF Device
    <3>2. ~ (t + d < width) => Summed(t, d) = Summed(t, 2 * d)
      BY <1>4, <1>6, <1>9, <3>1, Combine
    <3> QED
      BY <2>1, <2>2, <2>3, <3>1, <3>2
  <2>5. ~ LeadsWaves(t, 2 * m) => acc'[t] = acc[t]
    BY <2>2, <2>3
  <2>6. Holds(m, next, t, d, 2 * m, acc'[t], reduceAcc'[t])
    BY <1>6, <1>7, <2>1, <2>4, <2>5 DEF Holds, d
  <2> QED
    BY <2>2, <2>6
<1>10. \A t \in Reduce!Thread \ T :
           /\ pc'[t] = pc[t] /\ offset'[t] = offset[t] /\ skipWaves'[t] = skipWaves[t]
           /\ acc'[t] = acc[t] /\ reduceAcc'[t] = reduceAcc[t]
  BY <1>3
<1>11. \A s, t \in T : offset'[s] = offset'[t]
  BY <1>3, <1>4
<1> HIDE DEF T
<1> QED
  BY <1>1, <1>8, <1>9, <1>10, <1>11, WaveMoves DEF T

-----------------------------------------------------------------------------
(* The invariant of a reduction.                                            *)
LEMMA PowersDouble ==
  ASSUME NEW k \in 0..10
  PROVE  2^k \in Nat \ {0} /\ Doubles(2^k)
<1>1. 2^0 = 1
  OBVIOUS
<1>2. 2^1 = 2
  OBVIOUS
<1>3. 2^2 = 4
  OBVIOUS
<1>4. 2^3 = 8
  OBVIOUS
<1>5. 2^4 = 16
  OBVIOUS
<1>6. 2^5 = 32
  OBVIOUS
<1>7. 2^6 = 64
  OBVIOUS
<1>8. 2^7 = 128
  OBVIOUS
<1>9. 2^8 = 256
  OBVIOUS
<1>10. 2^9 = 512
  OBVIOUS
<1>11. 2^10 = 1024
  OBVIOUS
<1> DEFINE p(x) == 2^x
           all == {1, 2, 4, 8, 16, 32, 64, 128, 256, 512, 1024}
<1>12. /\ p(0) \in all /\ p(1) \in all /\ p(2) \in all /\ p(3) \in all /\ p(4) \in all
       /\ p(5) \in all /\ p(6) \in all /\ p(7) \in all /\ p(8) \in all /\ p(9) \in all
       /\ p(10) \in all
  BY <1>1, <1>2, <1>3, <1>4, <1>5, <1>6, <1>7, <1>8, <1>9, <1>10, <1>11
<1> HIDE DEF p, all
<1>13. p(k) \in all
  <2>1. k \in {0, 1, 2, 3, 4, 5, 6, 7, 8, 9, 10}
    OBVIOUS
  <2> QED
    BY <1>12, <2>1
<1> DEFINE n == 2^k
<1> HIDE DEF n
<1>14. n \in {1, 2, 4, 8, 16, 32, 64, 128, 256, 512, 1024} => n \in Nat \ {0} /\ Doubles(n)
  BY DEF Doubles
<1> QED
  BY <1>13, <1>14 DEF n, p, all

LEMMA InitReduce == Reduce!Init => ReduceInv
<1> SUFFICES ASSUME Reduce!Init PROVE AtLevel(0)
  BY DEF ReduceInv
<1>1. Device
  <2>1. PICK k \in 0..10 : lockstep = 2^k
    BY ReduceAssumption DEF Reduce!Init, Reduce!LaunchOK
  <2>2. lockstep \in Nat \ {0} /\ Doubles(lockstep)
    BY <2>1, PowersDouble
  <2>3. width \in 0..ReduceGroupSize /\ ReduceGroupSize \in Nat
    BY ReduceAssumption DEF Reduce!Init, Reduce!LaunchOK
  <2> QED
    BY <2>2, <2>3 DEF Device
<1>2. \A t \in Reduce!Thread :
        /\ pc[t] = "init" /\ offset[t] = 0 /\ skipWaves[t] = 1
        /\ t < width => acc[t] = <<t>>
  BY DEF Reduce!Init
<1>3. Agree
  BY <1>2 DEF Agree
<1>4. ASSUME NEW t \in Reduce!Thread PROVE PlacedAt(0, "init", 0, 1)
  BY DEF PlacedAt
<1>5. ASSUME NEW t \in Reduce!Thread PROVE Holds(0, "init", t, 0, 1, <<t>>, reduceAcc[t])
  BY DEF Holds
<1> QED
  BY <1>1, <1>2, <1>3, <1>4, <1>5 DEF AtLevel

LEMMA NextReduce == ReduceInv /\ [Reduce!Next]_Reduce!vars => ReduceInv'
<1> SUFFICES ASSUME NEW m \in Nat, AtLevel(m), [Reduce!Next]_Reduce!vars
             PROVE  \E n \in Nat : AtLevel(n)'
  BY DEF ReduceInv
<1>1. ASSUME NEW w \in 0..Reduce!NumWaves - 1, Reduce!WaveStep(Reduce!Wave(w))
      PROVE  AtLevel(m)'
  BY <1>1, SetInitParamsKeeps, InWaveReadKeeps, InWaveWriteKeeps, CrossWaveReadKeeps,
     CrossWaveWriteKeeps DEF Reduce!WaveStep
<1>2. CASE Reduce!Barrier
  BY <1>2, BarrierKeeps
<1>3. CASE UNCHANGED Reduce!vars
  <2>1. AtLevel(m)'
    BY <1>3 DEF Reduce!vars, AtLevel, Device, Doubles, Agree, PlacedAt, Holds, Leads, LeadsWaves,
                Summed, Reduce!NumWaves, Reduce!WaveId, Reduce!InWaveId, Reduce!Thread
  <2> QED
    BY <2>1
<1> QED
  BY <1>1, <1>2, <1>3 DEF Reduce!Next

(* The first thread leads all waves in the end.                             *)
LEMMA ReduceInvTotal == 0 \notin ReduceWidths /\ width \in ReduceWidths /\ ReduceInv => Reduce!FirstHasTotal
<1> SUFFICES ASSUME 0 \notin ReduceWidths, width \in ReduceWidths, NEW m \in Nat, AtLevel(m), pc[0] = "end"
             PROVE  reduceAcc[0] = Reduce!Elements(0, width)
  BY DEF ReduceInv, Reduce!FirstHasTotal
<1>1. Device /\ width \in Nat /\ 0 < width /\ width <= ReduceGroupSize /\ 0 \in Reduce!Thread
  BY ReduceAssumption DEF AtLevel, Device, Reduce!Thread, Reduce!LaunchOK
<1> DEFINE k == skipWaves[0]
<1>2. /\ PlacedAt(m, "end", offset[0], k)
      /\ Holds(m, "end", 0, offset[0], k, acc[0], reduceAcc[0])
  BY <1>1 DEF AtLevel
<1>3. k \in Nat \ {0} /\ Reduce!NumWaves <= k
  BY <1>2 DEF PlacedAt
<1>4. LeadsWaves(0, k)
  <2>1. 0 \in 0..lockstep - 1 /\ 0 = lockstep * 0 + 0 /\ 0 % k = 0
    BY <1>1, <1>3 DEF Device
  <2>2. Reduce!WaveId(0) = 0 /\ Reduce!InWaveId(0) = 0
    BY <1>1, <2>1, IdsOf
  <2> QED
    BY <2>1, <2>2 DEF LeadsWaves
<1>5. reduceAcc[0] = Summed(0, k * lockstep)
  BY <1>2, <1>4 DEF Holds
<1>6. width <= k * lockstep /\ k * lockstep \in Nat
  <2>1. lockstep \in Nat /\ ReduceGroupSize \in Nat
    BY <1>1, ReduceAssumption DEF Device, Reduce!LaunchOK
  <2> DEFINE n == Reduce!NumWaves
  <2>2. n \in Nat /\ ReduceGroupSize <= n * lockstep
    BY <1>1, WavesOfGroup
  <2> HIDE DEF k, n
  <2>3. n * lockstep <= k * lockstep /\ n * lockstep \in Nat /\ k * lockstep \in Nat
    BY <1>3, <2>1, <2>2, ProductMonotonic DEF n
  <2> QED
    BY <1>1, <2>1, <2>2, <2>3
<1> DEFINE d == k * lockstep
<1> HIDE DEF d
<1>7. Summed(0, d) = Elements(0, width - 1)
  BY <1>1, <1>6 DEF Summed, d
<1>8. Elements(0, width - 1) = Reduce!Elements(0, width)
  BY <1>1 DEF Elements, Reduce!Elements
<1> QED
  BY <1>5, <1>7, <1>8 DEF d

(* Within the waves, a thread accesses its own wave only; across them, who  *)
(* writes leads twice as many waves as there are to add, and what is read   *)
(* is of a wave that does not.                                              *)
LEMMA ReduceInvRaceFree == ReduceInv => Reduce!RaceFree
<1> SUFFICES ASSUME NEW m \in Nat, AtLevel(m), NEW s \in Reduce!Thread, NEW t \in Reduce!Thread,
                    Reduce!WaveId(s) # Reduce!WaveId(t)
             PROVE  Reduce!Writes(s) \cap (Reduce!Reads(t) \cup Reduce!Writes(t)) = {}
  BY DEF ReduceInv, Reduce!RaceFree
<1>1. Device /\ s # t /\ s \in Nat /\ t \in Nat
  BY DEF AtLevel, Reduce!Thread
<1>2. PlacedAt(m, pc[s], offset[s], skipWaves[s]) /\ PlacedAt(m, pc[t], offset[t], skipWaves[t])
  BY DEF AtLevel
<1>3. Reduce!Writes(s) \subseteq {s} /\ Reduce!Writes(t) \subseteq {t}
  BY DEF Reduce!Writes
<1>4. CASE m = 0
  <2>1. Reduce!Reads(t) \subseteq {u \in Nat : Reduce!WaveId(u) = Reduce!WaveId(t)}
    <3>1. CASE pc[t] = "waveRead"
      <4> DEFINE d == offset[t]
      <4>1. d \in 1..lockstep - 1 /\ lockstep % d = 0
        BY <1>2, <3>1 DEF PlacedAt
      <4>2. Reduce!InWaveActive(t) => Leads(t, 2 * d)
        BY DEF Reduce!InWaveActive, Reduce!MultipleOfTwice, Leads
      <4>3. Reduce!InWaveActive(t) => t + d \in Nat /\ Reduce!WaveId(t + d) = Reduce!WaveId(t)
        BY <1>1, <4>1, <4>2, Partner DEF Device
      <4>4. Reduce!Reads(t) = IF Reduce!InWaveActive(t) THEN {t + d} ELSE {}
        BY <3>1 DEF Reduce!Reads
      <4> QED
        BY <4>3, <4>4
    <3>2. CASE pc[t] # "waveRead"
      <4>1. pc[t] # "crossRead"
        BY <1>2, <1>4 DEF PlacedAt
      <4>2. Reduce!Reads(t) \subseteq {t}
        BY <3>2, <4>1 DEF Reduce!Reads
      <4> QED
        BY <1>1, <4>2
    <3> QED
      BY <3>1, <3>2
  <2> QED
    BY <1>1, <1>3, <2>1
<1>5. CASE m # 0
  <2>1. ASSUME NEW u \in Reduce!Writes(s) PROVE LeadsWaves(u, 2 * m)
    <3>1. u = s /\ pc[s] = "crossWrite" /\ Reduce!CrossWaveActive(s)
      BY <1>2, <1>5, <2>1 DEF Reduce!Writes, PlacedAt
    <3>2. skipWaves[s] = m
      BY <1>2, <1>5, <3>1 DEF PlacedAt
    <3> QED
      BY <3>1, <3>2 DEF Reduce!CrossWaveActive, Reduce!MultipleOfTwice, LeadsWaves
  <2>2. ASSUME NEW u \in Reduce!Reads(t) PROVE ~ LeadsWaves(u, 2 * m)
    <3>1. pc[t] = "crossRead" /\ Reduce!CrossWaveActive(t) /\ u = t + offset[t]
      BY <1>2, <1>5, <2>2 DEF Reduce!Reads, PlacedAt
    <3>2. skipWaves[t] = m /\ offset[t] = m * lockstep
      BY <1>2, <1>5, <3>1 DEF PlacedAt
    <3>3. LeadsWaves(t, 2 * m)
      BY <3>1, <3>2 DEF Reduce!CrossWaveActive, Reduce!MultipleOfTwice, LeadsWaves
    <3> QED
      BY <1>1, <1>5, <3>1, <3>2, <3>3, PartnerWave
  <2> QED
    BY <1>1, <1>3, <2>1, <2>2
<1> QED
  BY <1>4, <1>5

-----------------------------------------------------------------------------
(* A device scans, or it reduces, and keeps to that.                        *)
LEMMA StepOfOne ==
  ASSUME [Step]_allVars
  PROVE  /\ operation' = operation
         /\ Scanning => [Next]_vars
         /\ Reducing => [Reduce!Next]_Reduce!vars
<1>1. CASE Step
  BY <1>1 DEF Step, Scanning, Reducing
<1>2. CASE UNCHANGED allVars
  BY <1>2 DEF allVars, vars, registers, Reduce!vars
<1> QED
  BY <1>1, <1>2

LEMMA StartOfOne ==
  ASSUME Start
  PROVE  (Scanning => Init) /\ (Reducing => Reduce!Init)
BY DEF Start, Scanning, Reducing

GroupInvariant ==
  /\ Scanning => ScanInv
  /\ Reducing => ReduceInv /\ width \in ReduceWidths

LEMMA GroupsInvariance == Groups => []GroupInvariant
<1>1. Start => GroupInvariant
  BY StartOfOne, InitScan, InitReduce DEF GroupInvariant, Reduce!Init
<1>2. GroupInvariant /\ [Step]_allVars => GroupInvariant'
  <2> SUFFICES ASSUME GroupInvariant, [Step]_allVars PROVE GroupInvariant'
    OBVIOUS
  <2>1. Scanning => ScanInv'
    BY StepOfOne, NextScan DEF GroupInvariant
  <2>2. Reducing => ReduceInv'
    BY StepOfOne, NextReduce DEF GroupInvariant
  <2>3. Reducing => width' = width
    <3> SUFFICES ASSUME Reducing PROVE width' = width
      OBVIOUS
    <3>1. [Reduce!Next]_Reduce!vars
      BY StepOfOne
    <3> QED
      BY <3>1 DEF Reduce!Next, Reduce!vars, Reduce!device, Reduce!WaveStep, Reduce!SetInitParams,
         Reduce!InWaveRead, Reduce!InWaveWrite, Reduce!Barrier, Reduce!CrossWaveRead,
         Reduce!CrossWaveWrite
  <2> QED
    BY <2>1, <2>2, <2>3, StepOfOne DEF GroupInvariant, Scanning, Reducing
<1> QED
  BY <1>1, <1>2, PTL DEF Groups

(* Whatever the group, its blocks, waves and array: each thread of a scan   *)
(* ends with the scan up to its own element at its index.                   *)
THEOREM ScansRight == Groups => []ScanResult
<1>1. GroupInvariant => ScanResult
  BY ScanInvExact DEF GroupInvariant, ScanResult
<1> QED
  BY <1>1, GroupsInvariance, PTL

(* The first thread of a reduction ends with the elements of the array in   *)
(* order, each once, for groups, lockstep widths and arrays of any size; if *)
(* there are elements, since it ends with what was in its register if not.  *)
THEOREM ReducesRight ==
  ASSUME 0 \notin ReduceWidths
  PROVE  Groups => []ReduceResult
<1>1. GroupInvariant => ReduceResult
  BY ReduceInvTotal DEF GroupInvariant, ReduceResult
<1> QED
  BY <1>1, GroupsInvariance, PTL

(* The barriers of the two operations suffice: no two waves access an index *)
(* at a time, one of them to write.                                         *)
THEOREM GroupsRaceFree == Groups => []NoRaces
<1>1. GroupInvariant => NoRaces
  BY ControlRaceFree, ReduceInvRaceFree DEF GroupInvariant, NoRaces, ScanInv
<1> QED
  BY <1>1, GroupsInvariance, PTL

(* Threads of a group that wait do so at one barrier, and none is through   *)
(* while another one waits.                                                 *)
GroupWaitsTogether ==
  /\ Scanning => WaitTogether
  /\ Reducing => \A s, t \in Reduce!Thread :
                   pc[s] = "barrier" /\ pc[t] \in {"barrier", "end"} => pc[s] = pc[t]

(* No barrier is met by some threads only, of groups of any size: blocks of *)
(* a scan, and levels of a reduction, are counted for the group and not for *)
(* the thread, even if its wave or its part of the tree is incomplete.      *)
THEOREM NoneIsLeftWaiting == Groups => []GroupWaitsTogether
<1>1. ASSUME NEW m, AtLevel(m), NEW s \in Reduce!Thread, NEW t \in Reduce!Thread,
             pc[s] = "barrier", pc[t] = "end"
      PROVE  FALSE
  <2>1. PlacedAt(m, "barrier", offset[s], skipWaves[s]) /\ PlacedAt(m, "end", offset[t], skipWaves[t])
    BY <1>1 DEF AtLevel
  <2>2. skipWaves[s] = skipWaves[t]
    BY <2>1 DEF PlacedAt
  <2> QED
    BY <2>1, <2>2 DEF PlacedAt
<1>2. GroupInvariant => GroupWaitsTogether
  BY <1>1, ControlWaits DEF GroupInvariant, ScanInv, ReduceInv, GroupWaitsTogether
<1> QED
  BY <1>2, GroupsInvariance, PTL

(* A scan leaves what lies behind its array alone, if no array is shorter   *)
(* than a block, all of whose threads restore an element.                   *)
THEOREM ScansInsideArray ==
  ASSUME \A n \in Widths : BlockSize <= n
  PROVE  Groups => []ScanInsideArray
<1> DEFINE Inv == Scanning => Inside
<1>1. Start => Inv
  BY StartOfOne, InitInside
<1>2. Inv /\ [Step]_allVars => Inv'
  BY StepOfOne, NextInside DEF Scanning
<1>3. Inv => ScanInsideArray
  BY DEF Inside, ScanInsideArray
<1> QED
  BY <1>1, <1>2, <1>3, PTL DEF Groups
=============================================================================

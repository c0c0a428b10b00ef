-------------------------- MODULE AllocationProofs --------------------------
(***************************************************************************)
(* Proofs about the address arithmetic of module Reservations, for every   *)
(* width of addresses, block size, network and hash: on a network that the *)
(* code accepts, the candidates are the addresses that docs/host-setup.md  *)
(* names, and the probing finds one of them whenever one is free.          *)
(*                                                                         *)
(* The prover knows nothing of 2^n.  What is needed of it is counted: a    *)
(* set of n elements has 2^n subsets.                                      *)
(***************************************************************************)
EXTENDS Reservations, FiniteSetTheorems, TLAPS

-----------------------------------------------------------------------------
(* Powers of two and remainders.                                           *)

\* The number of subsets of an interval.
LEMMA Subsets ==
  ASSUME NEW a \in Nat, NEW n \in Nat
  PROVE  /\ IsFiniteSet(SUBSET ((a + 1)..(a + n)))
         /\ Cardinality(SUBSET ((a + 1)..(a + n))) = 2^n
  <1>1. /\ IsFiniteSet((a + 1)..(a + n))
        /\ Cardinality((a + 1)..(a + n)) = n
    BY FS_Interval
  <1> QED
    BY <1>1, FS_SUBSET, Zenon

\* 2^n is a positive number, and at least 2 if n is positive.
LEMMA PowerType ==
  ASSUME NEW n \in Nat
  PROVE  2^n \in Nat \ {0} /\ (n > 0 => 2^n >= 2)
  <1> DEFINE S == SUBSET ((0 + 1)..(0 + n))
  <1>1. IsFiniteSet(S) /\ Cardinality(S) = 2^n
    BY Subsets
  <1>2. S # {}
    BY Zenon
  <1>3. ASSUME n > 0 PROVE 2^n >= 2
    <2> DEFINE full == (0 + 1)..(0 + n)
               T == {{}} \cup {full}
    <2>1. full # {} /\ T \in SUBSET S
      BY <1>3
    <2>2. IsFiniteSet({{}}) /\ Cardinality({{}}) = 1
      BY FS_Singleton, Zenon
    <2>3. IsFiniteSet(T) /\ Cardinality(T) = 2
      <3>1. full \notin {{}}
        BY <2>1
      <3> HIDE DEF full
      <3>2. IsFiniteSet(T) /\ Cardinality(T) = Cardinality({{}}) + 1
        BY <2>2, <3>1, FS_AddElement, Zenon
      <3> HIDE DEF T
      <3> QED
        BY <2>2, <3>2
    <2> HIDE DEF S, T
    <2>4. Cardinality(T) <= Cardinality(S)
      BY <1>1, <2>1, FS_Subset
    <2> QED
      BY <1>1, <2>3, <2>4
  <1> HIDE DEF S
  <1> QED
    BY <1>1, <1>2, <1>3, FS_CardinalityType, FS_EmptySet

\* Choosing among a + b elements is choosing among a, then among b.
LEMMA PowerSum ==
  ASSUME NEW a \in Nat, NEW b \in Nat
  PROVE  2^(a + b) = 2^a * 2^b
  <1> DEFINE A == (0 + 1)..(0 + a)
             B == (a + 1)..(a + b)
             U == (0 + 1)..(0 + (a + b))
             f == [x \in (SUBSET A) \X (SUBSET B) |-> x[1] \cup x[2]]
  <1>1. /\ IsFiniteSet(SUBSET A) /\ Cardinality(SUBSET A) = 2^a
        /\ IsFiniteSet(SUBSET B) /\ Cardinality(SUBSET B) = 2^b
        /\ Cardinality(SUBSET U) = 2^(a + b)
    <2>1. 0 \in Nat /\ a + b \in Nat
      OBVIOUS
    <2> QED
      BY <2>1, Subsets, Zenon
  <1>2. A \cap B = {} /\ A \cup B = U
    OBVIOUS
  <1> HIDE DEF A, B, U
  <1>3. f \in Bijection((SUBSET A) \X (SUBSET B), SUBSET U)
    <2>1. f \in [(SUBSET A) \X (SUBSET B) -> SUBSET U]
      BY <1>2
    <2>2. ASSUME NEW x \in (SUBSET A) \X (SUBSET B),
                 NEW y \in (SUBSET A) \X (SUBSET B), f[x] = f[y]
          PROVE  x = y
      <3>1. x[1] \cup x[2] = y[1] \cup y[2]
        BY <2>2
      <3>2. x[1] = y[1] /\ x[2] = y[2]
        BY <1>2, <3>1
      <3> QED
        BY <3>2
    <2>3. ASSUME NEW t \in SUBSET U
          PROVE  \E x \in (SUBSET A) \X (SUBSET B) : f[x] = t
      <3> DEFINE x == <<t \cap A, t \cap B>>
      <3>1. x \in (SUBSET A) \X (SUBSET B) /\ f[x] = (t \cap A) \cup (t \cap B)
        OBVIOUS
      <3>2. (t \cap A) \cup (t \cap B) = t
        BY <1>2
      <3> QED
        BY <3>1, <3>2
    <2> QED
      BY <2>1, <2>2, <2>3, Zenon DEF Bijection, Injection, Surjection, IsInjective
  <1>4. ExistsBijection((SUBSET A) \X (SUBSET B), SUBSET U)
    BY <1>3, Zenon DEF ExistsBijection
  <1>5. /\ IsFiniteSet((SUBSET A) \X (SUBSET B))
        /\ Cardinality((SUBSET A) \X (SUBSET B)) = 2^a * 2^b
    BY <1>1, FS_Product
  <1> QED
    BY <1>1, <1>4, <1>5, FS_Bijection

\* Rounding down to a multiple of s stays below every multiple of s.
LEMMA RoundDown ==
  ASSUME NEW a \in Nat, NEW s \in Nat, NEW k \in Nat, NEW q \in Nat,
         s > 0, q = s * k, a < q
  PROVE  /\ a % s \in 0..(s - 1)
         /\ a - (a % s) \in Nat
         /\ a - (a % s) + s <= q
  <1>1. a % s \in 0..(s - 1)
    OBVIOUS
  <1>2. a % s <= a
    OBVIOUS
  <1>3. a - (a % s) + s <= q
    OBVIOUS
  <1> QED
    BY <1>1, <1>2, <1>3

\* Remainders of the first and of the second round.
LEMMA Remainder ==
  ASSUME NEW a \in Nat, NEW s \in Nat \ {0}, a < s
  PROVE  a % s = a /\ (a + s) % s = a
  OBVIOUS

-----------------------------------------------------------------------------
(* The subnet.                                                             *)

\* parseSubnet: the subnet holds the host's own address and lies within the
\* address space; only a prefix of 0 makes it the whole of it.
LEMMA SubnetFacts ==
  ASSUME NEW n \in Network
  PROVE  /\ SubnetSize(n) \in Nat \ {0}
         /\ 2^Width \in Nat \ {0}
         /\ parseSubnet(n) \in Nat
         /\ parseSubnet(n) <= n.address
         /\ n.address < parseSubnet(n) + SubnetSize(n)
         /\ parseSubnet(n) + SubnetSize(n) <= 2^Width
         /\ n.prefix # 0 => SubnetSize(n) < 2^Width
         /\ n.prefix = 0 => SubnetSize(n) = 2^Width
  <1> DEFINE size == SubnetSize(n)
             rest == 2^n.prefix
             max == 2^Width
  <1>1. /\ Width \in Nat /\ n.prefix \in Nat /\ Width - n.prefix \in Nat
        /\ (Width - n.prefix) + n.prefix = Width
        /\ n.address \in Nat /\ n.address <= 2^Width - 1
    <2>1. Width \in Nat
      BY ReservationsAssumption
    <2>2. 2^Width \in Nat
      BY <2>1, PowerType
    <2> QED
      BY <2>1, <2>2 DEF Network, Addresses
  <1>2. /\ size \in Nat \ {0}
        /\ rest \in Nat \ {0}
        /\ n.prefix > 0 => rest >= 2
        /\ max \in Nat \ {0}
    BY <1>1, PowerType, Zenon DEF SubnetSize
  <1>3. max = size * rest
    BY <1>1, PowerSum, Zenon DEF SubnetSize
  <1>4. n.address \in Nat /\ n.address < max
    <2> HIDE DEF max
    <2>1. n.address \in Nat /\ n.address <= max - 1
      BY <1>1 DEF max
    <2> QED
      BY <1>2, <2>1
  <1>5. n.prefix = 0 => size = max
    BY <1>1 DEF SubnetSize
  <1>6. parseSubnet(n) = n.address - (n.address % size)
    BY DEF parseSubnet
  <1> HIDE DEF size, rest, max
  <1>7. /\ n.address % size \in 0..(size - 1)
        /\ n.address - (n.address % size) \in Nat
        /\ n.address - (n.address % size) + size <= max
    <2>1. size > 0
      BY <1>2
    <2> QED
      BY <1>2, <1>3, <1>4, <2>1, RoundDown, Zenon
  <1>8. n.prefix # 0 => size < max
    BY <1>1, <1>2, <1>3
  <1> QED
    BY <1>2, <1>4, <1>5, <1>6, <1>7, <1>8 DEF size, max

-----------------------------------------------------------------------------
(* The candidates.                                                         *)

\* A sequence that lists the set S, each element once.
Lists(cs, S) ==
    /\ cs \in Seq(S)
    /\ \A x \in S : \E i \in 1..Len(cs) : cs[i] = x
    /\ \A i, j \in 1..Len(cs) : cs[i] = cs[j] => i = j

\* The empty sequence lists the empty set.
LEMMA EmptyLists == Lists(<<>>, {})
  BY DEF Lists

\* Block lists an interval.
LEMMA BlockLists ==
  ASSUME NEW first \in Int, NEW last \in Int, first <= last + 1
  PROVE  Lists(Block(first, last), first..last)
  <1> DEFINE b == Block(first, last)
  <1>1. b \in [1..(last - first + 1) -> first..last]
    BY DEF Block
  <1>2. last - first + 1 \in Nat
    OBVIOUS
  <1>3. b \in Seq(first..last) /\ Len(b) = last - first + 1
    BY <1>1, <1>2
  <1>4. ASSUME NEW x \in first..last
        PROVE  \E i \in 1..Len(b) : b[i] = x
    <2>1. x - first + 1 \in 1..Len(b) /\ b[x - first + 1] = x
      BY <1>3 DEF Block
    <2> QED
      BY <2>1
  <1>5. \A i, j \in 1..Len(b) : b[i] = b[j] => i = j
    BY <1>3 DEF Block
  <1> QED
    BY <1>3, <1>4, <1>5 DEF Lists

\* The addresses that docs/host-setup.md names are addresses of the subnet,
\* without the network address and the broadcast address.
LEMMA UsableInSubnet ==
  ASSUME NEW n \in Networks
  PROVE  /\ Usable(n) \subseteq Addresses
         /\ \A x \in Usable(n) : /\ x > parseSubnet(n)
                                 /\ x < parseSubnet(n) + SubnetSize(n) - 1
  <1>1. n \in Network /\ Valid(n) /\ BlockSize \in Nat
    BY ReservationsAssumption
  <1>2. CASE n.range = NoRange
    BY <1>1, <1>2, SubnetFacts DEF Usable, Addresses
  <1>3. CASE n.range # NoRange
    <2>1. /\ n.range[1] \in Addresses
          /\ n.range[2] \in Addresses
      BY <1>1, <1>3 DEF Network
    <2>2. /\ parseSubnet(n) < n.range[1]
          /\ n.range[2] < parseSubnet(n) + SubnetSize(n) - 1
      BY <1>1, <1>3 DEF Valid
    <2> QED
      BY <1>1, <1>3, <2>1, <2>2, SubnetFacts DEF Usable, Addresses
  <1> QED
    BY <1>2, <1>3

\* subnetTailCandidates: the block at the end of a subnet that is not the whole
\* address space.  No sum leaves the width of an address, and a block that is
\* larger than the subnet is cut.
LEMMA TailListsUsable ==
  ASSUME NEW n \in Networks, n.range = NoRange, n.prefix # 0
  PROVE  Lists(subnetTailCandidates(n), Usable(n))
  <1> DEFINE size == SubnetSize(n)
             network == parseSubnet(n)
             max == 2^Width
             tail == {x \in (network + 1)..(network + size - 1 - 1) :
                         x >= network + size - 1 - BlockSize}
             count == IF BlockSize < size - 2 THEN BlockSize ELSE size - 2
             lastHost == network + (size - 2)
  <1>1. n \in Network /\ BlockSize \in Nat \ {0}
    BY ReservationsAssumption
  <1>2. /\ size \in Nat \ {0} /\ max \in Nat \ {0} /\ network \in Nat
        /\ network + size <= max /\ size < max
    BY <1>1, SubnetFacts
  <1>3. Usable(n) = tail
    BY <1>1, <1>2 DEF Usable
  <1>4. size % max = size
    <2> HIDE DEF size, max
    <2> QED
      BY <1>2, Remainder
  <1>5. CASE size <= 2
    <2>1. subnetTailCandidates(n) = <<>>
      BY <1>4, <1>5 DEF subnetTailCandidates
    <2>2. tail = {}
      <3> HIDE DEF size, network
      <3> QED
        BY <1>1, <1>2, <1>5
    <2> QED
      BY <1>3, <2>1, <2>2, EmptyLists, Zenon
  <1>6. CASE size > 2
    <2>1. lastHost % max = lastHost
      <3> HIDE DEF size, network, max
      <3>1. lastHost \in Nat /\ lastHost < max
        BY <1>2, <1>6
      <3> HIDE DEF lastHost
      <3> QED
        BY <1>2, <3>1, Remainder
    <2>2. subnetTailCandidates(n) = Block(lastHost - (count - 1), lastHost)
      BY <1>2, <1>4, <1>6, <2>1 DEF subnetTailCandidates
    <2>3. /\ lastHost \in Int /\ lastHost - (count - 1) \in Int
          /\ lastHost - (count - 1) <= lastHost + 1
          /\ tail = (lastHost - (count - 1))..lastHost
      <3> HIDE DEF size, network
      <3> QED
        BY <1>1, <1>2, <1>6
    <2> HIDE DEF size, network, count, lastHost, tail
    <2> QED
      BY <1>3, <2>2, <2>3, BlockLists
  <1> QED
    BY <1>2, <1>5, <1>6

\* allocationCandidates, for every network that libvirt accepts: if the code
\* accepts it too, the candidates are the addresses that docs/host-setup.md
\* names, each of them once, the whole of a DHCP range included.  Otherwise
\* (another family attribute or none, no IPv4 address, a mask written as
\* prefix=, or the whole address space without a DHCP range) there is none.
THEOREM CandidatesAreUsable ==
  ASSUME NEW n \in Networks
  PROVE  Lists(allocationCandidates(n),
               IF Supported(n) THEN Usable(n) ELSE {})
  <1> DEFINE read == n.family = "inet" /\ ~parseSubnetFails(n)
  <1>1. n \in Network /\ Valid(n)
    BY ReservationsAssumption
  <1>2. CASE ~read
    BY <1>2, EmptyLists DEF allocationCandidates, Supported
  <1>3. CASE read /\ n.range # NoRange
    <2>1. /\ n.range[1] \in Int /\ n.range[2] \in Int
          /\ n.range[1] <= n.range[2] + 1
      <3>1. n.range[1] \in Addresses /\ n.range[2] \in Addresses
        BY <1>1, <1>3 DEF Network
      <3>2. n.range[1] <= n.range[2]
        BY <1>1, <1>3 DEF Valid
      <3> QED
        BY <3>1, <3>2 DEF Addresses
    <2>2. Lists(Block(n.range[1], n.range[2]), n.range[1]..n.range[2])
      BY <2>1, BlockLists
    <2> QED
      BY <1>3, <2>2 DEF allocationCandidates, rangeCandidates, Usable, Supported
  <1>4. CASE read /\ n.range = NoRange /\ n.prefix # 0
    BY <1>4, TailListsUsable DEF allocationCandidates, Supported
  <1>5. CASE read /\ n.range = NoRange /\ n.prefix = 0
    <2>1. SubnetSize(n) % 2^Width = 0
      <3> DEFINE max == 2^Width
      <3>1. SubnetSize(n) = max /\ max \in Nat \ {0}
        BY <1>1, <1>5, SubnetFacts
      <3> HIDE DEF max
      <3>2. max % max = 0
        BY <3>1
      <3> QED
        BY <3>1, <3>2 DEF max
    <2>2. subnetTailCandidates(n) = <<>>
      BY <2>1 DEF subnetTailCandidates
    <2> QED
      BY <1>5, <2>2, EmptyLists DEF allocationCandidates, Supported
  <1> QED
    BY <1>2, <1>3, <1>4, <1>5

-----------------------------------------------------------------------------
(* The probing.                                                            *)

\* A set of numbers that is not empty has a least one.
LEMMA LeastNatural ==
  ASSUME NEW T \in SUBSET Nat, T # {}
  PROVE  \E i \in T : \A j \in 0..(i - 1) : j \notin T
  <1> DEFINE R == {ss \in Nat \X Nat : ss[1] < ss[2]}
  <1>1. IsWellFoundedOn(R, Nat)
    BY NatLessThanWellFounded, Zenon DEF OpToRel
  <1>2. \A j, i \in Nat : j < i => <<j, i>> \in R
    OBVIOUS
  <1> HIDE DEF R
  <1>3. PICK i \in T : \A j \in T : ~(<<j, i>> \in R)
    BY <1>1, WFMin, Zenon
  <1>4. ASSUME NEW j \in 0..(i - 1) PROVE j \notin T
    <2>1. i \in Nat /\ j \in Nat /\ j < i
      OBVIOUS
    <2> QED
      BY <1>2, <1>3, <2>1, Zenon
  <1> QED
    BY <1>4

\* Candidate: from any start, the probing passes every candidate, and nothing
\* else.
LEMMA ProbingCovers ==
  ASSUME NEW L \in Nat, L > 0, NEW h \in Nat
  PROVE  /\ \A i \in 0..(L - 1) : ((((h % L) + i) % L) + 1) \in 1..L
         /\ \A k \in 1..L : \E i \in 0..(L - 1) : (((h % L) + i) % L) + 1 = k
  <1> DEFINE s == h % L
  <1>1. s \in 0..(L - 1)
    OBVIOUS
  <1> HIDE DEF s
  <1>2. ASSUME NEW i \in 0..(L - 1) PROVE ((s + i) % L) + 1 \in 1..L
    <2>1. s + i \in Nat
      BY <1>1
    <2>2. (s + i) % L \in 0..(L - 1)
      BY <2>1
    <2> QED
      BY <2>2
  <1>3. ASSUME NEW k \in 1..L
        PROVE  \E i \in 0..(L - 1) : ((s + i) % L) + 1 = k
    <2>1. k - 1 \in Nat /\ k - 1 < L /\ L \in Nat \ {0}
      OBVIOUS
    <2>2. (k - 1) % L = k - 1 /\ ((k - 1) + L) % L = k - 1
      BY <2>1, Remainder
    <2>3. CASE s <= k - 1
      <3>1. (k - 1) - s \in 0..(L - 1) /\ s + ((k - 1) - s) = k - 1
        BY <1>1, <2>1, <2>3
      <3>2. ((s + ((k - 1) - s)) % L) + 1 = k
        BY <2>1, <2>2, <3>1
      <3> QED
        BY <3>1, <3>2
    <2>4. CASE s > k - 1
      <3>1. /\ ((k - 1) + L) - s \in 0..(L - 1)
            /\ s + (((k - 1) + L) - s) = (k - 1) + L
        BY <1>1, <2>1, <2>4
      <3>2. ((s + (((k - 1) + L) - s)) % L) + 1 = k
        BY <2>1, <2>2, <3>1
      <3> QED
        BY <3>1, <3>2
    <2> QED
      BY <1>1, <2>3, <2>4
  <1> QED
    BY <1>2, <1>3 DEF s

\* allocateMachineIPIn, whatever the entries of the network are: it returns at
\* most one address, one that docs/host-setup.md names and that no other host
\* has; and on a network that the code accepts it returns one whenever there
\* is such an address, wherever the probing starts.
THEOREM AllocationFindsFree ==
  ASSUME net \in Networks, NEW hs, NEW m \in Machines
  PROVE  LET got  == allocateMachineIPIn(hs, m)
             free == {ip \in Usable(net) : Free(hostIPSet(hs), m, ip)}
         IN  /\ got \subseteq free
             /\ \A x, y \in got : x = y
             /\ Supported(net) /\ free # {} => got # {}
  <1> DEFINE cs == allocationCandidates(net)
             taken == hostIPSet(hs)
             L == Len(cs)
             at(i) == (((Hash[m] % L) + i) % L) + 1
             free(i) == Free(taken, m, cs[at(i)])
             F == {i \in 0..(L - 1) : free(i)}
             first == {i \in 0..(L - 1) : free(i) /\ \A j \in 0..(i - 1) : ~free(j)}
             got == {cs[at(i)] : i \in first}
             S == IF Supported(net) THEN Usable(net) ELSE {}
  <1>1. allocateMachineIPIn(hs, m) = got
    BY DEF allocateMachineIPIn, Candidate
  <1>2. Lists(cs, S)
    BY CandidatesAreUsable
  <1>3. Hash[m] \in Nat
    BY ReservationsAssumption
  <1> HIDE DEF cs, taken, S
  <1>4. L \in Nat /\ cs \in Seq(S)
    BY <1>2 DEF Lists
  <1>5. L > 0 => /\ \A i \in 0..(L - 1) : at(i) \in 1..L
                 /\ \A k \in 1..L : \E i \in 0..(L - 1) : at(i) = k
    <2> HIDE DEF L
    <2> QED
      BY <1>3, <1>4, ProbingCovers, Zenon
  <1> HIDE DEF at
  <1>6. ASSUME NEW i \in 0..(L - 1) PROVE cs[at(i)] \in S
    <2>1. L > 0
      BY <1>4
    <2>2. at(i) \in 1..L
      BY <1>5, <2>1, Zenon
    <2> QED
      BY <1>4, <2>2
  <1>7. ASSUME NEW x \in got
        PROVE  x \in S /\ Free(taken, m, x)
    BY <1>6
  <1>8. ASSUME NEW x \in got, NEW y \in got
        PROVE  x = y
    <2>1. PICK i \in first : x = cs[at(i)]
      OBVIOUS
    <2>2. PICK j \in first : y = cs[at(j)]
      OBVIOUS
    <2> HIDE DEF free
    <2>3. ~(i < j) /\ ~(j < i)
      BY <1>4
    <2>4. i = j
      BY <1>4, <2>3
    <2> QED
      BY <2>1, <2>2, <2>4
  <1>9. ASSUME NEW x \in S, Free(taken, m, x)
        PROVE  got # {}
    <2>1. PICK k \in 1..L : cs[k] = x
      BY <1>2 DEF Lists
    <2>2. PICK i \in 0..(L - 1) : at(i) = k
      BY <1>4, <1>5, <2>1
    <2>3. i \in F
      BY <1>9, <2>1, <2>2
    <2>4. F \in SUBSET Nat
      BY <1>4
    <2>5. PICK j \in F : \A l \in 0..(j - 1) : l \notin F
      <3> HIDE DEF F
      <3> QED
        BY <2>3, <2>4, LeastNatural
    <2> HIDE DEF free
    <2>6. j \in 0..(L - 1) /\ \A l \in 0..(j - 1) : l \in 0..(L - 1)
      BY <1>4
    <2>7. j \in first
      BY <2>5, <2>6
    <2> QED
      BY <2>7, Zenon
  <1>10. S \subseteq Usable(net)
    BY DEF S
  <1> HIDE DEF got
  <1> QED
    BY <1>1, <1>7, <1>8, <1>9, <1>10 DEF S, taken
=============================================================================

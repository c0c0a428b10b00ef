-------------------------- MODULE ReservationsProofs --------------------------
(***************************************************************************)
(* Proofs about module Reservations, for every width of addresses, network *)
(* and hash, and for any number of machines and hosts.                     *)
(*                                                                         *)
(* That no address is reserved twice needs two more facts.  No MAC has two *)
(* entries, so that a MODIFY changes one; and the address of a MODIFY that *)
(* was planned from the present entries is nobody else's.                  *)
(*                                                                         *)
(* That a built machine has a usable address needs an invariant of its     *)
(* own: in which phase a machine has which plan, and that a planned        *)
(* address is usable.  That the block is never exhausted is a pigeonhole.  *)
(***************************************************************************)
EXTENDS AllocationProofs

DistinctMACs(hs) ==
    \A i, j \in DOMAIN hs : hs[i].mac = hs[j].mac => i = j

DistinctIPs(hs) ==
    \A i, j \in DOMAIN hs : hs[i].ip = hs[j].ip => i = j

\* No other machine or host has the address.
Own(hs, m, ip) == \A i \in DOMAIN hs : hs[i].ip = ip => hs[i].mac = m

FreshModify(m) == plan[m] # NoPlan /\ plan[m].cmd = "MODIFY" /\ fresh[m]

Known(p) == p = NoPlan \/ p.cmd \in {"ADD_LAST", "MODIFY", "DELETE"}

TypeInv ==
    /\ \E S : hosts \in Seq(S)
    /\ DOMAIN plan = Machines /\ \A m \in Machines : Known(plan[m])
    /\ fresh \in [Machines -> BOOLEAN]
    /\ raced \in BOOLEAN

IInv ==
    /\ TypeInv
    /\ DistinctMACs(hosts)
    /\ ~raced => DistinctIPs(hosts)
    /\ ~raced => \A m \in Machines : FreshModify(m) => Own(hosts, m, plan[m].ip)

-----------------------------------------------------------------------------
(* The three updates of the entries.                                       *)

\* What is left when an entry is removed.
LEMMA WithoutFacts ==
  ASSUME NEW S, NEW s \in Seq(S), NEW k \in 1..Len(s)
  PROVE  LET r == Without(s, k)
         IN  /\ r \in Seq(S) /\ Len(r) = Len(s) - 1
             /\ \A i \in 1..Len(r) : r[i] = IF i < k THEN s[i] ELSE s[i + 1]
  <1> DEFINE a == SubSeq(s, 1, k - 1)
             b == SubSeq(s, k + 1, Len(s))
  <1>0. Len(s) \in Nat /\ k \in Int /\ \A i \in 1..Len(s) : s[i] \in S
    OBVIOUS
  <1>1. /\ a \in Seq(S) /\ Len(a) = k - 1
        /\ \A i \in 1..(k - 1) : a[i] = s[i]
    <2>1. \A i \in 1..(k - 1) : s[i] \in S
      BY <1>0
    <2> QED
      BY <1>0, <2>1
  <1>2. /\ b \in Seq(S) /\ Len(b) = Len(s) - k
        /\ \A i \in 1..(Len(s) - k) : b[i] = s[i + k]
    <2>1. \A i \in (k + 1)..Len(s) : s[i] \in S
      BY <1>0
    <2> QED
      BY <1>0, <2>1
  <1>3. Without(s, k) = a \o b
    BY DEF Without
  <1> HIDE DEF a, b
  <1>4. /\ a \o b \in Seq(S) /\ Len(a \o b) = Len(a) + Len(b)
        /\ \A i \in 1..(Len(a) + Len(b)) :
             (a \o b)[i] = IF i <= Len(a) THEN a[i] ELSE b[i - Len(a)]
    <2>1. a \in Seq(S) /\ b \in Seq(S)
      BY <1>1, <1>2
    <2>2. a \o b \in Seq(S)
      BY <2>1
    <2>3. Len(a \o b) = Len(a) + Len(b)
      BY <2>1
    <2>4. \A i \in 1..(Len(a) + Len(b)) :
            (a \o b)[i] = IF i <= Len(a) THEN a[i] ELSE b[i - Len(a)]
      BY <2>1
    <2> QED
      BY <2>2, <2>3, <2>4
  <1>5. Len(a) + Len(b) = Len(s) - 1
    BY <1>0, <1>1, <1>2
  <1>6. ASSUME NEW i \in 1..(Len(s) - 1)
        PROVE  (a \o b)[i] = IF i < k THEN s[i] ELSE s[i + 1]
    <2>1. CASE i < k
      BY <1>0, <1>1, <1>4, <1>5, <2>1, SMTT(30)
    <2>2. CASE ~(i < k)
      <3>1. i - Len(a) \in 1..(Len(s) - k) /\ ~(i <= Len(a))
        BY <1>0, <1>1, <2>2, SMTT(30)
      <3>2. (a \o b)[i] = b[i - Len(a)] /\ i - Len(a) + k = i + 1
        BY <1>0, <1>1, <1>4, <1>5, <3>1, SMTT(30)
      <3> QED
        BY <1>2, <2>2, <3>1, <3>2, Zenon
    <2> QED
      BY <2>1, <2>2, Zenon
  <1> QED
    BY <1>3, <1>4, <1>5, <1>6, SMTT(30)

\* Distinct entries are distinct without one of them.
LEMMA RemoveKeeps ==
  ASSUME NEW hs, \E S : hs \in Seq(S), NEW k \in DOMAIN hs
  PROVE  /\ \E S : Without(hs, k) \in Seq(S)
         /\ DistinctMACs(hs) => DistinctMACs(Without(hs, k))
         /\ DistinctIPs(hs) => DistinctIPs(Without(hs, k))
  <1>1. PICK S : hs \in Seq(S)
    OBVIOUS
  <1>2. k \in 1..Len(hs) /\ DOMAIN hs = 1..Len(hs) /\ Len(hs) \in Nat
    BY <1>1, SMTT(30)
  <1> DEFINE r == Without(hs, k)
             f(i) == IF i < k THEN i ELSE i + 1
  <1>3. /\ r \in Seq(S) /\ Len(r) = Len(hs) - 1
        /\ \A i \in 1..Len(r) : r[i] = IF i < k THEN hs[i] ELSE hs[i + 1]
    BY <1>1, <1>2, WithoutFacts, Zenon
  <1> HIDE DEF r
  <1>4. \A i \in DOMAIN r : f(i) \in DOMAIN hs /\ r[i] = hs[f(i)]
    BY <1>2, <1>3
  <1>5. \A i, j \in DOMAIN r : f(i) = f(j) => i = j
    BY <1>2, <1>3
  <1> HIDE DEF f
  <1>6. /\ DistinctMACs(hs) => DistinctMACs(r)
        /\ DistinctIPs(hs) => DistinctIPs(r)
    BY <1>4, <1>5 DEF DistinctMACs, DistinctIPs
  <1> QED
    BY <1>3, <1>6 DEF r

\* A new entry, for a MAC and an address that no entry has.
LEMMA AppendKeeps ==
  ASSUME NEW hs, \E S : hs \in Seq(S), NEW e,
         \A i \in DOMAIN hs : hs[i].mac # e.mac /\ hs[i].ip # e.ip
  PROVE  /\ \E S : Append(hs, e) \in Seq(S)
         /\ DistinctMACs(hs) => DistinctMACs(Append(hs, e))
         /\ DistinctIPs(hs) => DistinctIPs(Append(hs, e))
  <1>1. PICK S : hs \in Seq(S)
    OBVIOUS
  <1> DEFINE T == S \cup {e}
             r == Append(hs, e)
  <1>2. hs \in Seq(T) /\ e \in T
    <2>1. Len(hs) \in Nat /\ hs \in [1..Len(hs) -> S]
      BY <1>1
    <2>2. hs \in [1..Len(hs) -> T]
      BY <2>1
    <2> QED
      BY <2>1, <2>2
  <1> HIDE DEF T
  <1>3. /\ r \in Seq(T) /\ Len(r) = Len(hs) + 1
        /\ \A i \in 1..Len(hs) : r[i] = hs[i]
        /\ r[Len(hs) + 1] = e
    BY <1>2
  <1>4. DOMAIN hs = 1..Len(hs) /\ Len(hs) \in Nat /\ DOMAIN r = 1..Len(r)
    BY <1>2, <1>3
  <1> HIDE DEF r
  <1>5. \A i \in DOMAIN r : \/ i \in DOMAIN hs /\ r[i] = hs[i]
                            \/ i = Len(hs) + 1 /\ r[i] = e
    BY <1>3, <1>4
  <1>6. /\ DistinctMACs(hs) => DistinctMACs(r)
        /\ DistinctIPs(hs) => DistinctIPs(r)
    BY <1>5 DEF DistinctMACs, DistinctIPs
  <1> QED
    BY <1>3, <1>6 DEF r

\* The entry for a MAC gets an address that no other entry has, or MACs stay
\* distinct at least.
LEMMA ModifyKeeps ==
  ASSUME NEW hs, \E S : hs \in Seq(S), DistinctMACs(hs), NEW m, NEW ip
  PROVE  LET r == [i \in DOMAIN hs |-> IF hs[i].mac = m THEN machineHostXML(m, ip)
                                                        ELSE hs[i]]
         IN  /\ \E S : r \in Seq(S)
             /\ DistinctMACs(r)
             /\ DistinctIPs(hs) /\ Own(hs, m, ip) => DistinctIPs(r)
  <1>1. PICK S : hs \in Seq(S)
    OBVIOUS
  <1> DEFINE e == machineHostXML(m, ip)
             T == S \cup {e}
             r == [i \in DOMAIN hs |-> IF hs[i].mac = m THEN e ELSE hs[i]]
  <1>2. /\ DOMAIN hs = 1..Len(hs) /\ Len(hs) \in Nat
        /\ \A i \in DOMAIN hs : hs[i] \in S
    BY <1>1
  <1>3. e.mac = m /\ e.ip = ip /\ e \in T
    BY DEF machineHostXML
  <1>4. r \in [1..Len(hs) -> T]
    <2> HIDE DEF e
    <2> QED
      BY <1>2, <1>3
  <1>5. r \in Seq(T)
    BY <1>2, <1>4, SMTT(30)
  <1>6. /\ DOMAIN r = DOMAIN hs
        /\ \A i \in DOMAIN hs : r[i] = IF hs[i].mac = m THEN e ELSE hs[i]
    OBVIOUS
  <1> HIDE DEF e, r
  <1>7. \A i \in DOMAIN hs : r[i].mac = hs[i].mac
    BY <1>3, <1>6
  <1>8. DistinctMACs(r)
    BY <1>6, <1>7 DEF DistinctMACs
  <1>9. ASSUME DistinctIPs(hs), Own(hs, m, ip) PROVE DistinctIPs(r)
    <2>1. \A i \in DOMAIN hs : r[i].ip = IF hs[i].mac = m THEN ip ELSE hs[i].ip
      BY <1>3, <1>6
    <2> QED
      BY <1>6, <1>9, <2>1 DEF DistinctIPs, DistinctMACs, Own
  <1> QED
    BY <1>5, <1>8, <1>9, SMTT(30) DEF r, e

-----------------------------------------------------------------------------
(* The steps.                                                              *)

\* allocateMachineIPIn: while addresses are distinct, the one it returns is
\* free or the machine's own, although hostIPSet keeps one MAC per address.
LEMMA AllocatedIsOwn ==
  ASSUME NEW hs, \E S : hs \in Seq(S), DistinctIPs(hs),
         NEW m, NEW ip \in allocateMachineIPIn(hs, m)
  PROVE  Own(hs, m, ip)
  <1>1. Free(hostIPSet(hs), m, ip)
    BY DEF allocateMachineIPIn
  <1>2. SUFFICES ASSUME NEW k \in DOMAIN hs, hs[k].ip = ip
                 PROVE  hs[k].mac = m
    BY DEF Own
  <1> DEFINE P(i) == /\ hs[i].ip = ip
                     /\ \A j \in DOMAIN hs : hs[j].ip = ip => j <= i
             last == CHOOSE i \in DOMAIN hs : P(i)
  <1>3. k <= k
    BY <1>2
  <1>4. P(k)
    BY <1>2, <1>3 DEF DistinctIPs
  <1>5. last \in DOMAIN hs /\ P(last)
    BY <1>4
  <1>6. last = k
    BY <1>2, <1>5, SMTT(30) DEF DistinctIPs
  <1>7. ip \in DOMAIN hostIPSet(hs) /\ hostIPSet(hs)[ip] = hs[last].mac
    BY <1>2 DEF hostIPSet
  <1> QED
    BY <1>1, <1>6, <1>7, Zenon DEF Free

\* A decision changes no entry; if it is a MODIFY, its address is the
\* machine's own.
LEMMA DecideInv ==
  ASSUME IInv, NEW m \in Machines, NEW p, NEW next, Decide(m, p, next), Known(p),
         (~raced /\ p # NoPlan /\ p.cmd = "MODIFY") => Own(hosts, m, p.ip)
  PROVE  IInv'
  <1>1. UNCHANGED <<hosts, raced>>
    BY DEF Decide
  <1>2. /\ DOMAIN plan' = Machines /\ fresh' \in [Machines -> BOOLEAN]
        /\ \A x \in Machines : /\ plan'[x] = IF x = m THEN p ELSE plan[x]
                               /\ x # m => fresh'[x] = fresh[x]
    BY Zenon DEF Decide, IInv, TypeInv
  <1>3. TypeInv'
    BY <1>1, <1>2, SMTT(30) DEF IInv, TypeInv, Known
  <1>4. ASSUME ~raced', NEW x \in Machines, FreshModify(x)'
        PROVE  Own(hosts, x, plan[x].ip)'
    <2>1. CASE x = m
      BY <1>1, <1>2, <1>4, <2>1, SMTT(30) DEF FreshModify, Own
    <2>2. CASE x # m
      <3>1. ~raced /\ FreshModify(x) /\ UNCHANGED plan[x]
        BY <1>1, <1>2, <1>4, <2>2, SMTT(30) DEF FreshModify
      <3> QED
        BY <1>1, <3>1, SMTT(30) DEF IInv, Own
    <2> QED
      BY <2>1, <2>2, SMTT(30)
  <1> QED
    BY <1>1, <1>3, <1>4, SMTT(30) DEF IInv, DistinctMACs, DistinctIPs

LEMMA reserveInv ==
  ASSUME IInv, NEW m \in Machines, reserveMachineIP(m)
  PROVE  IInv'
  <1>1. PICK ip \in allocateMachineIPIn(hosts, m) :
          Decide(m, planHostUpdate(hosts, m, ip), "built")
    BY DEF reserveMachineIP
  <1> DEFINE p == planHostUpdate(hosts, m, ip)
  <1>2. Known(p) /\ (p = NoPlan \/ p.ip = ip)
    BY DEF planHostUpdate, Known
  <1>3. ~raced => Own(hosts, m, ip)
    BY AllocatedIsOwn DEF IInv, TypeInv
  <1> HIDE DEF p
  <1>4. Decide(m, p, "built")
    BY <1>1 DEF p
  <1> QED
    BY <1>2, <1>3, <1>4, DecideInv, SMTT(30)

LEMMA releaseInv ==
  ASSUME IInv, NEW m \in Machines, releaseMachineIP(m)
  PROVE  IInv'
  <1>1. PICK p : Decide(m, p, "absent") /\ (p = NoPlan \/ p.cmd = "DELETE")
    <2>1. CASE Decide(m, NoPlan, "absent")
      BY <2>1
    <2>2. ASSUME NEW i \in hostEntryInNetwork(hosts, m),
                 Decide(m, [cmd |-> "DELETE", ip |-> hosts[i].ip], "absent")
          PROVE  \E p : Decide(m, p, "absent") /\ (p = NoPlan \/ p.cmd = "DELETE")
      <3> WITNESS [cmd |-> "DELETE", ip |-> hosts[i].ip]
      <3> QED
        BY <2>2
    <2> QED
      BY <2>1, <2>2, Zenon DEF releaseMachineIP
  <1>2. Known(p) /\ ~(p # NoPlan /\ p.cmd = "MODIFY")
    BY <1>1 DEF Known
  <1> QED
    BY <1>1, <1>2, DecideInv, SMTT(30)

\* Whoever changes the entries leaves no other plan fresh.
LEMMA StaleInv ==
  ASSUME TypeInv', DistinctMACs(hosts)', ~raced' => DistinctIPs(hosts)',
         \A x \in Machines : plan'[x] = NoPlan \/ ~fresh'[x]
  PROVE  IInv'
  BY DEF IInv, FreshModify

LEMMA UpdateInv ==
  ASSUME IInv, NEW m \in Machines, Update(m)
  PROVE  IInv'
  <1> DEFINE p == plan[m]
             new == machineHostXML(m, p.ip)
  <1>0. /\ ~Refused(m, p) /\ hosts' = Updated(m, p) /\ p # NoPlan
        /\ raced' = (raced \/ (p.cmd = "MODIFY" /\ ~fresh[m]))
        /\ plan' = [plan EXCEPT ![m] = NoPlan]
        /\ fresh' = [x \in Machines |-> x = m \/ plan[x] = NoPlan]
    BY DEF Update, HostsChange
  <1>1. /\ DOMAIN plan' = Machines /\ fresh' \in [Machines -> BOOLEAN]
        /\ raced' \in BOOLEAN /\ \A x \in Machines : Known(plan'[x])
        /\ \A x \in Machines : plan'[x] = NoPlan \/ ~fresh'[x]
    BY <1>0, Zenon DEF IInv, TypeInv, Known
  <1>2. /\ \E S : hosts' \in Seq(S)
        /\ DistinctMACs(hosts')
        /\ ~raced' => DistinctIPs(hosts')
    <2>1. CASE p.cmd = "ADD_LAST"
      <3>1. hosts' = Append(hosts, new)
        BY <1>0, <2>1, SMTT(30) DEF Updated
      <3>2. \A i \in DOMAIN hosts : hosts[i].mac # new.mac /\ hosts[i].ip # new.ip
        BY <1>0, <2>1, SMTT(30) DEF Refused, machineHostXML
      <3> HIDE DEF new
      <3> QED
        BY <1>0, <3>1, <3>2, AppendKeeps, SMTT(30) DEF IInv, TypeInv
    <2>2. CASE p.cmd = "MODIFY"
      <3>1. hosts' = [i \in DOMAIN hosts |->
                        IF hosts[i].mac = m THEN new ELSE hosts[i]]
        BY <1>0, <2>2, SMTT(30) DEF Updated
      <3>2. ~raced' => ~raced /\ Own(hosts, m, p.ip)
        BY <1>0, <2>2, Zenon DEF IInv, TypeInv, FreshModify
      <3>3. /\ \E S : hosts' \in Seq(S)
            /\ DistinctMACs(hosts')
            /\ DistinctIPs(hosts) /\ Own(hosts, m, p.ip) => DistinctIPs(hosts')
        <4>1. (\E S : hosts \in Seq(S)) /\ DistinctMACs(hosts)
          BY DEF IInv, TypeInv
        <4> HIDE DEF p
        <4> QED
          BY <3>1, <4>1, ModifyKeeps, ZenonT(60)
      <3> QED
        BY <3>2, <3>3, SMTT(30) DEF IInv
    <2>3. CASE p.cmd = "DELETE"
      <3>1. PICK k \in DOMAIN hosts : hosts' = Without(hosts, k)
        <4>1. \E i \in DOMAIN hosts : hosts[i] = new
          BY <1>0, <2>3, SMTT(30) DEF Refused
        <4>2. hosts' = Without(hosts, CHOOSE i \in DOMAIN hosts : hosts[i] = new)
          BY <1>0, <2>3, SMTT(30) DEF Updated
        <4> QED
          BY <4>1, <4>2, Zenon
      <3>2. /\ \E S : hosts' \in Seq(S)
            /\ DistinctMACs(hosts) => DistinctMACs(hosts')
            /\ DistinctIPs(hosts) => DistinctIPs(hosts')
        <4>1. \E S : hosts \in Seq(S)
          BY DEF IInv, TypeInv
        <4> QED
          BY <3>1, <4>1, RemoveKeeps, SMTT(30)
      <3> QED
        BY <1>0, <3>2, Zenon DEF IInv
    <2>4. p.cmd \in {"ADD_LAST", "MODIFY", "DELETE"}
      BY <1>0 DEF IInv, TypeInv, Known
    <2> QED
      BY <2>1, <2>2, <2>3, <2>4, SMTT(30)
  <1> QED
    BY <1>1, <1>2, StaleInv, SMTT(30) DEF TypeInv, DistinctMACs, DistinctIPs, Known

LEMMA CrashInv ==
  ASSUME IInv, NEW m \in Machines, Crash(m)
  PROVE  IInv'
  <1>1. UNCHANGED <<hosts, raced>>
    BY DEF Crash
  <1>2. /\ DOMAIN plan' = Machines /\ fresh' \in [Machines -> BOOLEAN]
        /\ plan'[m] = NoPlan
        /\ \A x \in Machines \ {m} : plan'[x] = plan[x] /\ fresh'[x] = fresh[x]
    BY DEF Crash, IInv, TypeInv
  <1>3. TypeInv'
    BY <1>1, <1>2, SMTT(30) DEF IInv, TypeInv, Known
  <1>4. \A x \in Machines : FreshModify(x)' => FreshModify(x) /\ plan'[x] = plan[x]
    BY <1>2 DEF FreshModify
  <1> QED
    BY <1>1, <1>3, <1>4, SMTT(30) DEF IInv, DistinctMACs, DistinctIPs, Own

\* A step that changes no entry and no plan.
LEMMA QuietInv ==
  ASSUME IInv, UNCHANGED <<hosts, plan, fresh, raced>>
  PROVE  IInv'
  BY DEF IInv, TypeInv, Known, DistinctMACs, DistinctIPs, FreshModify, Own

\* The operator adds an entry for a new MAC and address, or removes one.
LEMMA OperatorInv ==
  ASSUME IInv, OperatorAdds \/ OperatorRemoves
  PROVE  IInv'
  <1>0. \E S : hosts \in Seq(S)
    BY DEF IInv, TypeInv
  <1>1. /\ UNCHANGED <<plan, raced>>
        /\ fresh' = [x \in Machines |-> plan[x] = NoPlan]
    BY DEF OperatorAdds, OperatorRemoves
  <1>2. /\ \E S : hosts' \in Seq(S)
        /\ DistinctMACs(hosts) => DistinctMACs(hosts')
        /\ DistinctIPs(hosts) => DistinctIPs(hosts')
    <2>1. CASE OperatorAdds
      <3>1. PICK mac, ip, named :
              /\ hosts' = Append(hosts, [mac |-> mac, ip |-> ip, named |-> named])
              /\ \A i \in DOMAIN hosts : hosts[i].mac # mac /\ hosts[i].ip # ip
        BY <2>1, Zenon DEF OperatorAdds
      <3> DEFINE e == [mac |-> mac, ip |-> ip, named |-> named]
      <3>2. \A i \in DOMAIN hosts : hosts[i].mac # e.mac /\ hosts[i].ip # e.ip
        BY <3>1
      <3>3. hosts' = Append(hosts, e)
        BY <3>1
      <3> HIDE DEF e
      <3> QED
        BY <1>0, <3>2, <3>3, AppendKeeps, Zenon
    <2>2. CASE OperatorRemoves
      <3>1. PICK k \in DOMAIN hosts : hosts' = Without(hosts, k)
        BY <2>2 DEF OperatorRemoves
      <3> QED
        BY <1>0, <3>1, RemoveKeeps, SMTT(30)
    <2> QED
      BY <2>1, <2>2, SMTT(30)
  <1>3. TypeInv'
    BY <1>1, <1>2, SMTT(30) DEF IInv, TypeInv, Known
  <1>4. /\ DistinctMACs(hosts)'
        /\ ~raced' => DistinctIPs(hosts)'
    BY <1>1, <1>2, SMTT(30) DEF IInv, DistinctMACs, DistinctIPs
  <1>5. \A x \in Machines : plan'[x] = NoPlan \/ ~fresh'[x]
    BY <1>1, Zenon
  <1> QED
    BY <1>3, <1>4, <1>5, StaleInv, SMTT(30)

LEMMA InvInit == Init => IInv
  <1> SUFFICES ASSUME Init PROVE IInv
    OBVIOUS
  <1>1. hosts \in Seq({}) /\ DOMAIN hosts = {}
    BY DEF Init
  <1>2. /\ DOMAIN plan = Machines /\ \A m \in Machines : plan[m] = NoPlan
        /\ fresh \in [Machines -> BOOLEAN] /\ raced \in BOOLEAN
    BY Zenon DEF Init
  <1> QED
    BY <1>1, <1>2 DEF IInv, TypeInv, Known, DistinctMACs, DistinctIPs, FreshModify

LEMMA InvStep == IInv /\ [Next]_vars => IInv'
  <1> SUFFICES ASSUME IInv, [Next]_vars PROVE IInv'
    OBVIOUS
  <1>1. ASSUME NEW m \in Machines, Step(m) PROVE IInv'
    BY <1>1, reserveInv, releaseInv, UpdateInv, CrashInv, SMTT(30) DEF Step
  <1>2. ASSUME NEW m \in Machines, CreateMachine(m) \/ DeleteMachine(m) PROVE IInv'
    BY <1>2, QuietInv, SMTT(30) DEF CreateMachine, DeleteMachine, Become
  <1>3. CASE OperatorAdds \/ OperatorRemoves
    BY <1>3, OperatorInv, SMTT(30)
  <1>4. CASE Calm \/ UNCHANGED vars
    BY <1>4, QuietInv DEF Calm, vars
  <1> QED
    BY <1>1, <1>2, <1>3, <1>4, SMTT(30) DEF Next

\* reserveMachineIP: whatever the addresses, the hash and the number of
\* machines, and however reads and updates interleave, an address has one
\* entry until a MODIFY is sent that was planned from older entries.
THEOREM AddressesAlwaysDistinct == Spec => []DistinctAddresses
  <1>1. IInv => DistinctAddresses
    BY DEF IInv, DistinctIPs, DistinctAddresses
  <1> QED
    BY <1>1, InvInit, InvStep, PTL DEF Spec

-----------------------------------------------------------------------------
(* There is an address for every machine.                                  *)

\* hostIPSet: a taken address has an entry with the MAC that it is taken by.
LEMMA TakenHasEntry ==
  ASSUME NEW hs, \E S : hs \in Seq(S), NEW ip \in DOMAIN hostIPSet(hs)
  PROVE  \E i \in DOMAIN hs : hs[i].ip = ip /\ hs[i].mac = hostIPSet(hs)[ip]
  <1>1. Len(hs) \in Nat /\ DOMAIN hs = 1..Len(hs)
    OBVIOUS
  <1>2. PICK k \in DOMAIN hs : hs[k].ip = ip
    BY DEF hostIPSet
  <1> DEFINE P(i) == /\ hs[i].ip = ip
                     /\ \A j \in DOMAIN hs : hs[j].ip = ip => j <= i
             last == CHOOSE i \in DOMAIN hs : P(i)
             D == {d \in 0..Len(hs) : /\ Len(hs) - d \in DOMAIN hs
                                      /\ hs[Len(hs) - d].ip = ip}
  <1>3. \E i \in DOMAIN hs : P(i)
    <2>1. Len(hs) - k \in D
      BY <1>1, <1>2
    <2>2. D \in SUBSET Nat
      BY <1>1
    <2>3. PICK d \in D : \A c \in 0..(d - 1) : c \notin D
      <3> HIDE DEF D
      <3> QED
        BY <2>1, <2>2, LeastNatural
    <2>4. ASSUME NEW j \in DOMAIN hs, hs[j].ip = ip
          PROVE  j <= Len(hs) - d
      <3>1. Len(hs) - j \in D
        BY <1>1, <2>4
      <3>2. Len(hs) - j \notin 0..(d - 1)
        BY <2>3, <3>1
      <3> QED
        BY <1>1, <2>2, <3>2
    <2>5. P(Len(hs) - d) /\ Len(hs) - d \in DOMAIN hs
      BY <2>3, <2>4
    <2> QED
      BY <2>5
  <1> HIDE DEF P
  <1>4. last \in DOMAIN hs /\ P(last)
    BY <1>3
  <1>5. hostIPSet(hs)[ip] = hs[last].mac
    BY <1>2 DEF hostIPSet, P
  <1> QED
    BY <1>4, <1>5 DEF P

\* Every host has one entry at most, so that the other hosts cannot have all
\* of as many addresses as there are hosts.
LEMMA OneIsFree ==
  ASSUME net \in Networks, NEW hs, \E S : hs \in Seq(S), DistinctMACs(hs),
         \A i \in DOMAIN hs : hs[i] \in Host,
         NEW m \in Machines, IsFiniteSet(MACs),
         Cardinality(Usable(net)) >= Cardinality(MACs)
  PROVE  \E ip \in Usable(net) : Free(hostIPSet(hs), m, ip)
  <1> DEFINE taken == hostIPSet(hs)
             U == Usable(net)
             M == MACs \ {m}
  <1>1. SUFFICES ASSUME \A ip \in U : ip \in DOMAIN taken /\ taken[ip] # m
                 PROVE  FALSE
    BY DEF Free
  <1>2. IsFiniteSet(U)
    <2>1. 2^Width \in Nat /\ net \in Networks
      BY ReservationsAssumption, PowerType
    <2>2. IsFiniteSet(Addresses)
      <3>1. 0 \in Int /\ 2^Width - 1 \in Int
        BY <2>1
      <3> QED
        BY <3>1, FS_Interval DEF Addresses
    <2>3. U \in SUBSET Addresses
      BY <2>1, UsableInSubnet
    <2> QED
      BY <2>2, <2>3, FS_Subset
  <1>3. IsFiniteSet(M) /\ Cardinality(M) < Cardinality(U)
    <2>1. m \in MACs
      BY DEF MACs
    <2>2. IsFiniteSet(M) /\ Cardinality(M) = Cardinality(MACs) - 1
      BY <2>1, FS_RemoveElement
    <2>3. Cardinality(MACs) \in Nat /\ Cardinality(U) \in Nat
      BY <1>2, FS_CardinalityType
    <2> HIDE DEF M, U
    <2>4. Cardinality(U) >= Cardinality(MACs)
      BY DEF U
    <2> QED
      BY <2>2, <2>3, <2>4
  <1>4. \A ip \in U : \E i \in DOMAIN hs : hs[i].ip = ip /\ hs[i].mac = taken[ip]
    BY <1>1, TakenHasEntry
  <1> DEFINE f == [ip \in U |-> taken[ip]]
  <1>5. f \in [U -> M]
    <2>1. \A ip \in U : taken[ip] \in M
      <3> HIDE DEF taken, U
      <3> QED
        BY <1>1, <1>4 DEF Host
    <2> HIDE DEF taken, U, M
    <2> QED
      BY <2>1
  <1> HIDE DEF taken, U, M
  <1>6. PICK x \in U, y \in U : x # y /\ f[x] = f[y]
    <2> HIDE DEF f
    <2> QED
      BY <1>2, <1>3, <1>5, FS_PigeonHole
  <1>7. PICK i \in DOMAIN hs : hs[i].ip = x /\ hs[i].mac = taken[x]
    BY <1>4
  <1>8. PICK j \in DOMAIN hs : hs[j].ip = y /\ hs[j].mac = taken[y]
    BY <1>4
  <1> QED
    BY <1>6, <1>7, <1>8 DEF DistinctMACs

-----------------------------------------------------------------------------
(* What the updates do to the set of the entries.                          *)

Entries(hs) == {hs[i] : i \in DOMAIN hs}

LEMMA AppendEntries ==
  ASSUME NEW hs, \E S : hs \in Seq(S), NEW e
  PROVE  Entries(Append(hs, e)) = Entries(hs) \cup {e}
  <1>1. /\ Len(hs) \in Nat /\ DOMAIN hs = 1..Len(hs)
        /\ DOMAIN Append(hs, e) = 1..(Len(hs) + 1)
        /\ \A i \in 1..Len(hs) : Append(hs, e)[i] = hs[i]
        /\ Append(hs, e)[Len(hs) + 1] = e
    OBVIOUS
  <1> DEFINE r == Append(hs, e)
  <1> HIDE DEF r
  <1>2. \A i \in DOMAIN r : (i \in DOMAIN hs /\ r[i] = hs[i]) \/ r[i] = e
    BY <1>1 DEF r
  <1>3. /\ \A i \in DOMAIN hs : i \in DOMAIN r /\ r[i] = hs[i]
        /\ Len(hs) + 1 \in DOMAIN r /\ r[Len(hs) + 1] = e
    BY <1>1 DEF r
  <1> QED
    BY <1>2, <1>3 DEF Entries, r

\* The entries of distinct MACs: removing one position removes one entry.
LEMMA RemoveEntries ==
  ASSUME NEW hs, \E S : hs \in Seq(S), DistinctMACs(hs), NEW k \in DOMAIN hs
  PROVE  Entries(Without(hs, k)) = Entries(hs) \ {hs[k]}
  <1>1. PICK S : hs \in Seq(S)
    OBVIOUS
  <1>2. k \in 1..Len(hs) /\ DOMAIN hs = 1..Len(hs) /\ Len(hs) \in Nat
    BY <1>1
  <1> DEFINE r == Without(hs, k)
             f(i) == IF i < k THEN i ELSE i + 1
  <1>3. /\ r \in Seq(S) /\ Len(r) = Len(hs) - 1
        /\ \A i \in 1..Len(r) : r[i] = IF i < k THEN hs[i] ELSE hs[i + 1]
    BY <1>1, <1>2, WithoutFacts, Zenon
  <1> HIDE DEF r
  <1>4. \A i \in DOMAIN r : f(i) \in DOMAIN hs /\ f(i) # k /\ r[i] = hs[f(i)]
    BY <1>2, <1>3
  <1>5. ASSUME NEW j \in DOMAIN hs, j # k
        PROVE  \E i \in DOMAIN r : r[i] = hs[j]
    <2>1. CASE j < k
      <3>1. j \in DOMAIN r /\ r[j] = hs[j]
        BY <1>2, <1>3, <2>1
      <3> QED
        BY <3>1
    <2>2. CASE j > k
      <3>1. j - 1 \in 1..Len(r) /\ ~(j - 1 < k) /\ (j - 1) + 1 = j
        BY <1>2, <1>3, <2>2
      <3>2. j - 1 \in DOMAIN r /\ r[j - 1] = hs[j]
        BY <1>3, <3>1
      <3> QED
        BY <3>2
    <2> QED
      BY <1>2, <1>5, <2>1, <2>2
  <1>6. \A j \in DOMAIN hs : j # k => hs[j] # hs[k]
    BY DEF DistinctMACs
  <1> HIDE DEF f
  <1> QED
    BY <1>4, <1>5, <1>6 DEF Entries, r

\* An update of machine m leaves the entries of the others as they are, and
\* brings no entry but the planned one, unless it is a deletion.
LEMMA UpdateEntries ==
  ASSUME IInv, NEW m \in Machines, Update(m)
  PROVE  LET new == machineHostXML(m, plan[m].ip)
         IN  /\ \A e : e.mac # m => (e \in Entries(hosts') <=> e \in Entries(hosts))
             /\ \A e \in Entries(hosts') : e \in Entries(hosts) \/ e = new
             /\ plan[m].cmd # "DELETE" => new \in Entries(hosts')
  <1> DEFINE p == plan[m]
             new == machineHostXML(m, p.ip)
  <1>0. /\ ~Refused(m, p) /\ hosts' = Updated(m, p)
        /\ p.cmd \in {"ADD_LAST", "MODIFY", "DELETE"}
        /\ \E S : hosts \in Seq(S)
        /\ DistinctMACs(hosts)
    BY DEF Update, IInv, TypeInv, Known
  <1>1. new.mac = m
    BY DEF machineHostXML
  <1>2. CASE p.cmd = "ADD_LAST"
    <2>1. hosts' = Append(hosts, new)
      BY <1>0, <1>2, SMTT(30) DEF Updated
    <2> HIDE DEF new
    <2>2. Entries(hosts') = Entries(hosts) \cup {new}
      BY <1>0, <2>1, AppendEntries, Zenon
    <2> QED
      BY <1>1, <1>2, <2>2 DEF new
  <1>3. CASE p.cmd = "MODIFY"
    <2>1. hosts' = [i \in DOMAIN hosts |->
                      IF hosts[i].mac = m THEN new ELSE hosts[i]]
      BY <1>0, <1>3, SMTT(30) DEF Updated
    <2>2. PICK k \in DOMAIN hosts : hosts[k].mac = m
      BY <1>0, <1>3, SMTT(30) DEF Refused, hostEntryInNetwork
    <2> HIDE DEF new
    <2>3. /\ DOMAIN hosts' = DOMAIN hosts
          /\ \A i \in DOMAIN hosts : hosts'[i] = IF hosts[i].mac = m THEN new
                                                                     ELSE hosts[i]
      BY <2>1
    <2>4. /\ \A e : e.mac # m => (e \in Entries(hosts') <=> e \in Entries(hosts))
          /\ \A e \in Entries(hosts') : e \in Entries(hosts) \/ e = new
          /\ new \in Entries(hosts')
      BY <1>1, <2>2, <2>3 DEF Entries
    <2> QED
      BY <2>4 DEF new
  <1>4. CASE p.cmd = "DELETE"
    <2>1. PICK k \in DOMAIN hosts : hosts[k] = new /\ hosts' = Without(hosts, k)
      <3>1. \E i \in DOMAIN hosts : hosts[i] = new
        BY <1>0, <1>4, SMTT(30) DEF Refused
      <3>2. hosts' = Without(hosts, CHOOSE i \in DOMAIN hosts : hosts[i] = new)
        BY <1>0, <1>4, SMTT(30) DEF Updated
      <3> QED
        BY <3>1, <3>2, Zenon
    <2> HIDE DEF new
    <2>2. Entries(hosts') = Entries(hosts) \ {new}
      BY <1>0, <2>1, RemoveEntries
    <2> QED
      BY <1>1, <1>4, <2>2
  <1> QED
    BY <1>0, <1>2, <1>3, <1>4

\* The operator leaves the entries of the machines that are built as they are.
LEMMA OperatorEntries ==
  ASSUME IInv, net \in Networks, OperatorAdds \/ OperatorRemoves
  PROVE  /\ \A e : /\ e.mac \in Machines
                   /\ phase[e.mac] = "built"
                   => (e \in Entries(hosts') <=> e \in Entries(hosts))
         /\ \A e \in Entries(hosts') : e \in Entries(hosts) \/ e \in Host
  <1>0. (\E S : hosts \in Seq(S)) /\ DistinctMACs(hosts)
    BY DEF IInv, TypeInv
  <1>1. CASE OperatorAdds
    <2>1. PICK mac \in OperatorMACs, ip \in StaticIPs, named \in BOOLEAN :
               hosts' = Append(hosts, [mac |-> mac, ip |-> ip, named |-> named])
      BY <1>1, Zenon DEF OperatorAdds
    <2> DEFINE e == [mac |-> mac, ip |-> ip, named |-> named]
    <2>2. e \in Host /\ e.mac = mac
      BY ReservationsAssumption DEF Host, MACs, OperatorMACs
    <2>3. hosts' = Append(hosts, e)
      BY <2>1
    <2>4. mac \in Machines => phase[mac] # "built"
      BY ReservationsAssumption DEF OperatorMACs
    <2> HIDE DEF e
    <2>5. Entries(hosts') = Entries(hosts) \cup {e}
      BY <1>0, <2>3, AppendEntries
    <2> QED
      BY <2>2, <2>4, <2>5
  <1>2. CASE OperatorRemoves
    <2>1. PICK k \in DOMAIN hosts : /\ hosts[k].mac \in OperatorMACs
                                    /\ hosts' = Without(hosts, k)
      BY <1>2 DEF OperatorRemoves
    <2>2. Entries(hosts') = Entries(hosts) \ {hosts[k]}
      BY <1>0, <2>1, RemoveEntries
    <2> QED
      BY <2>1, <2>2, ReservationsAssumption DEF OperatorMACs
  <1> QED
    BY <1>1, <1>2

-----------------------------------------------------------------------------
(* A machine that is built has its address.  The invariant says in which   *)
(* phase a machine has which plan, and that a planned address is one that  *)
(* docs/host-setup.md names.                                               *)

PlanInv(m) ==
    plan[m] # NoPlan =>
      \/ /\ plan[m].cmd \in {"ADD_LAST", "MODIFY"}
         /\ phase[m] = "building"
         /\ plan[m].ip \in Usable(net)
      \/ plan[m].cmd = "DELETE" /\ phase[m] = "deleting"

Reserved(m) == \E e \in Entries(hosts) : e.mac = m /\ e.ip \in Usable(net)

BuiltInv ==
    /\ TypeOK
    /\ \A m \in Machines : PlanInv(m)
    /\ \A m \in Machines : phase[m] = "built" => Reserved(m)

Phase == {"absent", "building", "built", "deleting"}

\* A step of machine m: what it must show of itself.
LEMMA BuiltStep ==
  ASSUME BuiltInv, NEW m \in Machines, UNCHANGED net,
         \A e : e.mac # m => (e \in Entries(hosts') <=> e \in Entries(hosts)),
         Entries(hosts') \subseteq Host,
         NEW p \in Plan \cup {NoPlan}, plan' = [plan EXCEPT ![m] = p],
         NEW q \in Phase, phase' = [phase EXCEPT ![m] = q],
         fresh' \in [Machines -> BOOLEAN], raced' \in BOOLEAN, calm' \in BOOLEAN,
         PlanInv(m)', q = "built" => Reserved(m)'
  PROVE  BuiltInv'
  <1>1. /\ \A x \in Machines \ {m} : plan'[x] = plan[x] /\ phase'[x] = phase[x]
        /\ phase'[m] = q
        /\ plan' \in [Machines -> Plan \cup {NoPlan}]
        /\ phase' \in [Machines -> Phase]
    BY DEF BuiltInv, TypeOK, Phase
  <1>2. TypeOK'
    BY <1>1 DEF BuiltInv, TypeOK, Entries, Phase
  <1>3. ASSUME NEW x \in Machines, x # m
        PROVE  PlanInv(x)' /\ (phase'[x] = "built" => Reserved(x)')
    <2>1. PlanInv(x)'
      BY <1>1, <1>3 DEF BuiltInv, PlanInv
    <2>2. ASSUME phase'[x] = "built" PROVE Reserved(x)'
      <3>1. PICK e \in Entries(hosts) : e.mac = x /\ e.ip \in Usable(net)
        BY <1>1, <1>3, <2>2 DEF BuiltInv, Reserved
      <3>2. e \in Entries(hosts')
        BY <1>3, <3>1
      <3> QED
        BY <3>1, <3>2 DEF Reserved, Entries
    <2> QED
      BY <2>1, <2>2
  <1> QED
    BY <1>1, <1>2, <1>3 DEF BuiltInv

\* A decision leaves the entries; what it plans fits the phase.
LEMMA DecideBuilt ==
  ASSUME BuiltInv, NEW m \in Machines, NEW p \in Plan \cup {NoPlan},
         NEW next \in Phase, Decide(m, p, next),
         p # NoPlan => \/ /\ p.cmd \in {"ADD_LAST", "MODIFY"}
                          /\ phase[m] = "building"
                          /\ p.ip \in Usable(net)
                       \/ p.cmd = "DELETE" /\ phase[m] = "deleting",
         p = NoPlan /\ next = "built" => Reserved(m)
  PROVE  BuiltInv'
  <1> DEFINE q == IF p = NoPlan THEN next ELSE phase[m]
  <1>1. /\ plan' = [plan EXCEPT ![m] = p]
        /\ phase' = [phase EXCEPT ![m] = q]
        /\ UNCHANGED <<net, hosts, raced, calm>>
    BY DEF Decide
  <1>2. /\ fresh' \in [Machines -> BOOLEAN]
        /\ raced' \in BOOLEAN /\ calm' \in BOOLEAN
        /\ q \in Phase
    BY <1>1 DEF Decide, BuiltInv, TypeOK, Phase
  <1>3. plan'[m] = p /\ phase'[m] = q
    BY <1>1 DEF BuiltInv, TypeOK
  <1>4. PlanInv(m)'
    BY <1>1, <1>3 DEF PlanInv
  <1>5. q = "built" => Reserved(m)'
    BY <1>1 DEF Reserved, Entries
  <1>6. Entries(hosts') = Entries(hosts) /\ Entries(hosts) \subseteq Host
    BY <1>1 DEF Entries, BuiltInv, TypeOK
  <1> HIDE DEF q
  <1> QED
    BY <1>1, <1>2, <1>4, <1>5, <1>6, BuiltStep, Zenon

LEMMA reserveBuilt ==
  ASSUME BuiltInv, NEW m \in Machines, reserveMachineIP(m)
  PROVE  BuiltInv'
  <1>1. PICK ip \in allocateMachineIPIn(hosts, m) :
          Decide(m, planHostUpdate(hosts, m, ip), "built")
    BY DEF reserveMachineIP
  <1>2. net \in Networks /\ phase[m] = "building"
    BY DEF BuiltInv, TypeOK, reserveMachineIP
  <1>3. ip \in Usable(net) /\ ip \in Addresses
    BY <1>1, <1>2, AllocationFindsFree, UsableInSubnet
  <1> DEFINE p == planHostUpdate(hosts, m, ip)
  <1>4. \/ p = NoPlan /\ \E i \in DOMAIN hosts : hosts[i].mac = m /\ hosts[i].ip = ip
        \/ p = [cmd |-> "ADD_LAST", ip |-> ip]
        \/ p = [cmd |-> "MODIFY", ip |-> ip]
    BY Zenon DEF planHostUpdate, hostEntryInNetwork
  <1>5. Decide(m, p, "built")
    BY <1>1
  <1> HIDE DEF p
  <1>6. CASE p = NoPlan
    <2>1. \E i \in DOMAIN hosts : hosts[i].mac = m /\ hosts[i].ip = ip
      BY <1>4, <1>6, ReservationsAssumption, <1>3 DEF Plan
    <2>2. Reserved(m)
      BY <1>3, <2>1 DEF Reserved, Entries
    <2> QED
      BY <1>5, <1>6, <2>2, DecideBuilt DEF Phase
  <1>7. CASE p # NoPlan
    <2>1. p \in Plan /\ p.cmd \in {"ADD_LAST", "MODIFY"} /\ p.ip = ip
      BY <1>3, <1>4, <1>7 DEF Plan
    <2> QED
      BY <1>2, <1>3, <1>5, <1>7, <2>1, DecideBuilt DEF Phase
  <1> QED
    BY <1>6, <1>7

LEMMA releaseBuilt ==
  ASSUME BuiltInv, NEW m \in Machines, releaseMachineIP(m)
  PROVE  BuiltInv'
  <1>0. phase[m] = "deleting"
    BY DEF releaseMachineIP
  <1>1. CASE Decide(m, NoPlan, "absent")
    BY <1>1, DecideBuilt DEF Phase
  <1>2. ASSUME NEW i \in hostEntryInNetwork(hosts, m),
               Decide(m, [cmd |-> "DELETE", ip |-> hosts[i].ip], "absent")
        PROVE  BuiltInv'
    <2> DEFINE p == [cmd |-> "DELETE", ip |-> hosts[i].ip]
    <2>1. hosts[i] \in Host
      BY DEF hostEntryInNetwork, BuiltInv, TypeOK
    <2>2. p \in Plan /\ p.cmd = "DELETE"
      BY <2>1 DEF Plan, Host
    <2>3. Decide(m, p, "absent")
      BY <1>2
    <2> HIDE DEF p
    <2> QED
      BY <1>0, <2>2, <2>3, DecideBuilt DEF Phase
  <1> QED
    BY <1>1, <1>2, Zenon DEF releaseMachineIP

LEMMA UpdateBuilt ==
  ASSUME IInv, BuiltInv, NEW m \in Machines, Update(m)
  PROVE  BuiltInv'
  <1> DEFINE p == plan[m]
             new == machineHostXML(m, p.ip)
             done == IF p.cmd = "DELETE" THEN "absent" ELSE "built"
  <1>1. /\ p # NoPlan /\ p \in Plan /\ PlanInv(m)
        /\ UNCHANGED <<net, calm>>
        /\ plan' = [plan EXCEPT ![m] = NoPlan]
        /\ raced' = (raced \/ (p.cmd = "MODIFY" /\ ~fresh[m]))
        /\ fresh' = [x \in Machines |-> x = m \/ plan[x] = NoPlan]
        /\ phase' = [phase EXCEPT ![m] = done] \/ UNCHANGED phase
    BY Zenon DEF Update, HostsChange, BuiltInv, TypeOK
  <1>2. /\ fresh' \in [Machines -> BOOLEAN]
        /\ raced' \in BOOLEAN /\ calm' \in BOOLEAN
    BY <1>1, Zenon DEF BuiltInv, TypeOK
  <1>3. new \in Host /\ new.mac = m /\ new.ip = p.ip
    BY <1>1 DEF Plan, Host, MACs, machineHostXML
  <1>4. /\ \A e : e.mac # m => (e \in Entries(hosts') <=> e \in Entries(hosts))
        /\ \A e \in Entries(hosts') : e \in Entries(hosts) \/ e = new
        /\ p.cmd # "DELETE" => new \in Entries(hosts')
    BY UpdateEntries, Zenon
  <1>5. Entries(hosts) \subseteq Host
    BY DEF BuiltInv, TypeOK, Entries
  <1> HIDE DEF new
  <1>6. Entries(hosts') \subseteq Host
    BY <1>3, <1>4, <1>5
  <1>7. plan'[m] = NoPlan
    BY <1>1 DEF BuiltInv, TypeOK
  <1>8. PlanInv(m)'
    BY <1>7 DEF PlanInv
  <1>9. p.cmd # "DELETE" => Reserved(m)'
    BY <1>1, <1>3, <1>4 DEF PlanInv, Reserved, Entries
  <1>10. PICK q \in Phase : /\ phase' = [phase EXCEPT ![m] = q]
                            /\ q = "built" => p.cmd # "DELETE"
    <2>1. CASE phase' = [phase EXCEPT ![m] = done]
      BY <2>1, Zenon DEF Phase
    <2>2. CASE UNCHANGED phase
      <3>1. phase \in [Machines -> Phase] /\ phase[m] # "built"
        BY <1>1 DEF BuiltInv, TypeOK, Phase, PlanInv
      <3>2. phase' = [phase EXCEPT ![m] = phase[m]]
        BY <2>2, <3>1
      <3> QED
        BY <3>1, <3>2, Zenon
    <2> QED
      BY <1>1, <2>1, <2>2
  <1> HIDE DEF p
  <1> QED
    BY <1>1, <1>2, <1>4, <1>6, <1>8, <1>9, <1>10, BuiltStep, Zenon

\* A step of one machine that changes no entry and leaves it without a plan.
LEMMA IdleBuilt ==
  ASSUME BuiltInv, NEW m \in Machines, UNCHANGED <<net, hosts, raced, calm>>,
         fresh' \in [Machines -> BOOLEAN], plan' = [plan EXCEPT ![m] = NoPlan],
         NEW q \in Phase \ {"built"}, phase' = [phase EXCEPT ![m] = q]
  PROVE  BuiltInv'
  <1>1. plan'[m] = NoPlan
    BY DEF BuiltInv, TypeOK
  <1>2. PlanInv(m)'
    BY <1>1 DEF PlanInv
  <1>3. Entries(hosts') = Entries(hosts) /\ Entries(hosts) \subseteq Host
    BY DEF Entries, BuiltInv, TypeOK
  <1>4. raced' \in BOOLEAN /\ calm' \in BOOLEAN
    BY DEF BuiltInv, TypeOK
  <1> QED
    BY <1>2, <1>3, <1>4, BuiltStep, Zenon

LEMMA CrashBuilt ==
  ASSUME BuiltInv, NEW m \in Machines, Crash(m)
  PROVE  BuiltInv'
  <1>1. /\ UNCHANGED <<net, hosts, phase, raced, calm>>
        /\ plan' = [plan EXCEPT ![m] = NoPlan]
        /\ fresh' = [fresh EXCEPT ![m] = TRUE]
        /\ plan[m] # NoPlan /\ PlanInv(m)
    BY DEF Crash, BuiltInv
  <1>2. phase[m] \in Phase \ {"built"} /\ phase' = [phase EXCEPT ![m] = phase[m]]
    BY <1>1 DEF BuiltInv, TypeOK, Phase, PlanInv
  <1>3. fresh' \in [Machines -> BOOLEAN]
    BY <1>1 DEF BuiltInv, TypeOK
  <1> QED
    BY <1>1, <1>2, <1>3, IdleBuilt, Zenon

LEMMA BecomeBuilt ==
  ASSUME BuiltInv, NEW m \in Machines, CreateMachine(m) \/ DeleteMachine(m)
  PROVE  BuiltInv'
  <1>1. PICK q \in {"building", "deleting"} : phase' = [phase EXCEPT ![m] = q]
    BY DEF CreateMachine, DeleteMachine, Become
  <1>2. UNCHANGED <<net, hosts, plan, fresh, raced, calm>> /\ plan[m] = NoPlan
    BY DEF CreateMachine, DeleteMachine, Become
  <1>3. fresh' \in [Machines -> BOOLEAN] /\ plan' = [plan EXCEPT ![m] = NoPlan]
    BY <1>2 DEF BuiltInv, TypeOK
  <1> QED
    BY <1>1, <1>2, <1>3, IdleBuilt, Zenon DEF Phase

LEMMA OperatorBuilt ==
  ASSUME IInv, BuiltInv, OperatorAdds \/ OperatorRemoves
  PROVE  BuiltInv'
  <1>1. /\ UNCHANGED <<net, phase, plan, raced, calm>>
        /\ fresh' = [x \in Machines |-> plan[x] = NoPlan]
    BY DEF OperatorAdds, OperatorRemoves
  <1>2. net \in Networks /\ Entries(hosts) \subseteq Host
    BY DEF BuiltInv, TypeOK, Entries
  <1>3. /\ \A e : /\ e.mac \in Machines
                  /\ phase[e.mac] = "built"
                  => (e \in Entries(hosts') <=> e \in Entries(hosts))
        /\ Entries(hosts') \subseteq Host
    BY <1>2, OperatorEntries
  <1>4. TypeOK'
    <2>1. fresh' \in [Machines -> BOOLEAN]
      BY <1>1, Zenon
    <2>2. \A i \in DOMAIN hosts' : hosts'[i] \in Host
      BY <1>3 DEF Entries
    <2> QED
      BY <1>1, <2>1, <2>2 DEF BuiltInv, TypeOK
  <1>5. ASSUME NEW m \in Machines PROVE PlanInv(m)'
    BY <1>1 DEF BuiltInv, PlanInv
  <1>6. ASSUME NEW m \in Machines, phase'[m] = "built" PROVE Reserved(m)'
    <2>1. phase[m] = "built"
      BY <1>1, <1>6
    <2>2. PICK e \in Entries(hosts) : e.mac = m /\ e.ip \in Usable(net)
      BY <2>1 DEF BuiltInv, Reserved
    <2>3. e \in Entries(hosts')
      BY <1>3, <2>1, <2>2
    <2> QED
      BY <1>1, <2>2, <2>3 DEF Reserved, Entries
  <1> QED
    BY <1>4, <1>5, <1>6 DEF BuiltInv

LEMMA BuiltInit == Init => BuiltInv
  <1> SUFFICES ASSUME Init PROVE BuiltInv
    OBVIOUS
  <1>1. /\ net \in Networks /\ DOMAIN hosts = {}
        /\ raced = FALSE /\ calm = FALSE
        /\ phase = [m \in Machines |-> "absent"]
        /\ plan = [m \in Machines |-> NoPlan]
        /\ fresh = [m \in Machines |-> TRUE]
    BY DEF Init
  <1>2. TypeOK
    BY <1>1, Zenon DEF TypeOK
  <1>3. \A m \in Machines : PlanInv(m) /\ phase[m] # "built"
    BY <1>1 DEF PlanInv
  <1> QED
    BY <1>2, <1>3 DEF BuiltInv

LEMMA BuiltNext == IInv /\ BuiltInv /\ [Next]_vars => BuiltInv'
  <1> SUFFICES ASSUME IInv, BuiltInv, [Next]_vars PROVE BuiltInv'
    OBVIOUS
  <1>1. ASSUME NEW m \in Machines, Step(m) PROVE BuiltInv'
    BY <1>1, reserveBuilt, releaseBuilt, UpdateBuilt, CrashBuilt DEF Step
  <1>2. ASSUME NEW m \in Machines, CreateMachine(m) \/ DeleteMachine(m)
        PROVE  BuiltInv'
    BY <1>2, BecomeBuilt
  <1>3. CASE OperatorAdds \/ OperatorRemoves
    BY <1>3, OperatorBuilt
  <1>4. CASE Calm \/ UNCHANGED vars
    <2>1. UNCHANGED <<net, hosts, phase, plan, fresh, raced>> /\ calm' \in BOOLEAN
      BY <1>4, Zenon DEF Calm, vars, BuiltInv, TypeOK
    <2>2. TypeOK'
      BY <2>1 DEF BuiltInv, TypeOK
    <2>3. \A m \in Machines : /\ PlanInv(m)'
                              /\ phase'[m] = "built" => Reserved(m)'
      BY <2>1 DEF BuiltInv, PlanInv, Reserved, Entries
    <2> QED
      BY <2>2, <2>3 DEF BuiltInv
  <1> QED
    BY <1>1, <1>2, <1>3, <1>4 DEF Next

LEMMA BuiltInvariance == Spec => [](IInv /\ BuiltInv)
  BY InvInit, InvStep, BuiltInit, BuiltNext, PTL DEF Spec

\* Every variable keeps its type: at every width of addresses and in every
\* network that libvirt accepts, the arithmetic of subnetTailCandidates brings
\* no number that is not an address.
THEOREM TypeCorrect == Spec => []TypeOK
  <1>1. BuiltInv => TypeOK
    BY DEF BuiltInv
  <1> QED
    BY <1>1, BuiltInvariance, PTL

\* reserveMachineIP: a machine that is built has an entry with an address that
\* docs/host-setup.md names, with any number of machines, and after whatever
\* races, lost answers and crashes; the operator may remove the entry of a
\* machine at any time before it is built, and not after.
THEOREM BuiltAlwaysReserved == Spec => []BuiltIsReserved
  <1>1. BuiltInv => BuiltIsReserved
    BY DEF BuiltInv, BuiltIsReserved, Reserved, Entries
  <1> QED
    BY <1>1, BuiltInvariance, PTL

-----------------------------------------------------------------------------
(* What follows from the two invariants.                                   *)

\* Entries of a machine that stay bring addresses that stay.
LEMMA SameAddresses ==
  ASSUME NEW m, \A e : e.mac = m => (e \in Entries(hosts') <=> e \in Entries(hosts))
  PROVE  AddressesOf(m)' = AddressesOf(m)
  <1>1. ASSUME NEW ip \in AddressesOf(m) PROVE ip \in AddressesOf(m)'
    <2>1. PICK i \in DOMAIN hosts : hosts[i].mac = m /\ hosts[i].ip = ip
      BY DEF AddressesOf
    <2>2. hosts[i] \in Entries(hosts')
      BY <2>1 DEF Entries
    <2> QED
      BY <2>1, <2>2 DEF Entries, AddressesOf
  <1>2. ASSUME NEW ip \in AddressesOf(m)' PROVE ip \in AddressesOf(m)
    <2>1. PICK i \in DOMAIN hosts' : hosts'[i].mac = m /\ hosts'[i].ip = ip
      BY <1>2 DEF AddressesOf
    <2>2. hosts'[i] \in Entries(hosts)
      BY <2>1 DEF Entries
    <2> QED
      BY <2>1, <2>2 DEF Entries, AddressesOf
  <1> QED
    BY <1>1, <1>2

\* Network.Update: no step of another machine changes the address of a machine
\* that is built, although none of them looks at the phase of that machine.
\* That the operator changes it neither is assumed (OperatorMACs).
THEOREM AddressAlwaysStable == Spec => AddressStable
  <1> DEFINE Stable(m) == phase[m] = "built" /\ phase'[m] = "built" =>
                            AddressesOf(m)' = AddressesOf(m)
  <1>1. ASSUME IInv, BuiltInv, [Next]_vars, NEW m \in Machines
        PROVE  Stable(m)
    <2>1. SUFFICES ASSUME phase[m] = "built", hosts' # hosts
                   PROVE  \A e : e.mac = m =>
                            (e \in Entries(hosts') <=> e \in Entries(hosts))
      <3>1. UNCHANGED hosts => AddressesOf(m)' = AddressesOf(m)
        BY DEF AddressesOf
      <3> QED
        BY <2>1, <3>1, SameAddresses
    <2>2. ASSUME NEW x \in Machines, Update(x)
          PROVE  \A e : e.mac = m => (e \in Entries(hosts') <=> e \in Entries(hosts))
      <3>1. x # m
        BY <1>1, <2>1, <2>2 DEF Update, BuiltInv, PlanInv
      <3>2. \A e : e.mac # x => (e \in Entries(hosts') <=> e \in Entries(hosts))
        BY <1>1, <2>2, UpdateEntries, Zenon
      <3> QED
        BY <3>1, <3>2
    <2>3. CASE OperatorAdds \/ OperatorRemoves
      <3>1. \A e : /\ e.mac \in Machines
                   /\ phase[e.mac] = "built"
                   => (e \in Entries(hosts') <=> e \in Entries(hosts))
        BY <1>1, <2>3, OperatorEntries DEF BuiltInv, TypeOK
      <3> QED
        BY <1>1, <2>1, <3>1
    <2>4. ASSUME NEW x \in Machines,
                 \/ reserveMachineIP(x) \/ releaseMachineIP(x) \/ Crash(x)
                 \/ CreateMachine(x) \/ DeleteMachine(x)
          PROVE  FALSE
      BY <2>1, <2>4 DEF reserveMachineIP, releaseMachineIP, Decide, Crash,
                        CreateMachine, DeleteMachine, Become
    <2>5. CASE Calm \/ UNCHANGED vars
      BY <2>1, <2>5 DEF Calm, vars
    <2> QED
      BY <1>1, <2>2, <2>3, <2>4, <2>5 DEF Next, Step
  <1>2. IInv /\ BuiltInv /\ [Next]_vars => [\A m \in Machines : Stable(m)]_vars
    BY <1>1
  <1> QED
    BY <1>2, BuiltInvariance, PTL DEF Spec, AddressStable

\* allocateMachineIPIn: on a network that the code accepts, and as long as there
\* are as many addresses as machines and hosts, it finds one, at every width,
\* with every hash and whichever addresses the others have: every host has one
\* at most.
THEOREM AddressAlwaysLeft == Spec => []NeverExhausted
  <1>1. ASSUME IInv, BuiltInv, Supported(net), Enough, NEW m \in Machines
        PROVE  allocateMachineIPIn(hosts, m) # {}
    <2>1. /\ net \in Networks /\ \E S : hosts \in Seq(S)
          /\ DistinctMACs(hosts) /\ \A i \in DOMAIN hosts : hosts[i] \in Host
      BY <1>1 DEF IInv, TypeInv, BuiltInv, TypeOK
    <2>2. Cardinality(Usable(net)) >= Cardinality(MACs)
      BY <1>1 DEF Enough
    <2>3. \E ip \in Usable(net) : Free(hostIPSet(hosts), m, ip)
      BY <2>1, <2>2, OneIsFree, FiniteAssumption
    <2> QED
      BY <1>1, <2>1, <2>3, AllocationFindsFree
  <1>2. IInv /\ BuiltInv => NeverExhausted
    BY <1>1 DEF NeverExhausted
  <1> QED
    BY <1>2, BuiltInvariance, PTL
=============================================================================

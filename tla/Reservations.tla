---------------------------- MODULE Reservations ----------------------------
(***************************************************************************)
(* The static DHCP host entries of one libvirt network: how CreateMachine  *)
(* reserves an address for a machine and DeleteMachine releases it.        *)
(*                                                                         *)
(* Both read the network's XML, decide, and send one update.  Each machine *)
(* is a process of its own, as when each belongs to another manager; the   *)
(* machines of one manager take turns, which is some of these behaviours.  *)
(* Between the read and the update, other machines and the operator of the *)
(* host may change the entries, the update may fail before or after it     *)
(* took effect, and the manager may crash.                                 *)
(*                                                                         *)
(* Addresses are numbers of Width bits (32 in the code).  A machine stands *)
(* for its domain name and for the MAC derived from it.  The network has   *)
(* one <ip>: of several, the code reads the entries of all and the subnet  *)
(* of the first with the family it looks for, and updates that of index 0. *)
(***************************************************************************)
EXTENDS Integers, Sequences, FiniteSets

CONSTANTS
    Width,      \* bits of an address
    BlockSize,  \* machineReservationBlockSize
    Machines,   \* domain names, and their MACs
    Others,     \* MACs of hosts that the operator manages
    Hash,       \* hashDomainName of each machine
    Networks,   \* the networks to look at
    StaticIPs,  \* bound: the addresses that the operator gives out
    NoRange,    \* the network has no DHCP range
    NoPlan      \* no update is planned

VARIABLES
    net,        \* the network's <ip>, which does not change
    hosts,      \* its DHCP host entries, in order
    phase,      \* of each machine: absent, building, built or deleting
    plan,       \* of each machine: the update that it is about to send
    fresh,      \* of each machine: hosts is as it was when the plan was made
    raced,      \* a MODIFY was sent on entries that had changed since
    calm        \* no fault or outside change happens any more

vars == <<net, hosts, phase, plan, fresh, raced, calm>>

Addresses == 0..(2^Width - 1)
MACs == Machines \cup Others

\* The <ip> of a network: its family attribute, which may be missing; whether
\* its address is one of IPv4; the host's own address; the length of its mask,
\* and whether that is written as netmask= (and not as prefix=); and the first
\* DHCP range.
Network == [family: {"inet", "ipv4", "ipv6", "none"}, v4: BOOLEAN,
            address: Addresses, prefix: 0..Width, netmask: BOOLEAN,
            range: (Addresses \X Addresses) \cup {NoRange}]

\* A DHCP host entry, and whether it has the machine's domain name.
Host == [mac: MACs, ip: Addresses, named: BOOLEAN]
Plan == [cmd: {"ADD_LAST", "MODIFY", "DELETE"}, ip: Addresses]

-----------------------------------------------------------------------------
(* The subnet and the addresses that may be reserved.                      *)

SubnetSize(n) == 2^(Width - n.prefix)

\* The error: the address or the netmask is none of IPv4.  A mask that is
\* written as prefix= is a missing netmask.
parseSubnetFails(n) == ~n.v4 \/ ~n.netmask

\* Otherwise, the number of the network address.
parseSubnet(n) == n.address - (n.address % SubnetSize(n))

\* What libvirt accepts: a range lies between the network address and the
\* broadcast address.
Valid(n) ==
    \/ n.range = NoRange
    \/ /\ parseSubnet(n) < n.range[1]
       /\ n.range[1] <= n.range[2]
       /\ n.range[2] < parseSubnet(n) + SubnetSize(n) - 1

ASSUME ReservationsAssumption ==
    /\ Width \in Nat \ {0} /\ BlockSize \in Nat \ {0}
    /\ Machines \cap Others = {}
    /\ Hash \in [Machines -> Nat]
    /\ NoPlan \notin Plan
    /\ NoRange \notin Addresses \X Addresses
    /\ Networks \subseteq Network /\ StaticIPs \subseteq Addresses
    /\ \A n \in Networks : Valid(n)

\* Only NeverExhausted needs it, which counts machines and addresses.
ASSUME FiniteAssumption == IsFiniteSet(MACs)

\* The addresses first, first + 1, ..., last.
Block(first, last) == [i \in 1..(last - first + 1) |-> first + i - 1]

rangeCandidates(start, end) == Block(start, end)

\* Mutant of subnetTailCandidates: only one address is excluded.
subnetTailCandidatesTooFar(n) ==
    LET hostCount   == SubnetSize(n) % 2^Width
        usableCount == hostCount - 1
        size        == IF BlockSize < usableCount THEN BlockSize
                                                  ELSE usableCount
        lastHost    == parseSubnet(n) + usableCount + 1
    IN  IF hostCount <= 2 THEN <<>>
        ELSE Block(lastHost - (size - 1), lastHost)

\* hostMask + 1 is computed in the width of an address: it is 0 for /0.  The
\* error for a subnet without usable addresses is the empty block.
subnetTailCandidates(n) ==
    LET hostCount   == SubnetSize(n) % 2^Width
        usableCount == hostCount - 2
        size        == IF BlockSize < usableCount THEN BlockSize
                                                  ELSE usableCount
        lastHost    == (parseSubnet(n) + usableCount) % 2^Width
    IN  IF hostCount <= 2 THEN <<>>
        ELSE Block(lastHost - (size - 1), lastHost)

\* The errors are that there is no candidate.
allocationCandidates(n) ==
    IF n.family # "inet" \/ parseSubnetFails(n) THEN <<>>
    ELSE IF n.range # NoRange THEN rangeCandidates(n.range[1], n.range[2])
    ELSE subnetTailCandidates(n)

-----------------------------------------------------------------------------
(* What reserveMachineIP and releaseMachineIP decide from the XML.         *)

\* Where the first entry for a MAC is; the set is empty if there is none.
hostEntryInNetwork(hs, mac) ==
    {i \in DOMAIN hs : hs[i].mac = mac /\ \A j \in 1..(i - 1) : hs[j].mac # mac}

\* Mutant of hostIPSet: only the first entry is looked at.
hostIPSetFirstOnly(hs) ==
    [ip \in {hs[i].ip : i \in DOMAIN hs \cap {1}} |-> hs[1].mac]

\* The MAC of each reserved address; the last entry for it wins.
hostIPSet(hs) ==
    [ip \in {hs[i].ip : i \in DOMAIN hs} |->
       LET last == CHOOSE i \in DOMAIN hs :
                     /\ hs[i].ip = ip
                     /\ \A j \in DOMAIN hs : hs[j].ip = ip => j <= i
       IN  hs[last].mac]

\* The i-th candidate of machine m, from 0, starting at its hash.
Candidate(cs, m, i) == cs[(((Hash[m] % Len(cs)) + i) % Len(cs)) + 1]

Free(taken, m, ip) == ip \in DOMAIN taken => taken[ip] = m

\* Mutant of allocateMachineIPIn: only the first candidate is tried.
allocateMachineIPInNoRetry(hs, m) ==
    LET cs == allocationCandidates(net)
    IN  {Candidate(cs, m, i) : i \in
           {i \in 0..(Len(cs) - 1) : i = 0
              /\ Free(hostIPSet(hs), m, Candidate(cs, m, i))}}

\* The first candidate that is free or has the machine's own MAC; the error is
\* that there is none.
allocateMachineIPIn(hs, m) ==
    LET cs      == allocationCandidates(net)
        taken   == hostIPSet(hs)
        free(i) == Free(taken, m, Candidate(cs, m, i))
    IN  {Candidate(cs, m, i) : i \in
           {i \in 0..(Len(cs) - 1) : free(i) /\ \A j \in 0..(i - 1) : ~free(j)}}

\* Mutant of planHostUpdate: any entry for the MAC will do.
planHostUpdateKeepsEntry(hs, m, ip) ==
    IF hostEntryInNetwork(hs, m) # {} THEN NoPlan
    ELSE [cmd |-> "ADD_LAST", ip |-> ip]

\* The update that binds the machine to ip: none if it is bound already.
planHostUpdate(hs, m, ip) ==
    LET existing == hostEntryInNetwork(hs, m)
    IN  IF existing = {} THEN [cmd |-> "ADD_LAST", ip |-> ip]
        ELSE IF \E i \in existing : hs[i].ip = ip THEN NoPlan
        ELSE [cmd |-> "MODIFY", ip |-> ip]

-----------------------------------------------------------------------------
(* reserveMachineIP and releaseMachineIP, up to the update.                *)

\* networkXML fails, or the update is lost with the manager: the call is made
\* again from the start by a later reconcile, which is a stuttering step or
\* the step Crash.

Decide(m, p, next) ==
    /\ plan' = [plan EXCEPT ![m] = p]
    /\ fresh' = [fresh EXCEPT ![m] = TRUE]
    /\ phase' = [phase EXCEPT ![m] = IF p = NoPlan THEN next ELSE @]
    /\ UNCHANGED <<net, hosts, raced, calm>>

\* Mutant of reserveMachineIP: also called while the machine is built.
reserveMachineIPAgain(m) ==
    /\ phase[m] \in {"building", "built"}
    /\ plan[m] = NoPlan
    /\ \E ip \in allocateMachineIPIn(hosts, m) :
          Decide(m, planHostUpdate(hosts, m, ip), "built")

reserveMachineIP(m) ==
    /\ phase[m] = "building"
    /\ plan[m] = NoPlan
    /\ \E ip \in allocateMachineIPIn(hosts, m) :
          Decide(m, planHostUpdate(hosts, m, ip), "built")

releaseMachineIP(m) ==
    /\ phase[m] = "deleting"
    /\ plan[m] = NoPlan
    /\ \/ hostEntryInNetwork(hosts, m) = {} /\ Decide(m, NoPlan, "absent")
       \/ \E i \in hostEntryInNetwork(hosts, m) :
             Decide(m, [cmd |-> "DELETE", ip |-> hosts[i].ip], "absent")

-----------------------------------------------------------------------------
(* Network.Update.  libvirt refuses an ADD for a MAC or an address that is *)
(* in use, a MODIFY for a MAC without an entry, and a DELETE unless an     *)
(* entry has the MAC, the address and the name that were sent.  It does    *)
(* not compare the address of a MODIFY with the other entries.             *)

\* The entry that is sent.
machineHostXML(m, ip) == [mac |-> m, ip |-> ip, named |-> TRUE]

Refused(m, p) ==
    \/ /\ p.cmd = "ADD_LAST"
       /\ \E i \in DOMAIN hosts : hosts[i].mac = m \/ hosts[i].ip = p.ip
    \/ /\ p.cmd = "MODIFY"
       /\ hostEntryInNetwork(hosts, m) = {}
    \/ /\ p.cmd = "DELETE"
       /\ \A i \in DOMAIN hosts : hosts[i] # machineHostXML(m, p.ip)

\* The entries but the i-th.
Without(hs, i) == SubSeq(hs, 1, i - 1) \o SubSeq(hs, i + 1, Len(hs))

Updated(m, p) ==
    LET new == machineHostXML(m, p.ip)
    IN  CASE p.cmd = "ADD_LAST" -> Append(hosts, new)
          [] p.cmd = "MODIFY"   -> [i \in DOMAIN hosts |->
                                      IF hosts[i].mac = m THEN new ELSE hosts[i]]
          [] p.cmd = "DELETE"   -> Without(hosts, CHOOSE i \in DOMAIN hosts :
                                                     hosts[i] = new)

\* The entries change: every other plan is from older ones.
HostsChange(m) == fresh' = [x \in Machines |-> x = m \/ plan[x] = NoPlan]

\* The update succeeds, and so does the call, unless the answer is lost.
Update(m) ==
    /\ plan[m] # NoPlan
    /\ ~Refused(m, plan[m])
    /\ hosts' = Updated(m, plan[m])
    /\ raced' = (raced \/ (plan[m].cmd = "MODIFY" /\ ~fresh[m]))
    /\ plan' = [plan EXCEPT ![m] = NoPlan]
    /\ HostsChange(m)
    /\ \/ phase' = [phase EXCEPT ![m] =
                      IF plan[m].cmd = "DELETE" THEN "absent" ELSE "built"]
       \/ ~calm /\ UNCHANGED phase
    /\ UNCHANGED <<net, calm>>

\* The update is refused or fails, or the manager dies before it.
Crash(m) ==
    /\ plan[m] # NoPlan
    /\ Refused(m, plan[m]) \/ ~calm
    /\ plan' = [plan EXCEPT ![m] = NoPlan]
    /\ fresh' = [fresh EXCEPT ![m] = TRUE]
    /\ UNCHANGED <<net, hosts, phase, raced, calm>>

-----------------------------------------------------------------------------
(* The rest of the machine's life, and the operator.                       *)

Become(m, from, to) ==
    /\ ~calm
    /\ plan[m] = NoPlan
    /\ phase[m] \in from
    /\ phase' = [phase EXCEPT ![m] = to]
    /\ UNCHANGED <<net, hosts, plan, fresh, raced, calm>>

\* CreateMachine is called, at first or again because a call after
\* reserveMachineIP failed.
CreateMachine(m) == Become(m, {"absent", "built"}, "building")

DeleteMachine(m) == Become(m, {"building", "built"}, "deleting")

\* The operator edits the entries of hosts, and of machines that are not built;
\* that the entry of a built machine is left alone is assumed.
OperatorMACs == Others \cup {m \in Machines : phase[m] # "built"}

\* A new entry, with the domain name of the machine or without it.
OperatorAdds ==
    /\ ~calm
    /\ \E mac \in OperatorMACs, named \in BOOLEAN,
          ip \in {x \in StaticIPs : x - (x % SubnetSize(net)) = parseSubnet(net)} :
          /\ named => mac \in Machines
          /\ \A i \in DOMAIN hosts : hosts[i].mac # mac /\ hosts[i].ip # ip
          /\ hosts' = Append(hosts, [mac |-> mac, ip |-> ip, named |-> named])
    /\ fresh' = [x \in Machines |-> plan[x] = NoPlan]
    /\ UNCHANGED <<net, phase, plan, raced, calm>>

OperatorRemoves ==
    /\ ~calm
    /\ \E i \in DOMAIN hosts :
          /\ hosts[i].mac \in OperatorMACs
          /\ hosts' = Without(hosts, i)
    /\ fresh' = [x \in Machines |-> plan[x] = NoPlan]
    /\ UNCHANGED <<net, phase, plan, raced, calm>>

Calm ==
    /\ ~calm
    /\ calm' = TRUE
    /\ UNCHANGED <<net, hosts, phase, plan, fresh, raced>>

Init ==
    /\ net \in Networks
    /\ hosts = <<>>
    /\ phase = [m \in Machines |-> "absent"]
    /\ plan = [m \in Machines |-> NoPlan]
    /\ fresh = [m \in Machines |-> TRUE]
    /\ raced = FALSE /\ calm = FALSE

Step(m) ==
    reserveMachineIP(m) \/ releaseMachineIP(m) \/ Update(m) \/ Crash(m)

Next ==
    \/ \E m \in Machines : Step(m) \/ CreateMachine(m) \/ DeleteMachine(m)
    \/ OperatorAdds \/ OperatorRemoves \/ Calm

Spec == Init /\ [][Next]_vars

\* Every manager keeps running and retries its reconciles.
FairSpec == Spec /\ \A m \in Machines : WF_vars(Step(m))

-----------------------------------------------------------------------------
(* Properties.                                                             *)

\* Every variable has its type: no address leaves the width of the code.
TypeOK ==
    /\ net \in Networks
    /\ \A i \in DOMAIN hosts : hosts[i] \in Host
    /\ phase \in [Machines -> {"absent", "building", "built", "deleting"}]
    /\ plan \in [Machines -> Plan \cup {NoPlan}]
    /\ fresh \in [Machines -> BOOLEAN]
    /\ raced \in BOOLEAN /\ calm \in BOOLEAN

\* allocateMachineIPIn and reserveMachineIP: no address is reserved twice,
\* however reads and updates interleave, but for one case: a MODIFY that was
\* planned from entries that have changed since.
DistinctAddresses ==
    ~raced => \A i, j \in DOMAIN hosts : hosts[i].ip = hosts[j].ip => i = j

\* The addresses that docs/host-setup.md names: the whole DHCP range, or else
\* the last BlockSize addresses of the subnet that a host can have.  (The
\* comment on machineReservationBlockSize says that of a DHCP range, too, only
\* the highest BlockSize addresses are used; the code does not do that.)
Usable(n) ==
    LET network   == parseSubnet(n)
        broadcast == network + SubnetSize(n) - 1
    IN  IF n.range # NoRange THEN n.range[1]..n.range[2]
        ELSE {x \in (network + 1)..(broadcast - 1) : x >= broadcast - BlockSize}

\* reserveMachineIP: once it has succeeded, and until the machine is deleted,
\* the machine has an entry with an address that docs/host-setup.md names,
\* also if its update was retried or there was an entry before, as long as
\* the operator leaves the entry of a built machine alone.
BuiltIsReserved ==
    \A m \in Machines : phase[m] = "built" =>
      \E i \in DOMAIN hosts : hosts[i].mac = m /\ hosts[i].ip \in Usable(net)

AddressesOf(m) == {hosts[i].ip : i \in {j \in DOMAIN hosts : hosts[j].mac = m}}

\* Network.Update: from the success of reserveMachineIP until CreateMachine or
\* DeleteMachine is called again, the machine keeps its address, whatever the
\* other machines send meanwhile, late answers and retries included.  (That the
\* operator leaves its entry alone is assumed.)
AddressStable ==
    [][\A m \in Machines :
         phase[m] = "built" /\ phase'[m] = "built" =>
           AddressesOf(m)' = AddressesOf(m)]_vars

\* The code accepts the network: its family is "inet", its mask is written as
\* netmask=, and its subnet is not the whole address space, which
\* subnetTailCandidates takes for an empty one.
Supported(n) ==
    /\ n.family = "inet" /\ ~parseSubnetFails(n)
    /\ n.prefix # 0 \/ n.range # NoRange

\* There is an address for every machine and every host of the operator.
Enough == Cardinality(Usable(net)) >= Cardinality(MACs)

\* allocateMachineIPIn: on a network that the code accepts, and if there are as
\* many addresses as machines and hosts, no machine is ever told that there is
\* no address left, whichever addresses the others have.
NeverExhausted ==
    Supported(net) /\ Enough =>
      \A m \in Machines : allocateMachineIPIn(hosts, m) # {}

\* No entry of the machine lacks its domain name.
Named(m) == \A i \in DOMAIN hosts : hosts[i].mac = m => hosts[i].named

\* reserveMachineIP and releaseMachineIP are retried: on such a network, every
\* machine gets its address or gives it back, whoever won the races before,
\* unless the operator gave it an entry without its domain name (which
\* releaseMachineIP cannot remove: its DELETE carries the name).
Settles ==
    \A m \in Machines : (calm /\ Supported(net) /\ Enough /\ Named(m))
                         ~> phase[m] \in {"absent", "built"}

\* docs/host-setup.md asks for "A libvirt network with an IPv4 subnet and DHCP,
\* for example the `default` NAT network": on such a network with addresses for
\* all, every machine that is being created gets its address.
MachinesServed ==
    \A m \in Machines :
      (calm /\ net.v4 /\ net.range # NoRange /\ Enough /\ phase[m] = "building")
        ~> phase[m] = "built"
=============================================================================

----------------------------- MODULE PolicySync -----------------------------
(***************************************************************************)
(* Device policies of the control server and what the devices are told of  *)
(* them: PoliciesService, the tree of partition nodes (PartitionsService)  *)
(* with the devices in it (DevicesService.setPartitions), and the push     *)
(* after a device's hello (DeviceGateway.pushEffectiveSettings).           *)
(*                                                                         *)
(* One managed setting stands for all of them: they are resolved           *)
(* separately, in the same way. The queries of one read are one step,      *)
(* transactions are one step, and a command is issued in one step; its     *)
(* delivery is the subject of CommandDelivery.                             *)
(***************************************************************************)
EXTENDS Naturals, FiniteSets

CONSTANTS Devices, Nodes, Policies,
          Rank,           \* order of the ids of policies, which breaks ties
          Values, None,   \* values of the setting, and none
          Root, Gone,     \* a node without a parent, a node there is not
          FirstParent,    \* the tree there is at first
          FirstPolicy,    \* the policies there are at first
          Rows,           \* inputs: the rows policies are created or updated with
          Selections,     \* inputs: the devices and nodes a policy is given
          Places,         \* inputs: the nodes a device is given
          MaxRequests,    \* bound: requests and hellos
          MaxAtOnce       \* bound: of them under way at once

RowType == [enabled : BOOLEAN, priority : Nat, value : Values, updatedAt : 0..1]

\* Nodes and policies are finitely many; foreign keys give every node a parent
\* that is there, and it was there before.
ASSUME PolicyAssumption ==
    /\ IsFiniteSet(Policies) /\ IsFiniteSet(Nodes)
    /\ Rank \in [Policies -> Nat] /\ \A p, q \in Policies : Rank[p] = Rank[q] => p = q
    /\ None \notin Values /\ {Root, Gone} \cap Nodes = {} /\ Root # Gone
    /\ Devices \cap Nodes = {} /\ Gone \notin RowType
    /\ FirstParent \in [Nodes -> Nodes \union {Root, Gone}]
    /\ \E level \in [Nodes -> 0..Cardinality(Nodes)] : \A n \in Nodes :
          FirstParent[n] \in Nodes =>
              FirstParent[FirstParent[n]] # Gone /\ level[FirstParent[n]] < level[n]
    /\ FirstPolicy \in [Policies -> RowType \union {Gone}]
    /\ Rows \subseteq [enabled : BOOLEAN, priority : Nat, value : Values, updatedAt : {1}]
    /\ Selections \subseteq SUBSET (Devices \union Nodes) /\ Places \subseteq SUBSET Nodes
    /\ MaxRequests \in Nat /\ MaxAtOnce \in Nat \ {0}

VARIABLES
    parent,     \* per node: its parent, Root or Gone
    member,     \* per device: its nodes (devicePartitionMembership)
    policy,     \* per policy: its row, or Gone
    targets,    \* per policy: its devices and nodes
    requests,   \* per slot: a request under way
    issued,     \* per device: the value of the last command issued to it
    excused,    \* ghost: devices whose last command may be out of date, and why
                \* is known: requests overlapped, or only partitions changed
    count

policyVars == <<parent, member, policy, targets, requests, issued, excused, count>>

-----------------------------------------------------------------------------
(* Which policy takes effect                                               *)

There == {n \in Nodes : parent[n] # Gone}
Defined == {p \in Policies : policy[p] # Gone}
Far == Cardinality(Nodes) + 1
Nearest(S) == CHOOSE i \in S : \A j \in S : i <= j

\* How many steps below `above` node n is; Far when it is not.
Depth(n, above) ==
    LET depth[m \in Nodes] ==
            IF m = above THEN 0
            ELSE IF parent[m] \notin Nodes THEN Far
            ELSE Nearest({Far, depth[parent[m]] + 1})
    IN depth[n]

\* descendantNodeIds, with the node itself
Below(n) == {m \in There : Depth(m, n) < Far}

\* Steps from the device's nodes to those the policy targets (ancestorDistances),
\* and one more
Ways(d, p) == {Depth(m, n) + 1 : m \in member[d], n \in targets[p] \cap There}

\* How a policy is assigned to a device: 0 when directly, otherwise by the
\* shortest way.
Distance(d, p) == IF d \in targets[p] THEN 0 ELSE Nearest({Far} \union Ways(d, p))

\* The policies effectiveForDevice finds, and the order it sorts them in.
Applicable(d) == {p \in Defined : policy[p].enabled /\ Distance(d, p) < Far}

compareEffectivePolicies(d, p, q) ==
    \/ Distance(d, p) < Distance(d, q)
    \/ /\ Distance(d, p) = Distance(d, q)
       /\ \/ policy[p].priority > policy[q].priority
          \/ /\ policy[p].priority = policy[q].priority
             /\ \/ policy[p].updatedAt > policy[q].updatedAt
                \/ policy[p].updatedAt = policy[q].updatedAt /\ Rank[p] < Rank[q]

\* A policy no other comes before decides.
Deciding(d) ==
    {p \in Applicable(d) : ~\E q \in Applicable(d) : compareEffectivePolicies(d, q, p)}

effectiveForDevice(d) ==
    IF Deciding(d) = {} THEN None ELSE policy[CHOOSE p \in Deciding(d) : TRUE].value

-----------------------------------------------------------------------------
(* Requests under way                                                      *)

NoRequest == [pc |-> "none", policy |-> None, scope |-> {}, todo |-> {}, found |-> <<>>,
              alone |-> TRUE]
Slots == 1..MaxAtOnce
UnderWay == {i \in Slots : requests[i].pc # "none"}

\* A request begins; with another under way, neither is alone.
Begin(i, request) ==
    /\ requests[i].pc = "none" /\ count < MaxRequests
    /\ count' = count + 1
    /\ requests' = [j \in Slots |->
           IF j = i THEN [request EXCEPT !.alone = UnderWay = {}]
           ELSE [requests[j] EXCEPT !.alone = @ /\ requests[j].pc = "none"]]

\* The rows have changed: the devices that have been told something else may be
\* missed by requests that overlap, or that issue no command at all.
Missed == {d \in Devices : effectiveForDevice(d)' # issued[d]}

\* A partition changes: requests under way may have read it before.
PartitionChanged ==
    /\ excused' = excused \union Missed
    /\ requests' = [j \in Slots |-> [requests[j] EXCEPT !.alone = @ /\ requests[j].pc = "none"]]

-----------------------------------------------------------------------------
(* The tree of partition nodes and the devices in it                       *)

createNode(n, above) ==
    /\ count < MaxRequests /\ count' = count + 1
    /\ parent[n] = Gone /\ above \in There \union {Root}
    /\ parent' = [parent EXCEPT ![n] = above]
    /\ UNCHANGED <<member, policy, targets, issued>>
    /\ PartitionChanged

BugRemoveNode(n) ==
    /\ count < MaxRequests /\ count' = count + 1
    /\ n \in There
    /\ parent' = [parent EXCEPT ![n] = Gone]
    /\ member' = [d \in Devices |-> member[d] \ {n}]
    /\ targets' = [p \in Policies |-> targets[p] \ {n}]
    /\ UNCHANGED <<policy, issued>>
    /\ PartitionChanged

\* The node goes with everything below it, the memberships and the targets.
\* No command follows.
removeNode(n) ==
    /\ count < MaxRequests /\ count' = count + 1
    /\ n \in There
    /\ parent' = [m \in Nodes |-> IF m \in Below(n) THEN Gone ELSE parent[m]]
    /\ member' = [d \in Devices |-> member[d] \ Below(n)]
    /\ targets' = [p \in Policies |-> targets[p] \ Below(n)]
    /\ UNCHANGED <<policy, issued>>
    /\ PartitionChanged

\* setPartitions replaces the memberships of a device. No command follows.
setPartitions(d, nodes) ==
    /\ count < MaxRequests /\ count' = count + 1
    /\ nodes \subseteq There /\ nodes # member[d]
    /\ member' = [member EXCEPT ![d] = nodes]
    /\ UNCHANGED <<parent, policy, targets, issued>>
    /\ PartitionChanged

-----------------------------------------------------------------------------
(* Policies                                                                *)

\* The transaction of a request is over, and what its devices are is read next.
Committed(i, scope) ==
    /\ UNCHANGED <<parent, member, issued, count>>
    /\ requests' = [requests EXCEPT ![i] = [@ EXCEPT !.pc = "expand", !.scope = scope]]
    /\ excused' = IF requests[i].alone THEN excused ELSE excused \union Missed

\* create, at a time later than that of the rows there are: a policy without
\* targets, so that no device is concerned
create(p, row) ==
    /\ count < MaxRequests /\ count' = count + 1
    /\ policy[p] = Gone
    /\ policy' = [policy EXCEPT ![p] = row]
    /\ UNCHANGED <<parent, member, targets, requests, issued, excused>>

\* update: the transaction changes the row and reads its targets.
update(i, p, row) ==
    /\ requests[i].pc = "none" /\ policy[p] # Gone /\ row # policy[p]
    /\ Begin(i, [NoRequest EXCEPT !.pc = "update", !.policy = p, !.found = row])
    /\ UNCHANGED <<parent, member, policy, targets, issued, excused>>

UpdateRow(i) ==
    LET p == requests[i].policy IN
    /\ requests[i].pc = "update"
    /\ IF policy[p] = Gone
       THEN /\ requests' = [requests EXCEPT ![i] = NoRequest]
            /\ UNCHANGED <<parent, member, policy, targets, issued, excused, count>>
       ELSE /\ policy' = [policy EXCEPT ![p] = requests[i].found]
            /\ UNCHANGED targets
            /\ Committed(i, targets[p])

\* setTargets and remove read the targets there are before their transaction.
readTargets(i, p, change, new) ==
    /\ policy[p] # Gone
    /\ Begin(i, [NoRequest EXCEPT !.pc = change, !.policy = p, !.scope = targets[p],
                                  !.found = new])
    /\ UNCHANGED <<parent, member, policy, targets, issued, excused>>

BugSetTargets(i) ==
    LET p == requests[i].policy
        new == requests[i].found \cap (Devices \union There) IN
    /\ requests[i].pc = "targets"
    /\ policy[p] # Gone
    /\ targets' = [targets EXCEPT ![p] = new]
    /\ policy' = [policy EXCEPT ![p].updatedAt = 1]
    /\ Committed(i, new)

\* The transaction of setTargets fails when the policy, or a node it names, is
\* gone. It also touches the time of the row.
SetTargets(i) ==
    LET p == requests[i].policy IN
    /\ requests[i].pc = "targets"
    /\ IF policy[p] = Gone \/ ~(requests[i].found \subseteq Devices \union There)
       THEN /\ requests' = [requests EXCEPT ![i] = NoRequest]
            /\ UNCHANGED <<parent, member, policy, targets, issued, excused, count>>
       ELSE /\ targets' = [targets EXCEPT ![p] = requests[i].found]
            /\ policy' = [policy EXCEPT ![p].updatedAt = 1]
            /\ Committed(i, requests[i].scope \union requests[i].found)

RemovePolicy(i) ==
    LET p == requests[i].policy IN
    /\ requests[i].pc = "remove"
    /\ IF policy[p] = Gone
       THEN /\ requests' = [requests EXCEPT ![i] = NoRequest]
            /\ UNCHANGED <<parent, member, policy, targets, issued, excused, count>>
       ELSE /\ policy' = [policy EXCEPT ![p] = Gone]
            /\ targets' = [targets EXCEPT ![p] = {}]
            /\ Committed(i, requests[i].scope)

-----------------------------------------------------------------------------
(* syncEffectiveSettings                                                   *)

\* The devices named, and those in the nodes named and below them
Expand(i) ==
    LET nodes == UNION {Below(n) : n \in requests[i].scope \cap There}
        concerned == (requests[i].scope \cap Devices)
                     \union {d \in Devices : member[d] \cap nodes # {}} IN
    /\ requests[i].pc = "expand"
    /\ requests' = [requests EXCEPT ![i] =
           [@ EXCEPT !.pc = "resolve", !.scope = concerned, !.todo = concerned, !.found = <<>>]]
    /\ UNCHANGED <<parent, member, policy, targets, issued, excused, count>>

\* A hello, and the push that follows it, for one device
Hello(i, d) ==
    /\ Begin(i, [NoRequest EXCEPT !.pc = "resolve", !.scope = {d}, !.todo = {d}])
    /\ UNCHANGED <<parent, member, policy, targets, issued, excused>>

\* The effective settings of one device after another are read.
Resolve(i, d) ==
    LET r == requests[i]
        more == [e \in DOMAIN r.found \union {d} |->
                     IF e = d THEN effectiveForDevice(d) ELSE r.found[e]] IN
    /\ r.pc = "resolve" /\ d \in r.todo
    /\ requests' = [requests EXCEPT ![i] = [r EXCEPT !.todo = r.todo \ {d}, !.found = more]]
    /\ UNCHANGED <<parent, member, policy, targets, issued, excused, count>>

\* Every group of devices with the same settings is issued its command, which
\* replaces what the devices were told before.
Issue(i) ==
    LET r == requests[i] IN
    /\ r.pc = "resolve" /\ r.todo = {}
    /\ issued' = [d \in Devices |-> IF d \in r.scope THEN r.found[d] ELSE issued[d]]
    /\ excused' = IF r.alone THEN excused \ r.scope ELSE excused \union r.scope
    /\ requests' = [requests EXCEPT ![i] = NoRequest]
    /\ UNCHANGED <<parent, member, policy, targets, count>>

-----------------------------------------------------------------------------
\* At first the devices are anywhere, the policies target anything, and every
\* device has been told what is effective.
PolicyInit ==
    /\ parent = FirstParent /\ policy = FirstPolicy
    /\ member \in [Devices -> Places]
    /\ targets \in [Policies -> Selections]
    /\ \A d \in Devices : member[d] \subseteq There
    /\ \A p \in Policies :
          /\ targets[p] \subseteq Devices \union There
          /\ policy[p] = Gone => targets[p] = {}
    /\ requests = [i \in Slots |-> NoRequest]
    /\ issued = [d \in Devices |-> effectiveForDevice(d)] /\ excused = {}
    /\ count = 0

PolicyNext ==
    \/ \E n \in Nodes, above \in Nodes \union {Root} : createNode(n, above)
    \/ \E n \in Nodes : removeNode(n)
    \/ \E d \in Devices, nodes \in Places : setPartitions(d, nodes)
    \/ \E p \in Policies, row \in Rows : create(p, row)
    \/ \E i \in Slots, p \in Policies :
          \/ \E row \in Rows : update(i, p, row)
          \/ \E new \in Selections : readTargets(i, p, "targets", new)
          \/ readTargets(i, p, "remove", {})
    \/ \E i \in Slots :
          \/ UpdateRow(i) \/ SetTargets(i) \/ RemovePolicy(i)
          \/ Expand(i) \/ Issue(i)
          \/ \E d \in Devices : Hello(i, d) \/ Resolve(i, d)

PolicySpec == PolicyInit /\ [][PolicyNext]_policyVars

-----------------------------------------------------------------------------
\* The rows and requests have their shape; the tree has no cycle.
PolicyTypeOK ==
    /\ parent \in [Nodes -> Nodes \union {Root, Gone}]
    /\ \A n \in There : parent[n] # Root => parent[n] \in There /\ Depth(parent[n], n) = Far
    /\ member \in [Devices -> SUBSET There]
    /\ \A p \in Policies : policy[p] \in RowType \union {Gone} /\ targets[p] \subseteq Devices \union There
    /\ \A i \in Slots :
          /\ requests[i].pc \in {"none", "update", "targets", "remove", "expand", "resolve"}
          /\ requests[i].scope \subseteq Devices \union Nodes /\ requests[i].todo \subseteq Devices
    /\ issued \in [Devices -> Values \union {None}] /\ excused \subseteq Devices

\* What is effective does not depend on the order of the rows: of the policies
\* that apply one decides (compareEffectivePolicies), also when two were updated
\* at the same moment.
OneDecides == \A d \in Devices : Applicable(d) # {} => Cardinality(Deciding(d)) = 1

\* Once the requests are over, the last command of every device says what is
\* effective for it, be it named, below a node that is, or no longer either
\* (syncEffectiveSettings), unless requests overlapped, or a partition changed
\* and the device has not said hello since.
ToldWhatIsEffective ==
    UnderWay = {} => \A d \in Devices \ excused : issued[d] = effectiveForDevice(d)

\* One policy decides, and the devices are told which.
PoliciesArrive == OneDecides /\ ToldWhatIsEffective
=============================================================================

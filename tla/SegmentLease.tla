---------------------------- MODULE SegmentLease ----------------------------
(***************************************************************************)
(* What the resource manager promises its clients, without tables, lists,  *)
(* counters or megabytes: leases on runs of consecutive segments of one    *)
(* device, each with an id that is never used twice in the life of a VM.   *)
(* A lease covers only segments nobody else holds, comes back as a whole   *)
(* or not at all, and all leases of a VM come back when it is destroyed.   *)
(***************************************************************************)
EXTENDS Integers

CONSTANTS Vm,       \* who may hold a lease
          Device,   \* the devices
          Index(_), \* Index(n): the segments of device n
          LeaseId   \* names of leases, unique per VM

VARIABLES free,    \* pairs <<device, index>> nobody holds
          leases,  \* the leases that are out
          issued   \* issued[vm]: the ids vm was given since it was created

vars == <<free, leases, issued>>

Segment == UNION {{n} \X Index(n) : n \in Device}

Extent(l) == {l.node} \X (l.first .. l.last)

Init ==
    /\ free = Segment
    /\ leases = {}
    /\ issued = [vm \in Vm |-> {}]

Grant(vm, id) ==
    /\ id \notin issued[vm]
    /\ issued' = [issued EXCEPT ![vm] = @ \cup {id}]
    /\ \E n \in Device : \E first, last \in Index(n) :
          LET l == [vm |-> vm, id |-> id, node |-> n, first |-> first, last |-> last]
          IN  /\ first <= last
              /\ leases' = leases \cup {l}
              /\ Extent(l) \subseteq free
              /\ free' = free \ Extent(l)

TakeBack(l) ==
    /\ l \in leases
    /\ leases' = leases \ {l}
    /\ free' = free \cup Extent(l)
    /\ UNCHANGED issued

TakeBackAll(vm) ==
    LET held == {l \in leases : l.vm = vm}
    IN  /\ issued' = [issued EXCEPT ![vm] = {}]
        /\ leases' = leases \ held
        /\ free' = free \cup UNION {Extent(l) : l \in held}

\* The end of a VM that was never granted anything is no step of the leases.
Next ==
    /\ vars' # vars
    /\ \/ \E vm \in Vm, id \in LeaseId : Grant(vm, id)
       \/ \E l \in leases : TakeBack(l)
       \/ \E vm \in Vm : TakeBackAll(vm)

Spec == Init /\ [][Next]_vars
=============================================================================

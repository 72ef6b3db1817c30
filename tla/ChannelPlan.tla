---------------------------- MODULE ChannelPlan ----------------------------
(***************************************************************************)
(* How ramryder_cli spreads a request over memory channels.  A channel is  *)
(* a node of the pool; free[n] is what get-mem-pool says is free there, in *)
(* megabytes.  A plan is a sequence of pairs <<node, size_mb>>.  What the  *)
(* code returns is a set with one plan here, or with none if it raises     *)
(* ValueError.                                                             *)
(***************************************************************************)
EXTENDS Integers, Sequences, FiniteSets, FiniteSetsExt

split_memory(total_mb, channels) ==
    [i \in 1 .. channels |->
        (total_mb \div channels) + (IF i <= total_mb % channels THEN 1 ELSE 0)]

\* A finite set as a sequence, in the order of the pairs in before.
InOrder(S, before) ==
    CHOOSE s \in [1 .. Cardinality(S) -> S] :
        \A i, j \in 1 .. Cardinality(S) : i < j => <<s[i], s[j]>> \in before

\* What is larger stands first.  The sort is stable: what is equal keeps its
\* order, which is that of the keys.
LargestFirst(keys, value) ==
    InOrder(keys, {p \in keys \X keys :
                      \/ value[p[1]] > value[p[2]]
                      \/ value[p[1]] = value[p[2]] /\ p[1] < p[2]})

\* Nodes with the most room first; they come in the order of node ids.
ByFree(nodes, free) == LargestFirst(nodes, free)

Descending(sizes) ==
    LET order == LargestFirst(DOMAIN sizes, sizes)
    IN  [k \in DOMAIN sizes |-> sizes[order[k]]]

ByNode(plan) ==
    InOrder(Range(plan), {p \in Range(plan) \X Range(plan) : p[1][1] < p[2][1]})

\* The k-th size gets the first node of order that is not picked and has room,
\* unless a size before it got none.
PickNext(order, free, sizes, picked, k) ==
    LET fit == {j \in DOMAIN order : /\ order[j] \notin Range(picked)
                                     /\ free[order[j]] >= sizes[k]}
    IN  IF Len(picked) < k - 1 \/ fit = {} THEN picked
        ELSE Append(picked, order[Min(fit)])

\* The node of each size, in the order of sizes.  The sequence ends before a size
\* without a node.
Pick(order, free, sizes) ==
    LET picked[k \in 0 .. Len(sizes)] ==
            IF k = 0 THEN <<>> ELSE PickNext(order, free, sizes, picked[k - 1], k)
    IN  picked[Len(sizes)]

\* Faulty form: the small requests first.
choose_smallest_first(nodes, free, requested_sizes_mb) ==
    LET most == Descending(requested_sizes_mb)
        sizes == [k \in DOMAIN most |-> most[Len(most) + 1 - k]]
        picked == Pick(ByFree(nodes, free), free, sizes)
    IN  IF Len(picked) < Len(sizes) THEN {}
        ELSE {ByNode([k \in DOMAIN sizes |-> <<picked[k], sizes[k]>>])}

\* The large requests first.
choose_allocations_for_tier(nodes, free, requested_sizes_mb) ==
    LET sizes == Descending(requested_sizes_mb)
        picked == Pick(ByFree(nodes, free), free, sizes)
    IN  IF Len(picked) < Len(sizes) THEN {}
        ELSE {ByNode([k \in DOMAIN sizes |-> <<picked[k], sizes[k]>>])}

\* existing: the nodes the VM has memory on.  Without a number of channels the
\* request is spread over all of these, else over the roomiest new ones.
choose_allocations_for_tier_attach(nodes, free, memory_mb, channels, existing) ==
    LET selected == IF channels = 0 THEN nodes \cap existing
                    ELSE LET fresh == ByFree(nodes \ existing, free)
                         IN  Range(SubSeq(fresh, 1, Min({channels, Len(fresh)})))
        count == IF channels = 0 THEN Cardinality(selected) ELSE channels
    IN  IF memory_mb = 0 THEN {<<>>}
        ELSE IF selected = {} \/ count > Cardinality(selected) \/ memory_mb < count
        THEN {}
        ELSE choose_allocations_for_tier(selected, free, split_memory(memory_mb, count))

\* Two plans one after the other: the local memory, then the CXL memory.
Both(local, cxl) == {a \o b : a \in local, b \in cxl}

-----------------------------------------------------------------------------
\* What a plan is for: every size on a node of its own, with room for it.
IsPlanFor(plan, nodes, free, sizes) ==
    /\ Len(plan) = Len(sizes)
    /\ {plan[i][1] : i \in DOMAIN plan} \subseteq nodes
    /\ \A i, j \in DOMAIN plan : i # j => plan[i][1] # plan[j][1]
    /\ \A i \in DOMAIN plan : free[plan[i][1]] >= plan[i][2]
    /\ \E of \in Bijection(DOMAIN plan, DOMAIN sizes) :
          \A i \in DOMAIN plan : plan[i][2] = sizes[of[i]]

\* There is a way to place the sizes, whoever looks for it.
Placeable(nodes, free, sizes) ==
    \E place \in [DOMAIN sizes -> nodes] :
        /\ \A i, j \in DOMAIN sizes : i # j => place[i] # place[j]
        /\ \A i \in DOMAIN sizes : free[place[i]] >= sizes[i]
=============================================================================

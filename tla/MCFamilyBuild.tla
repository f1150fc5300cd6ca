----------------------------- MODULE MCFamilyBuild -----------------------------
(***************************************************************************)
(* Instances of FamilyBuild.  FamilyBuild.cfg: two compositions on one     *)
(* scenario, two workers, another request thread on the one connection, no *)
(* starting process.  SegmentImport.cfg: three stops, one worker, two      *)
(* scenarios, two starting processes, two imports of the graph.            *)
(***************************************************************************)
EXTENDS FamilyBuild

CONSTANTS w1, w2, main, other, b1, b2, s1, s2, v1, v2, c1, c2, tracks, trainsets, tunnel, bridge

MCCatalogues == <<tracks>>
\* Both pairs of a trip cross the tunnel; the passage is claimed once.
MCStopList == <<1, 2>>
MCLongStopList == <<2, 1, 3>>
MCPassages == [p \in {{1, 2}, {1, 3}, {2, 3}} |->
                 IF p = {1, 2} THEN {tunnel} ELSE {tunnel, bridge}]
MCMembers ==
  <<[variant |-> v1, scenario |-> s1, composition |-> c1],
    [variant |-> v1, scenario |-> s1, composition |-> c2],
    [variant |-> v2, scenario |-> s1, composition |-> c2]>>
MCPresented == MCMembers[3]
MCThatMember == [variant |-> v1, scenario |-> s2, composition |-> c1]
MCOneMember == <<MCThatMember>>
MCNoCatalogues == <<>>
\* Both compositions run the same legs: one key of the memo, two callers.
MCLegVariant == [task \in Scenario \X Composition |-> trainsets]
\* Two keys of the memo on one variant of the table.
MCTwoLegVariants == [task \in Scenario \X Composition |-> task[2]]
MCLongKey == ({MCLongStopList, Reverse(MCLongStopList)} \X {trainsets})
MCTwoKeys == ({tracks} \X Scenario) \cup ({MCStopList, Reverse(MCStopList)} \X Composition)
MCValue == {}
\* The run follows the first trip, which takes one pair in each direction;
\* other processes only store its pairs, since no thread reads another row.
MCFirstTrip ==
  /\ \A p \in Stored : \E i \in 1 .. Len(StopList) - 1 : p = {StopList[i], StopList[i + 1]}
  /\ (\E key \in Key : values[key] # Nothing) => \A t \in Thread : ~Routing(t)
\* The starting processes are alike.
MCStarters == Permutations({b1, b2})
=============================================================================

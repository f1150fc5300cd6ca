---------------------------- MODULE MCRoutePlan ----------------------------
(***************************************************************************)
(* Four stops, hours for minutes: midnight is 24, the night ends at 30 and *)
(* is centred on 27, as 24:00 and 29:00 are on 02:30, so that the interval *)
(* of three short legs is stretched by two units they must share.  C lies  *)
(* in a country with a longer dwell.                                       *)
(***************************************************************************)
EXTENDS RoutePlan, TLC

MCLine == <<"A", "B", "C", "D">>
MCStop == {"A", "B", "C", "D"}
MCComposition == [boarding |-> 1, alighting |-> 2]
MCTrack == [s \in MCStop |-> [boarding |-> 1,
                              alighting |-> IF s = "C" THEN 3 ELSE 1]]
MCIntervals ==
  {NoInterval, <<"A", "C">>, <<"B", "C">>, <<"B", "D">>, <<"A", "D">>}
MCAddonSets == {{}, {[from |-> "A", to |-> "B", minutes |-> 2],
                     [from |-> "B", to |-> "C", minutes |-> 3]}}

Override(m, t) == [mode |-> m, minutes |-> t]

MCDepartures == 
  {NoDeparture, Override("shift", 3), Override("shift", -2),
   Override("absolute", 7)}
MCReturnBlocks ==
  {Mirrored, NoOverrides,
   [departure |-> Override("absolute", 44), addons |-> {}]}

==============================================================================

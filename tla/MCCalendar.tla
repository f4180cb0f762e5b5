------------------------------ MODULE MCCalendar ------------------------------
(* Small calendars: days of four units, one change of the clock by one or two  *)
(* units around the second midnight, rules of one or two wall times.           *)
EXTENDS Calendar

MCZones ==
  {[at |-> at, before |-> shift[1], after |-> shift[2]] :
     at \in {6, 7, 9}, shift \in {<<0, 1>>, <<0, -1>>, <<1, -1>>, <<-1, 1>>}}

MCRules == {{a, b} : a \in 4..8, b \in 4..9}
MCStops == {{}, {6}, {8}}
MCClosures == {{}, {1}, {2}, {3}}
=============================================================================

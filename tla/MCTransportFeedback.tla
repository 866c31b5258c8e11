------------------------ MODULE MCTransportFeedback ------------------------
(* Instances of TransportFeedback for TLC. *)
EXTENDS TransportFeedback

MCSize == [n \in 1..MaxPackets |-> n]

MCRequest == <<[count |-> 1, timestamps |-> TRUE], NoRequest,
               [count |-> 2, timestamps |-> FALSE], [count |-> 3, timestamps |-> TRUE]>>

B(p, t, a, r, s, q, l) == [packets |-> p, ticks |-> t, arrivals |-> a, reports |-> r,
                           switches |-> s, requests |-> q, late |-> l]

(* What happens together: late notices, reordering, duplicates and a       *)
(* change of route or mode; the same with the clock; gaps too long for a   *)
(* message; requests; requests at the limit of the map of arrival times.   *)
MCBounds ==
  {B(3, 0, 3, 2, 1, FALSE, TRUE), B(3, 1, 3, 2, 0, FALSE, TRUE),
   B(2, 2, 3, 2, 0, FALSE, TRUE), B(3, 1, 2, 2, 0, TRUE, TRUE),
   B(4, 0, 3, 1, 1, TRUE, FALSE)}

(* Overlapping messages about packets whose notices are prompt. *)
MCPrompt == {B(3, 1, 3, 2, 0, FALSE, FALSE)}

(* The hypothesis of TimesAreSteady. *)
ASSUME SessionsAssumption == ShortSessions
=============================================================================

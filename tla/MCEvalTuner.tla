---------------------------- MODULE MCEvalTuner -----------------------------
(***************************************************************************)
(* Model-checking instance of EvalTuner: a corpus of seven failures over   *)
(* its five streams, each rolled in one of a few ways.                     *)
(***************************************************************************)
EXTENDS EvalTuner

RollOf(network, day, cureHours, hardClass, propensity, amount, draws) ==
  [network |-> network, day |-> day, hour |-> 6, cureHours |-> cureHours,
   hardClass |-> hardClass, propensity |-> propensity, amountMinor |-> amount,
   draws |-> draws]

SomeRolls ==
  {RollOf("visa", 13, 24, "cat1", 750, 5, <<400, 300, 120>>),
   RollOf("mastercard", 14, 96, "mac01", 400, 3, <<200, 210, 30>>),
   RollOf("visa", 2, 48, "ask", 600, 4, <<700, 10, 10>>),
   RollOf("mastercard", 27, 72, "mac0321", 850, 2, <<100, 500, 290>>)}

OneOfEach ==
  [paydayTiming |-> 1, penaltyTrap |-> 1, capExceed |-> 2, hostileOrdering |-> 1,
   mixedTenure |-> 1]
=============================================================================

---------------------------- MODULE MCStrategyTracks ----------------------------
\* The feeds of the tracks, chosen at the thresholds of the code.
EXTENDS StrategyTracks

\* A set of values together with their negatives.
BothSigns(values) == values \cup {-v : v \in values}

MCTailPrices == {1354, 1361, 1367, 1373, 1400}
MCZMagnitudes == {0, 21, 26, 36}
MCSpreadProfits == {0, 12, 34, 60}
MCNets == {20, 30}
MCGapOpenings == BothSigns({0, 120, 160, 200, 450})
MCGapPrices == BothSigns({0, 25, 70, 92, 100, 120, 123, 130, 135, 160, 200, 240})
MCInsurancePrices == {33500, 35000, 36250, 36400, 36401, 36450, 36452, 36600}
MCSkews == {0, 30, 50, 90}
MCDaysToExpiry == <<16, 15, 4>>
MCStranglePrices == {650, 700, 743, 760}
MCBudgets == {20, 70}
MCStrangleProfits == {0, 30}
MCEventProfits == {0, 60, 400}
================================================================================

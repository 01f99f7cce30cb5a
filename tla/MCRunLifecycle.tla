---------------------------- MODULE MCRunLifecycle ----------------------------
(* Instances of RunLifecycle for TLC: which bot each row belongs to, which   *)
(* symbol each bot trades, which process runs each poll.                     *)
EXTENDS RunLifecycle, TLC

CONSTANTS r1, r2, b1, b2, p1, p2, w1, w2

OneBot == [r \in Runs |-> b1]
TwoBots == [r \in Runs |-> IF r = r1 THEN b1 ELSE b2]
SameSymbol == [b \in Bots |-> "BTCUSDT"]
OneProcess == [p \in Pollers |-> w1]
TwoProcesses == [p \in Pollers |-> IF p = p1 THEN w1 ELSE w2]
==============================================================================

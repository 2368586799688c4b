----------------------------- MODULE MCProducer -----------------------------
(* Model-checking instance of Producer.  One tick is about 50ms; the        *)
(* intervals keep the order of the code's, scaled down.  The PMU stands for *)
(* the collectors whose deadline run() sleeps for, fs for the others.       *)
EXTENDS Producer
MCInterval == [t \in Tasks |-> CASE t = "pmu" -> 4 [] t = "proc" -> 8 [] t = "fs" -> 9]
=============================================================================

-------------------------- MODULE MCNeuronScheduler --------------------------
(* Small instances of NeuronScheduler for TLC. *)
EXTENDS NeuronScheduler, TLC

CONSTANTS r1, r2, r3

MCThree == {r1, r2, r3}

(* r1 has a chunked prompt; the others are short, or have two chunks too. *)
MCPromptChunks == [r \in Request |-> IF r = r1 THEN 2 ELSE 1]
MCLongPrompt == [r \in Request |-> IF r = r1 THEN 3 ELSE 1]
MCTwoChunks == [r \in Request |-> 2]
MCTwoTokens == [r \in Request |-> 2]
(* r1 is sent away after one token, the others grow to max_model_len. *)
MCOneSent == [r \in Request |-> IF r = r1 THEN 1 ELSE 3]
==============================================================================

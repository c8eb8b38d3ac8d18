------------------------------ MODULE MCDriver ------------------------------
EXTENDS Driver
\* Every machine of 1 to 8 devices the asserts treat differently, both checkpoints, inputs that
\* fit, are too large, do not divide or lack the last prompt, and batches fixed by hand (then
\* with a number of experts that leaves a remainder).
MCWorkloads ==
  {[devices |-> d, big |-> b, experts |-> 8 + f, fixed |-> f, count |-> n,
    lines |-> IF n = 0 THEN 0 ELSE n - missing, steps |-> s, files |-> n # 4,
    staging |-> IF missing = 0 THEN {1} ELSE {}] :
     d \in {1, 2, 4, 6, 8}, b \in BOOLEAN, f \in {0, 1},
     n \in {0, 2, 4, 8, 9, 12, 16, 24}, missing \in {0, 1}, s \in {0, 1}}
=============================================================================

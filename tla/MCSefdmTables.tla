---------------------------- MODULE MCSefdmTables ----------------------------
(* One signal and one table of noise; all carriers over the values of Waves;   *)
(* quotients kept, and all but 0 and 1 made larger by one.                     *)
EXTENDS SefdmTables
MCWaves == {<<1, 0>>, <<0, 1>>}
MCRoundings == {[x \in 0..Prime - 1 |-> x],
                [x \in 0..Prime - 1 |-> IF x \in {0, 1} THEN x ELSE (x + 1) % Prime]}
MCSignals == {[i \in 0..Carriers - 1 |-> [k \in 0..Blocks - 1 |-> <<i + 1, k>>]]}
MCNoises == {[i \in 0..Blocks * Oversampling - 1 |-> [k \in 0..Blocks - 1 |->
                <<i, (i + k) % 3>>]]}
=============================================================================

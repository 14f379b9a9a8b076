---------------------------- MODULE MCBestDelay -----------------------------
(* Results a benchmark may have, of the order of the seconds of the        *)
(* instance: the first intervals are 24, 12, 4, 3, 1 and 0 wide.           *)
EXTENDS BestDelay

MCTps == {0, 1, 2, 5, 8, 20, Top}

=============================================================================

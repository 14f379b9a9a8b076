----------------------------- MODULE MCStartup ------------------------------
(***************************************************************************)
(* Small instances of Startup: a fresh chain, chains on which an earlier   *)
(* run left blocks and moved a reward, and one on which it did so in the   *)
(* block above the confirmed tip.                                          *)
(***************************************************************************)
EXTENDS Startup

Fresh == {<<>>}
Settled == {<<>>, <<{}, {}>>, <<{}, {1}, {}>>}
Restarted == {<<{}, {}, {}, {2}>>}

=============================================================================

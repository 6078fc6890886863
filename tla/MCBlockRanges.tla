---------------------------- MODULE MCBlockRanges ----------------------------
(***************************************************************************)
(* Small instances of BlockRanges: every list of at most MaxPairs change   *)
(* records on a small device.                                              *)
(***************************************************************************)
EXTENDS BlockRanges

\* The agent's device, the size used when the lookup fails, and a device of the
\* dispatcher that has the same name and is smaller than the agent's.
AnySize == {LastBlock + 1, Width - 1, LastBlock \div 2}
=============================================================================

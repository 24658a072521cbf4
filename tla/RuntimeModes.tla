---------------------------- MODULE RuntimeModes ----------------------------
(***************************************************************************)
(* What an instrumented binary is at run time, a record of four Booleans:  *)
(* persistent and sharedmem, the flags that AddAFLGlobalDataPass puts into *)
(* its data and the fork server goes by; loop and hook, the patches that   *)
(* AddAFLPass puts into its code and the children run into.  AddAFL        *)
(* promises, and ForkServer assumes, that no patch comes without its flag. *)
(***************************************************************************)
Consistent(m) == (m.loop => m.persistent) /\ (m.hook => m.sharedmem)
=============================================================================

----------------------------- MODULE MCArena ------------------------------
(* GriftArena with N slots and two values: every order in which the slots  *)
(* can enter and leave the free list, and every call on every handle in    *)
(* range and out of range in each of those arenas.                         *)
EXTENDS GriftValidate
=============================================================================

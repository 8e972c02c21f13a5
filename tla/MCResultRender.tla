---------------------------- MODULE MCResultRender ----------------------------
(***************************************************************************)
(* ResultRender for TLC: no hunk, a page of two, and two pages.            *)
(***************************************************************************)
EXTENDS ResultRender

MCPageSets == {<<0>>, <<2>>, <<2, 1>>}
===============================================================================

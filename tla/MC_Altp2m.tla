------------------------------ MODULE MC_Altp2m ------------------------------
(***************************************************************************)
(* A small instance of the altp2m wrappers: two alternate view ids (so    *)
(* that create picks the lowest free one and destroy leaves a hole), one  *)
(* guest frame, one spare frame above max_gpfn.                           *)
(***************************************************************************)
EXTENDS Altp2m

MCViewIds == {1, 2}
MCGfns == {10}
MCSpare == {20}
MCBaseline == 1
MCUnlimited == 4
=============================================================================

------------------------------- MODULE Overlay -------------------------------
(***************************************************************************)
(* What the shared-memory overlay promises: every cell of the disk belongs *)
(* to at most one staged write, the last one that covered it.  A release   *)
(* takes effect only while the released write still owns every cell it     *)
(* covered; otherwise it changes nothing.                                  *)
(***************************************************************************)
EXTENDS DiskCells

VARIABLES
    owner,      \* the generation of the staged write that owns each cell, or 0
    nextGen     \* the generation the next staged write gets

overlayVars == <<owner, nextGen>>

OverlayInit == owner = [c \in Cells |-> 0] /\ nextGen = 1

\* StageWrite: the new write takes every cell it covers.
Stage(r) ==
    /\ owner' = [c \in Cells |-> IF Within(c, r) THEN nextGen ELSE owner[c]]
    /\ nextGen' = nextGen + 1

\* The generation still owns every cell of the range.
Current(r, gen) == \A c \in Cells : Within(c, r) => owner[c] = gen

\* ReleaseIfCurrent, when it releases.
Release(r, gen) ==
    /\ gen # 0 /\ Current(r, gen)
    /\ owner' = [c \in Cells |-> IF Within(c, r) THEN 0 ELSE owner[c]]
    /\ UNCHANGED nextGen

\* Close: the overlay is gone.
Discard == owner' = [c \in Cells |-> 0] /\ UNCHANGED nextGen

OverlayNext ==
    \/ \E r \in Ranges : Stage(r) \/ \E gen \in 1..(nextGen - 1) : Release(r, gen)
    \/ Discard

OverlaySpec == OverlayInit /\ [][OverlayNext]_overlayVars
=============================================================================

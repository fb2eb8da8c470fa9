-------------------------- MODULE MCLameReservoir --------------------------
(* Sizes in bits of a small instance.                                      *)
EXTENDS LameReservoir

SmallFrames == <<48, 64, 96>>
SmallSizes == {0, 3, 13, 30, 70}
=============================================================================

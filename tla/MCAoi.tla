-------------------------------- MODULE MCAoi --------------------------------
(***************************************************************************)
(* A row of three cells, one entity and one player that may be numbered    *)
(* again, and a reach of one cell, which does not span the row, or of two, *)
(* which does.                                                             *)
(***************************************************************************)
EXTENDS Aoi

Row == {<<0, 0>>, <<0, 1>>, <<1, 2>>}
Numbers == 1..MaxAdds
=============================================================================

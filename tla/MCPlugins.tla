------------------------------ MODULE MCPlugins ------------------------------
(***************************************************************************)
(* An instance of ADnEDPlugins for TLC: frames of 5 and 7 cells.           *)
(***************************************************************************)
EXTENDS ADnEDPlugins

Roi(min, size, x, y) == [min |-> min, size |-> size, sizeX |-> x, sizeY |-> y]

\* Two rows of three and of two; sizes that do not fit; negative ones.
MCRoiConfigs == {Roi(1, 6, 3, 2), Roi(0, 4, 2, 2), Roi(2, 4, 9, 1), Roi(-1, -1, -1, -1)}

MCRoiWrites == {<<"min", 2>>, <<"size", 4>>, <<"sizeY", 3>>}

MaskOf(use, x, sx, y, sy, val, type) ==
  [use |-> use, posX |-> x, sizeX |-> sx, posY |-> y, sizeY |-> sy, val |-> val, type |-> type]

MCMaskConfigs ==
  {MaskOf(0, 0, 1, 0, 1, -2, 0), MaskOf(1, 1, 1, 0, 2, -2, 0),
   MaskOf(1, 0, 2, 1, 9, -3, 1), MaskOf(1, -1, 2, 5, 1, -3, 0), MaskOf(1, 0, 1, 0, 1, -2, 2)}

MCMaskWrites == {<<"use", 1>>, <<"posX", 2>>, <<"sizeX", 3>>, <<"sizeY", 0>>, <<"type", 1>>}
=============================================================================

---------------------------- MODULE MCBlockScan ----------------------------
(***************************************************************************)
(* Files for the model checking of BlockScan with blocks of 11 bytes: two  *)
(* values of size 1 and a row end marker take five of them, a value of     *)
(* size 8 is the largest that fits into a block.                           *)
(***************************************************************************)
EXTENDS BlockScan

(* Three columns.  Rows cut by the end of a block at every place, a row    *)
(* that fills more than a block, values too large for a block, lines with  *)
(* a value missing, with one too many and without any, lines with as many  *)
(* values too many as are too large, no line at all.                       *)
WideFiles ==
  {<<<<1, 1, 1>>>>,
   <<<<1, 1, 1>>, <<1, 2, 1>>, <<2, 1, 3>>, <<1, 1, 1>>>>,
   <<<<8, 1, 1>>, <<1, 8, 1>>, <<1, 1, 5>>>>,
   <<<<8, 8, 8>>, <<1, 1, 1>>>>,
   <<<<1, 9, 1>>, <<1, 1, 1>>>>,
   <<<<1, 9, 1, 1>>, <<9, 9, 1, 1, 1>>>>,
   <<<<9, 1, 1, 1>>, <<1, 9, 9, 1, 1>>>>,
   <<<<1, 1, 1, 9>>, <<1, 1, 1>>>>,
   <<<<1, 1, 1>>, <<1, 1>>, <<1, 1, 1>>>>,
   <<<<1, 1, 1>>, <<1, 1, 1, 1>>, <<1, 1, 1>>>>,
   <<<<1, 1, 1>>, <<>>, <<>>, <<>>, <<1, 1, 1>>>>,
   <<>>}

(* Two columns, for a block manager with few blocks.                       *)
TightFiles ==
  {<<<<1, 1>>, <<1, 1>>, <<8, 1>>>>,
   <<<<8, 1>>, <<1, 8>>, <<4, 4>>>>,
   <<<<1, 8>>, <<1, 1>>, <<8, 1>>, <<1, 1>>>>,
   <<<<1, 8>>, <<1, 1>>, <<8, 1>>, <<1, 8>>>>,
   <<<<1, 8>>, <<1, 1>>, <<4, 4>>>>,
   <<<<1, 1>>, <<4, 4>>, <<1, 1>>, <<1, 8>>>>}

SoundFiles == {<<<<1, 1>>, <<4, 4>>, <<1, 1>>>>, <<<<8, 1>>>>}
=============================================================================

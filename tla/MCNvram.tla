------------------------------ MODULE MCNvram ------------------------------
(* The variables end in the first or in the second sector of a bank.       *)
EXTENDS Nvram

BothLayouts == {<<1, 1, 2>>, <<1, 2, 2>>}
=============================================================================

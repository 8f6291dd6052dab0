---------------------------- MODULE MCFileServe ----------------------------
(***************************************************************************)
(* A small instance of FileServe for TLC: a plain name, one that ends in a *)
(* digit and one that ends in 'p', with and without a port.                *)
(***************************************************************************)
EXTENDS FileServe

SomeNames == {<<"h">>, <<"h", "1">>, <<"h", "p">>}
SomePorts == {<<>>, <<"8">>}
=============================================================================

------------------------------ MODULE MCShipper -----------------------------
(***************************************************************************)
(* Four events: a job whose three events fall into two months, and one     *)
(* event of another job between them.                                      *)
(***************************************************************************)
EXTENDS Shipper

MCJobOf == <<"a", "b", "a", "a">>

MCMonthOf == <<1, 1, 1, 2>>
=============================================================================

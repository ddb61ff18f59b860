------------------------------ MODULE MCDesktop ------------------------------
(* One user, one plate and a vehicle too many for it. *)
EXTENDS Desktop
===============================================================================

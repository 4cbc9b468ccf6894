------------------------------ MODULE MCLookup ------------------------------
EXTENDS Lookup, TLC

(* Three lines over two levels of the tries, two over three.               *)
MCLines == 4 :> 3 @@ 6 :> 2
=============================================================================

------------------------------ MODULE MCScroll ------------------------------
(* Instances of Scroll. *)
EXTENDS Scroll

AllAsks == {<<"next", 0>>, <<"prior", 0>>, <<"first", 0>>, <<"last", 0>>}
             \cup (({"absolute"} \X (-2 .. 3)) \cup ({"relative"} \X (-2 .. 2)))
AllKinds == {"scroll", "forward", "whole"}
=============================================================================

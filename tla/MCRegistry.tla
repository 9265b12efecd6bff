------------------------------- MODULE MCRegistry -------------------------------
(* Model-checking instance of Registry: a::X, b::X, CloneX, XInS, Y and XY.  *)
EXTENDS Registry

Idents == <<1, 1, 2, 3, 4, 5>>
SnakeWords == <<<<"x">>, <<"clone", "x">>, <<"x", "in", "s">>, <<"y">>, <<"x", "y">>>>
Spellings == {<<1>>, <<2>>, <<3>>, <<4>>, <<6>>, <<1, 5>>, <<5, 1, 5>>}
ChildNames == {<<"s">>, <<"resolve", "x", "in", "default">>}
===============================================================================

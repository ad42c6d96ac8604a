------------------------------- MODULE MCTerm -------------------------------
(* Instances of VLinTermHost: what the child writes and what the user does. *)
EXTENDS VLinTermHost

Esc(s) == <<"ESC", "[">> \o s

Ops == {
  Esc(<<"2", "P">>), Esc(<<"2", "@">>), Esc(<<"J">>), Esc(<<"1", "J">>), Esc(<<"2", "K">>),
  Esc(<<"1", "K">>), Esc(<<"L">>), Esc(<<"M">>), Esc(<<"3", "S">>), Esc(<<"T">>),
  Esc(<<"5", "X">>), Esc(<<"A">>), Esc(<<"9", "B">>), Esc(<<"9", "C">>), Esc(<<"D">>),
  Esc(<<"2", "d">>), Esc(<<"7", "m">>), <<"ESC", "c">>, <<"ESC", "M">>, <<"ESC", "D">>}

Region == Esc(<<"1", ";", "2", "r">>)
Marks == {
  Region, Esc(<<"r">>), <<"ESC", "7">>, <<"ESC", "8">>, Esc(<<"s">>), Esc(<<"u">>), Esc(<<"2", "G">>),
  Esc(<<"2", ";", "3", "H">>), Esc(<<";", "H">>), Esc(<<"?", "1", "2", "h">>),
  Esc(<<"?", "2", "5", "l">>), Esc(<<"4", "h">>), Esc(<<"F">>), Esc(<<"E">>),
  <<"ESC", "E">>, <<"ESC", "(", "B", "CAN">>, <<"ESC", "]", "0", ";", "t", "i", "BEL">>,
  <<"CSI", "2", "J">>, <<"ESC", "=">>, <<"TAB">>, <<"BS", "SO", "BEL">>, <<"ESC", "[", "CAN">>,
  Esc(<<"0", ";", "y">>)}

Text == <<"a", "b", "c", "d", "LF", "e">>

Wheel(n) == [kind |-> "wheel", by |-> n]
Pages(n) == [kind |-> "pages", by |-> n]
Size(w, h) == [kind |-> "size", w |-> w, h |-> h]
Enter == [kind |-> "enter"]

TermScripts ==
  \* plain text, also with the window scrolled back
  {<<Text \o <<"f", "g", "CR", "h", "LF", "BS", "i", "LF">>, e>> :
     e \in {<<>>, <<Wheel(1), Pages(1), Enter>>, <<Pages(1), Wheel(-1), Wheel(-3)>>}}
  \* every sequence, alone and after one that sets the stage for it
  \cup {<<Text \o op \o <<"z">>, <<>>>> : op \in Ops \cup Marks}
  \cup {<<Text \o m \o op \o <<"z", "LF">>, <<>>>> : m \in Marks, op \in Ops}
  \* sizes that change at any moment
  \cup {<<<<"a", "b", "c", "d", "LF">> \o op \o <<"z", "y">>, <<Size(z[1], z[2])>>>> :
          op \in {Esc(<<"2", "P">>), Esc(<<"J">>), Esc(<<"A">>), <<>>},
          z \in {<<2, 1>>, <<2, 3>>, <<4, 1>>, <<4, 3>>, <<0, 2>>}}
  \cup {<<<<"a">>, <<Size(2, 1), Wheel(9), Size(3, 3)>>>>,
        <<<<"ESC", "[">> \o [i \in 1 .. MAX_CSI_PARAMS |-> ";"] \o <<"m", "z">>, <<>>>>}
  \cup {<<Region \o <<"a", "LF", "b", "LF", "c", "LF">>, <<Size(2, 1), Wheel(1), Size(3, 3)>>>>}
=============================================================================

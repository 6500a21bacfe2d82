--------------------------- MODULE MCGietTerminal ---------------------------
(***************************************************************************)
(* A terminal with words of 6 bits: two decimal and two hexadecimal        *)
(* digits, all values of a word, every conversion alone or with another,   *)
(* one that is unknown included.  Letters are not typed: tty_gets_irq      *)
(* stores CR as it would a letter, and tty_getw_irq ignores a letter.      *)
(***************************************************************************)
EXTENDS GietTerminal

One(f) == [format : {f}, args : [1 .. 1 -> Words]]
Two(f) == {[format |-> f, args |-> <<w, 63 - w>>] : w \in Words}

MCKeys == Chars \ {Letter}

MCFormats == One(<<"text", "d">>) \cup One(<<"u", "text">>) \cup One(<<"x">>)
               \cup Two(<<"%", "d">>) \cup Two(<<"x", "text", "c">>)
               \cup {[format |-> <<"s", "text", "s">>, args |-> <<1, 1>>],
                     [format |-> <<>>, args |-> <<>>]}
MCStrings == {<<>>, <<-4, -4, -1>>}
=============================================================================

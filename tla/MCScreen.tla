---- MODULE MCScreen ----
(***************************************************************************)
(* Screen with three columns and three lines, cells of three pixels by two,  *)
(* rows of one pixel more than show, and segments of seven characters.     *)
(***************************************************************************)
EXTENDS Screen

SomeDescending == {"g", "p", "y"}

\* With the words around it, one line after an empty one; and four lines, two of
\* them full: it wraps and scrolls, and the mouth goes over the "y".
SomeTexts == {<<"p">>, <<"p", "g", "a", "\n", "a", "y">>}

Str(s) == [text |-> s, number |-> 1]
NullStr == [text |-> <<>>, number |-> 0]
Num(n) == [text |-> <<>>, number |-> n]

Printf(fmt, args) == [f |-> "kprintf", color |-> 2, fmt |-> fmt, args |-> args]
Initialise == [f |-> "screen_init"]
Clear == [f |-> "screen_clear", color |-> BLACK]
Flush == [f |-> "screen_flush"]
AutoFlush(b) == [f |-> "set_auto_flush", enable |-> b]

\* What kmain echoes.
Echo(ch) == Printf(<<"%C", "%c", "%C">>, <<Num(3), Str(<<ch>>), Num(2)>>)

Scenario(k, t, p) == [kmain |-> <<Initialise>> \o k, thread1 |-> t, panics |-> p]
Single(ch) == Printf(<<ch>>, <<>>)

\* One printer: any four keys after a first line, with one flush and then many.
Keys == {"a", "g", " ", "\n", "\t", "BS"}
Typing ==
  {Scenario(<<AutoFlush(FALSE), Clear, Single("x"), Flush, AutoFlush(TRUE)>>
              \o [i \in 1 .. 4 |-> Echo(keys[i])], <<>>, FALSE) : keys \in [1 .. 4 -> Keys]}

\* One printer: conversions, each followed by others.
Formats == {
  Printf(<<"%d", "%C", "%s", "%c", "%C", "%x">>,
         <<Num(-10), Num(3), Str(<<"g">>), Str(<<"a">>), Num(4), Num(31)>>),
  Printf(<<"%C", "%ld", "%d", "%C", "%%", "HIGH", "BEL", "%x">>,
         <<Num(3), Num(64), Num(9), Num(4), Num(0)>>),
  Printf(<<"%s", "%d", "%C", "%d", "\n", "%C">>, <<NullStr, Num(-10), Num(3), Num(0), Num(2)>>)}
Converting == {Scenario(<<k, l>>, <<>>, FALSE) : k, l \in Formats}

\* Two printers, from the first line and from the last, two characters each; and
\* panics of both.
Starts == {<<>>, <<AutoFlush(FALSE), Single("\n"), Single("\n")>>}
Pairs == {<<"BS", "BS">>, <<"\t", " ">>, <<"g", "\n">>, <<"\n", "\n">>, <<"\r", "BEL">>, <<" ", "a">>}
Mixing ==
  {Scenario(start \o <<Printf(pair, <<>>)>>, <<Printf(<<"%s">>, <<Str(text)>>)>>, FALSE) :
     start \in Starts, pair \in Pairs, text \in {<<"\n", "y">>, <<"y", "\t">>}}
Panicking ==
  {Scenario(<<Single(k)>>, <<Single(l)>>, TRUE) : k \in {"g", "BS"}, l \in {"a", "\n"}}
SomeScenarios == Typing \cup Converting \cup Mixing \cup Panicking
====

--------------------------- MODULE MCSocketSession ---------------------------
(* Two client programs, one after the other.  Words are longer than one      *)
(* character here; a space separates them; a text may be empty, begin or   *)
(* end with a word, repeat it, or hold words that are too short.             *)
EXTENDS SocketSession

MCWordChar == {"a", "b"}
a == "a"
b == "b"
sp == " "
Texts == {<<>>, <<a>>, <<sp, a, a, sp, a, sp, a, a>>}
MCFolders == {<<[path |-> <<1>>, content |-> t]>> : t \in Texts}
               \union {<<[path |-> <<2>>, content |-> <<a, b, sp, a, a>>],
                         [path |-> <<1>>, content |-> <<b, sp, a, b, sp>>]>>}
MCQuery == {<<<<a, a>>>>, <<<<a, b>>, <<a, a>>>>}
=============================================================================

----------------------------- MODULE MCReader ------------------------------
(* GriftReader on all short texts over the characters the parser tells     *)
(* apart, on longer ones put together from whole words, and on a few that  *)
(* it reads with any number of cells too small or just enough.             *)
EXTENDS GriftReader

Letters == {"(", ")", "'", "\"", ".", "\\", ";", "\n", "n", "-", "1", "2"}
Words   == {<<"(">>, <<")">>, <<" ", ".", " ">>, <<"n">>, <<".", "n">>, <<"'">>}
Texts(S, n) == UNION {[1 .. k -> S] : k \in 0 .. n}
Joined(ws) == LET upTo[k \in 0 .. Len(ws)] == IF k = 0 THEN << >> ELSE upTo[k-1] \o ws[k]
              IN  upTo[Len(ws)]

Scarce == { <<"n", " ", "(", "1", " ", "n", "2", ")", " ", "n">>,
            <<"'", "(", "n", ".", "2", " ", ".", " ", "n", ")">>,
            <<"(", "\"", "n", "\\", "n", "\"", " ", "(", ")", ".", "n", " ", "n", ")">>,
            <<"(", "n", " ", ".", " ", "\"", "1", "\"", ")", "(", "2", ")">> }

MCInputs == {[text |-> t, cells |-> 20] : t \in Texts(Letters, 4)
                \cup {Joined(ws) : ws \in Texts(Words, 5)} \cup DOMAIN Constants}
            \cup {[text |-> t, cells |-> c] : t \in Scarce, c \in 0 .. 16}
=============================================================================

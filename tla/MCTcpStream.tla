----------------------------- MODULE MCTcpStream -----------------------------
\* Messages that are empty, that look like a header, that just fit and that
\* just do not.
EXTENDS TcpStream

MCMessages == {<<>>, <<Other>>, <<1, Newline, Other>>,
               [i \in 1..11 |-> i], [i \in 1..12 |-> IF i = 6 THEN Other ELSE 2]}
=============================================================================

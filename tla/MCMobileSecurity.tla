-------------------------- MODULE MCMobileSecurity --------------------------
EXTENDS MobileSecurity

\* Versions of different lengths, some of them equal.
MCVersions == {<<1>>, <<1, 0>>, <<1, 1>>, <<2>>, <<0, 9, 9>>, <<1, 0, 1>>}

\* A phone book in which a number is listed twice, a contact has two numbers
\* and one number is too short.
Number(rest, zero, long) == [rest |-> rest, zero |-> zero, long |-> long]
MCEntries ==
    [ann |-> {Number("x", TRUE, TRUE), Number("s", FALSE, FALSE)},
     bob |-> {Number("x", FALSE, TRUE), Number("y", TRUE, TRUE)},
     cy  |-> {Number("z", FALSE, TRUE)}]
MCOnZaps == {"x", "z"}
=============================================================================

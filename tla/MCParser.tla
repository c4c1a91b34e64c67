------------------------------- MODULE MCParser -------------------------------
EXTENDS ParserProperties
AllBytes == {"a", " ", "\n", "\\", "#"} \cup Quotes \cup Operators
=============================================================================

---------------------------- MODULE MCInsertedCode ----------------------------
EXTENDS InsertedCode

\* One stack pointer is aligned to 16 bytes, one is not.
MCTops == {100, 101}
===============================================================================

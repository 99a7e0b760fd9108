------------------------------- MODULE MCServer -------------------------------
\* Server as TLC runs it: its constants are model values and small numbers.
EXTENDS Server, TLC
===============================================================================

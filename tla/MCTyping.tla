------------------------------- MODULE MCTyping -------------------------------
\* Typing as TLC runs it, in ticks of half a second.
EXTENDS Typing, TLC
===============================================================================

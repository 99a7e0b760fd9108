---------------------------- MODULE MCRateLimiter -----------------------------
\* RateLimiter as TLC runs it: one user (each has a key of his own, and users share
\* nothing else), more requests than two windows admit.
EXTENDS RateLimiter, TLC
===============================================================================

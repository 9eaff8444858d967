------------------------------ MODULE MCAttach ------------------------------
\* Attach for TLC: two commands, of any mode, and with the timers, the exit and
\* the target itself up to six agents.
EXTENDS Attach
=============================================================================

------------------------------ MODULE MCSandbox ------------------------------
\* A program that starts two processes and writes more than is kept of it.
EXTENDS Sandbox

CONSTANTS leader, c1, c2
=============================================================================

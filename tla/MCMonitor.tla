----------------------------- MODULE MCMonitor ------------------------------
\* Monitor for TLC: a deque of two samples instead of 10000.
EXTENDS Monitor
=============================================================================

----------------------------- MODULE MCShadows -----------------------------
EXTENDS Shadows
MCThreads == 1..2
=============================================================================

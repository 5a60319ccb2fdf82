------------------------------- MODULE MCSaveSync -------------------------------
EXTENDS SaveSync
CONSTANTS d1, d2
================================================================================

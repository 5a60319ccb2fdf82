------------------------------ MODULE MCGameLaunch ------------------------------
EXTENDS GameLaunch
CONSTANTS p1, p2
================================================================================

------------------------------ MODULE MCGameInstall ------------------------------
EXTENDS GameInstall
================================================================================

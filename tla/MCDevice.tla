------------------------------ MODULE MCDevice ------------------------------
EXTENDS Device
=============================================================================

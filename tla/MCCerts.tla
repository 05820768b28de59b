------------------------------ MODULE MCCerts -------------------------------
EXTENDS Certs

CONSTANTS n1, n2
=============================================================================
